-------------------------- MODULE TransformationEngine --------------------------
(***************************************************************************)
(* TransformationEngine.apply: what a mapping makes of one record.  A text *)
(* is a sequence of words, of which only those below are told apart; a     *)
(* float counts thousandths, an instant milliseconds.  "infinity" is what  *)
(* json.loads makes of 1e999.  An outcome holds a value, or the code of    *)
(* the exception that was raised.                                          *)
(***************************************************************************)
EXTENDS MappingValidator, TLC

CONSTANT RegexExtractor   \* whether an extractor is injected

Numerals == [w \in {"0", "1", "2", "7", "12"} |->
    CHOOSE n \in 0..12 : ToString(n) = w]

Instants == "1970-01-01T00:00:01Z" :> 1000 @@ "1970-01-01T00:00:02Z" :> 2000

LowerCase == "OK" :> "ok" @@ "X" :> "x" @@ "TRUE" :> "true"

LowerWord(w) == IF w \in DOMAIN LowerCase THEN LowerCase[w] ELSE w

UpperWord(w) ==
    IF \E u \in DOMAIN LowerCase : LowerCase[u] = w
    THEN CHOOSE u \in DOMAIN LowerCase : LowerCase[u] = w ELSE w

Blank(text) == \A i \in 1..Len(text) : text[i] = " "

Strip(text) == SelectSeq(text, LAMBDA w : w # " ")

IntegerTypes == {"int", "bool"}

NumberTypes == IntegerTypes \cup {"float", "infinity"}

Thousandths(v) ==
    CASE v[1] = "int" -> v[2] * 1000
      [] v[1] = "bool" -> IF v[2] THEN 1000 ELSE 0
      [] OTHER -> v[2]

\* str(value)
Text(v) ==
    CASE v[1] = "text" -> v[2]
      [] v[1] = "int" -> <<ToString(v[2])>>
      [] v[1] = "bool" -> IF v[2] THEN <<"True">> ELSE <<"False">>
      [] v[1] = "float" -> <<ToString(v[2] \div 1000), ".", ToString(v[2] % 1000)>>
      [] OTHER -> <<ToString(v)>>

\* float(value) of a text, in thousandths
IsNumeral(text) ==
    \/ Len(Strip(text)) = 1 /\ Strip(text)[1] \in DOMAIN Numerals
    \/ Len(Strip(text)) = 3 /\ Strip(text)[2] = "."

NumberOf(text) ==
    LET words == Strip(text) IN
    IF Len(words) = 1 THEN Numerals[words[1]] * 1000
    ELSE CHOOSE n \in 0..12000 : Text(<<"float", n>>) = words

IsNumber(v) == v[1] \in NumberTypes \/ (v[1] = "text" /\ IsNumeral(v[2]))

InThousandths(v) == IF v[1] = "text" THEN NumberOf(v[2]) ELSE Thousandths(v)

\* round(): to the nearest, a half to the even neighbour
Round(thousandths) ==
    LET floor == thousandths \div 1000
        rest  == thousandths % 1000 IN
    IF rest > 500 \/ (rest = 500 /\ floor % 2 = 1) THEN floor + 1 ELSE floor

\* The items of a sequence at some places, in their order (the prover knows nothing of SelectSeq)
Picked(s, places) ==
    FlattenSeq([i \in 1..Len(s) |-> IF i \in places THEN <<s[i]>> ELSE <<>>])

Outcome(value, code) == [value |-> value, code |-> code]

Returns(value) == Outcome(value, "none")

Raises(code) == Outcome(Null, code)

--------------------------------------------------------------------------------
(* The operators *)

TruthOf(v) ==
    LET words == LowerWord(IF Len(Strip(Text(v))) = 1 THEN Strip(Text(v))[1] ELSE "") IN
    CASE v[1] = "bool" -> Returns(v)
      [] words \in {"true", "1", "yes"} -> Returns(<<"bool", TRUE>>)
      [] words \in {"false", "0", "no"} -> Returns(<<"bool", FALSE>>)
      [] OTHER -> Raises("CAST_FAILED")

\* int() of an infinity is an OverflowError, which _cast lets through
Converted(v, to) ==
    IF to = "string" THEN Returns(<<"text", Text(v)>>)
    ELSE IF to = "boolean" THEN TruthOf(v)
    ELSE IF to \notin {"integer", "float"} THEN Raises("CAST_FAILED")
    ELSE IF v[1] = "infinity" THEN IF to = "float" THEN Returns(v) ELSE Raises("OPERATOR_FAILED")
    ELSE IF ~IsNumber(v) \/ (to = "integer" /\ v[1] = "text" /\ Len(Strip(v[2])) # 1)
         THEN Raises("CAST_FAILED")
    ELSE Returns(IF to = "float" THEN <<"float", InThousandths(v)>>
                 ELSE <<"int", InThousandths(v) \div 1000>>)

Cast(v, op) ==
    LET OnError(result) ==
            IF result.code = "CAST_FAILED" /\ Has(op, "on_error") /\ op.on_error = "null"
            THEN Returns(Null) ELSE result
    IN IF v = Null \/ (v[1] = "text" /\ Blank(v[2])) THEN Returns(Null)
       ELSE OnError(Converted(v, op.to))

\* Numerator and denominator of a supported conversion
Factor(from, to) ==
    CASE <<from, to>> = <<"s", "ms">> -> <<1000, 1>>
      [] <<from, to>> = <<"min", "ms">> -> <<60000, 1>>
      [] <<from, to>> = <<"ns", "ms">> -> <<1, 1000000>>
      [] <<from, to>> = <<"ms", "s">> -> <<1, 1000>>
      [] <<from, to>> = <<"kb", "b">> -> <<1024, 1>>
      [] OTHER -> <<1048576, 1>>

UnitConvert(v, from_unit, to_unit) ==
    LET from == Lowered(from_unit)
        to   == Lowered(to_unit)
        Typed(n) == IF to \in {"ms", "b"} THEN <<"int", Round(n)>> ELSE <<"float", n>>
        Scaled(n, factor) == (n * factor[1]) \div factor[2] IN
    IF v = Null THEN Returns(Null)
    ELSE IF <<from, to>> \notin SUPPORTED_UNITS \/ ~IsNumber(v) THEN Raises("OPERATOR_FAILED")
    ELSE IF v[1] = "infinity" THEN IF to = "s" THEN Returns(v) ELSE Raises("OPERATOR_FAILED")
    ELSE Returns(Typed(Scaled(InThousandths(v), Factor(from, to))))

MapValues(v, op) ==
    LET word == IF v = Null THEN <<"null">> ELSE Text(v)
        mode == IF Has(op, "on_unknown") THEN op.on_unknown ELSE "passthrough" IN
    IF Has(op, "table") /\ op.table = NullParameter THEN Raises("OPERATOR_FAILED")
    ELSE IF Has(op, "table") /\ word \in DOMAIN op.table THEN Returns(op.table[word])
    ELSE CASE mode = "null" -> Returns(Null)
           [] mode = "constant" -> Returns(IF Has(op, "constant") THEN op.constant ELSE Null)
           [] mode = "reject" -> Raises("OPERATOR_FAILED")
           [] OTHER -> Returns(v)

ParseDatetime(v, format) ==
    IF v = Null THEN Returns(Null)
    ELSE CASE format = "unix_seconds" /\ v[1] # "infinity" /\ IsNumber(v) ->
                Returns(<<"time", InThousandths(v)>>)
           [] format = "unix_millis" /\ v[1] # "infinity" /\ IsNumber(v) ->
                Returns(<<"time", InThousandths(v) \div 1000>>)
           [] format \notin {"unix_seconds", "unix_millis", NullParameter} /\ Len(Text(v)) = 1
                 /\ Text(v)[1] \in DOMAIN Instants -> Returns(<<"time", Instants[Text(v)[1]]>>)
           [] OTHER -> Raises("DATETIME_PARSE_FAILED")

RegexExtract(v, pattern) ==
    IF v = Null THEN Returns(Null)
    ELSE IF ~RegexExtractor THEN Raises("REGEX_EXTRACTOR_NOT_CONFIGURED")
    ELSE IF pattern = NullParameter THEN Raises("OPERATOR_FAILED")
    ELSE Returns(<<"text", Text(v)>>)

\* The parameters _apply_operator reads with op[...]: a KeyError without them
ReadParameters(op) == OPERATOR_SPECS[op.op].required \ {"value", "table", "on_unknown", "algorithm"}

\* coalesce, concat and hash look up their own sources in the row
Lookup(path, row, prefix) == Resolve(row, SourcePath(path, prefix))

Found(sources, row, prefix) ==
    LET values == [i \in 1..Len(sources) |-> Lookup(sources[i], row, prefix)] IN
    Picked(values, {i \in 1..Len(sources) : values[i] # Null})

Joined(op, found) ==
    LET separator == IF Has(op, "separator") THEN op.separator ELSE <<>> IN
    FoldLeft(LAMBDA text, v : text \o separator \o Text(v), Text(found[1]), Tail(found))

\* The digest is that of the values by source, in whatever order they are listed
Digest(op, row, prefix) ==
    <<"sha256", ToString([path \in Range(op.sources) |-> Lookup(path, row, prefix)])>>

\* coalesce, concat and hash of the values found; None.join is an error
Combined(op, found, row, prefix) ==
    IF found = <<>> THEN Returns(Null)
    ELSE IF op.op = "concat" /\ Has(op, "separator") /\ op.separator = NullParameter
    THEN Raises("OPERATOR_FAILED")
    ELSE CASE op.op = "coalesce" -> Returns(found[1])
           [] op.op = "concat" -> Returns(<<"text", Joined(op, found)>>)
           [] op.op = "hash" -> Returns(<<"text", Digest(op, row, prefix)>>)

\* Sources that are null cannot be run through
FromSources(op, row, prefix) ==
    IF \/ op.op = "hash" /\ Has(op, "algorithm") /\ op.algorithm # "sha256"
       \/ op.sources = NullParameter
    THEN Raises("OPERATOR_FAILED")
    ELSE IF \E path \in Range(op.sources) : SourcePath(path, prefix) = Unsupported
    THEN Raises("MAPPING_UNSUPPORTED_PATH")
    ELSE Combined(op, Found(op.sources, row, prefix), row, prefix)

\* trim, lower and upper
Recased(op, text) ==
    CASE op.op = "trim" -> Strip(text)
      [] op.op = "lower" -> [i \in 1..Len(text) |-> LowerWord(text[i])]
      [] op.op = "upper" -> [i \in 1..Len(text) |-> UpperWord(text[i])]

ApplyOperator(op, v, row, prefix) ==
    IF op.op \notin DOMAIN OPERATOR_SPECS \/ ~ReadParameters(op) \subseteq DOMAIN op
    THEN Raises("OPERATOR_FAILED")
    ELSE CASE op.op = "cast" -> Cast(v, op)
           [] op.op = "default" -> Returns(IF v = Null THEN op.value ELSE v)
           [] op.op \in {"trim", "lower", "upper"} ->
                Returns(IF v = Null THEN Null ELSE <<"text", Recased(op, Text(v))>>)
           [] op.op = "unit_convert" -> UnitConvert(v, op.from, op.to)
           [] op.op = "map_values" -> MapValues(v, op)
           [] op.op = "json_passthrough" -> Returns(v)
           [] op.op = "parse_datetime" -> ParseDatetime(v, op.format)
           [] op.op = "regex_extract" -> RegexExtract(v, op.pattern)
           [] op.op \in {"coalesce", "concat", "hash"} -> FromSources(op, row, prefix)

--------------------------------------------------------------------------------
(* Fields, entities and rows *)

\* TARGET_FIELD_TYPES
FieldType(target) ==
    CASE target \in {"started_at", "ended_at"} -> "time"
      [] target \in {"sequence_index", "duration_ms", "input_tokens", "output_tokens",
                     "cache_read_tokens", "cache_creation_tokens"} -> "int"
      [] OTHER -> "text"

Mismatch == Raises("TYPE_MISMATCH")

\* _coerce_target_type
Coerce(target, v) ==
    CASE v[1] = FieldType(target) -> Returns(v)
      [] FieldType(target) = "text" /\ v[1] \in {"int", "float", "infinity"} ->
            Returns(<<"text", Text(v)>>)
      [] FieldType(target) = "int" /\ v[1] = "float" -> Returns(<<"int", Round(v[2])>>)
      [] OTHER -> Mismatch

Issue(severity, code) == [severity |-> severity, code |-> code]

\* _apply_field: the operators in order, until one raises
ApplyField(rule, row, prefix) ==
    LET after[n \in 0..Len(rule.operators)] ==
            IF n = 0 THEN Returns(Lookup(rule.source, row, prefix))
            ELSE IF after[n - 1].code # "none" THEN after[n - 1]
            ELSE ApplyOperator(rule.operators[n], after[n - 1].value, row, prefix)
    IN IF SourcePath(rule.source, prefix) = Unsupported THEN Raises("MAPPING_UNSUPPORTED_PATH")
       ELSE after[Len(rule.operators)]

\* What one field makes of the entity: its value, or the issue that explains
\* why there is none, and whether the row is refused for it
Field(rule, row, prefix) ==
    LET Coerced(applied) ==
            IF applied.value = Null THEN applied ELSE Coerce(rule.target, applied.value)
        Judged(value) ==
            CASE value.code = "TYPE_MISMATCH" -> Issue("rejected", "TYPE_MISMATCH")
              [] value.code \notin {"none", "TYPE_MISMATCH"} ->
                    Issue(IF rule.required THEN "rejected" ELSE "warning", value.code)
              [] value = Returns(Null) /\ rule.required ->
                    Issue("rejected", "MISSING_REQUIRED_FIELD")
              [] OTHER -> value
    IN Judged(Coerced(ApplyField(rule, row, prefix)))

IsIssue(outcome) == "severity" \in DOMAIN outcome

Rejected(issues) == \E issue \in issues : issue.severity = "rejected"

\* _apply_entity: the last of the fields with one target that has a value counts
ApplyEntity(entity, row) ==
    LET Given(outcomes) ==
            {i \in 1..Len(outcomes) : ~IsIssue(outcomes[i]) /\ outcomes[i] # Returns(Null)}
        For(target, given) == {i \in given : entity.fields[i].target = target}
        ByTarget(outcomes, given) ==
            [target \in {entity.fields[i].target : i \in given} |->
                outcomes[Max(For(target, given))].value]
        Gathered(outcomes) ==
            [issues |-> {o \in Range(outcomes) : IsIssue(o)},
             rejected |-> Rejected({o \in Range(outcomes) : IsIssue(o)}),
             data |-> ByTarget(outcomes, Given(outcomes))]
    IN Gathered([i \in 1..Len(entity.fields) |-> Field(entity.fields[i], row, Prefix(entity))])

\* _extract_rows, or the record itself for an entity that is not iterated
RowsOf(entity, record) ==
    LET Iterated(prefix) ==
            IF prefix = <<>> THEN [rows |-> <<>>, wrong |-> TRUE] ELSE ResolveRows(record, prefix)
    IN IF entity.iterate = <<>> THEN [rows |-> <<record>>, wrong |-> FALSE]
       ELSE Iterated(Prefix(entity))

\* What an entity of the mapping makes of a record: its rows, each with the
\* outcome of its fields
Applied(entity, record) ==
    LET OverRows(reached) ==
            [entity |-> entity.target,
             rows |-> [i \in 1..Len(reached.rows) |-> ApplyEntity(entity, reached.rows[i])],
             issues |->
                IF ~reached.wrong THEN {}
                ELSE {Issue("rejected", IF Prefix(entity) = <<>> THEN "MAPPING_UNSUPPORTED_PATH"
                                        ELSE "ITERATE_NOT_A_LIST")}]
    IN OverRows(RowsOf(entity, record))

\* Mutant: the rows that were refused leave no place behind.
SurvivorsRenumbered(applied) ==
    LET Numbered(kept) ==
            [k \in 1..Len(kept) |->
                [entity |-> applied.entity, data |-> kept[k].data, source_index |-> k - 1]]
    IN Numbered(SelectSeq(applied.rows, LAMBDA row : ~row.rejected))

\* The rows of an entity that survive, with their place in the source list
Survivors(applied) ==
    Picked([i \in 1..Len(applied.rows) |->
              [entity |-> applied.entity, data |-> applied.rows[i].data, source_index |-> i - 1]],
           {i \in 1..Len(applied.rows) : ~applied.rows[i].rejected})

Apply(mapping, record) ==
    LET Together(applied) ==
            [results |-> FlattenSeq([e \in 1..Len(applied) |-> Survivors(applied[e])]),
             issues |-> UNION {a.issues \cup UNION {row.issues : row \in Range(a.rows)} :
                                  a \in Range(applied)}]
    IN Together([e \in 1..Len(mapping) |-> Applied(mapping[e], record)])
================================================================================
