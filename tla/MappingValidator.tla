---------------------------- MODULE MappingValidator ----------------------------
(***************************************************************************)
(* mapping_validator.validate.  An operator is a record of its parameters, *)
(* a parameter of a wrong shape being Malformed and one that is JSON null  *)
(* being NullParameter; a pattern is known by its number of groups.        *)
(***************************************************************************)
EXTENDS JsonPaths

CONSTANTS Malformed, NullParameter

CALL_FIELDS == {"sequence_index", "status", "duration_ms", "started_at"}

TARGET_FIELDS ==
    [session |-> {"external_id", "agent_name", "started_at", "ended_at", "duration_ms", "outcome"},
     model_call |-> CALL_FIELDS \cup
        {"model_name", "provider_name", "input_tokens", "output_tokens", "cache_read_tokens",
         "cache_creation_tokens", "stop_reason", "error_code"},
     tool_call |-> CALL_FIELDS \cup {"tool_name", "error_message"}]

VALID_TARGETS == DOMAIN TARGET_FIELDS

IsCall(target) == target \in VALID_TARGETS /\ "sequence_index" \in TARGET_FIELDS[target]

Parameters(required, optional) == [required |-> required, optional |-> optional]

OPERATOR_SPECS ==
    [cast |-> Parameters({"to"}, {"on_error"}),
     parse_datetime |-> Parameters({"format"}, {"timezone"}),
     default |-> Parameters({"value"}, {}),
     coalesce |-> Parameters({"sources"}, {}),
     unit_convert |-> Parameters({"from", "to"}, {}),
     map_values |-> Parameters({"table", "on_unknown"}, {"constant"}),
     trim |-> Parameters({}, {}),
     lower |-> Parameters({}, {}),
     upper |-> Parameters({}, {}),
     regex_extract |-> Parameters({"pattern"}, {"group"}),
     concat |-> Parameters({"sources"}, {"separator"}),
     hash |-> Parameters({"algorithm", "sources"}, {}),
     json_passthrough |-> Parameters({}, {"max_bytes"})]

SUPPORTED_UNITS ==
    {<<"s", "ms">>, <<"min", "ms">>, <<"ns", "ms">>, <<"ms", "s">>, <<"kb", "b">>, <<"mb", "b">>}

\* unit.lower(), of the units above in capitals
UNIT_NAMES == [S |-> "s", MS |-> "ms", MIN |-> "min", NS |-> "ns", KB |-> "kb", MB |-> "mb", B |-> "b"]

Lowered(unit) == IF unit \in DOMAIN UNIT_NAMES THEN UNIT_NAMES[unit] ELSE unit

CHOICES ==
    [cast |-> [to |-> {"string", "integer", "float", "boolean"}, on_error |-> {"reject", "null"}],
     map_values |-> [on_unknown |-> {"passthrough", "null", "reject", "constant"}],
     hash |-> [algorithm |-> {"sha256"}],
     parse_datetime |-> [timezone |-> {"UTC"}]]

\* A null is neither of a wrong shape nor one of the choices
ASSUME ParametersAssumption ==
    /\ NullParameter # Malformed
    /\ \A name \in DOMAIN CHOICES : \A parameter \in DOMAIN CHOICES[name] :
          NullParameter \notin CHOICES[name][parameter]

Has(op, parameter) == parameter \in DOMAIN op

\* The checks look at a parameter unless it is null
NotNull(op, parameter) == Has(op, parameter) /\ op[parameter] # NullParameter

WellShaped(op, parameter) == NotNull(op, parameter) /\ op[parameter] # Malformed

\* The parameters whose shape is checked
SHAPED == {"sources", "separator", "format", "table", "pattern", "max_bytes"}

\* _choice and its like; a timezone is looked at after a format that is a text
BadChoices(op) ==
    LET chosen == IF op.op \in DOMAIN CHOICES THEN CHOICES[op.op] ELSE <<>> IN
    {p \in DOMAIN chosen :
        /\ NotNull(op, p) /\ op[p] \notin chosen[p]
        /\ p = "timezone" => WellShaped(op, "format")}

\* _unit_conversion
BadUnits(op) ==
    IF op.op # "unit_convert" \/ ~NotNull(op, "from") \/ ~NotNull(op, "to") THEN {}
    ELSE IF Malformed \in {op.from, op.to} THEN {"from"}
    ELSE IF <<Lowered(op.from), Lowered(op.to)>> \in SUPPORTED_UNITS THEN {} ELSE {"to"}

\* _regex: the one check that refuses a null
BadGroup(op) ==
    /\ op.op = "regex_extract" /\ Has(op, "group")
    /\ ~WellShaped(op, "group") \/ (WellShaped(op, "pattern") /\ op.group > op.pattern)

\* OperatorSpec.check: the parameters whose value is refused
Refused(op) ==
    {p \in SHAPED : NotNull(op, p) /\ op[p] = Malformed}
    \cup BadChoices(op) \cup BadUnits(op)
    \cup (IF Has(op, "sources") /\ op.sources = <<>> THEN {"sources"} ELSE {})
    \cup (IF op.op = "map_values" /\ Has(op, "on_unknown") /\ op.on_unknown = "constant"
             /\ ~Has(op, "constant") THEN {"constant"} ELSE {})
    \cup (IF BadGroup(op) THEN {"group"} ELSE {})

ValidationError(code, entity, parameter) ==
    [code |-> code, target |-> entity.target, at |-> parameter]

PathErrors(path, prefix, entity, at) ==
    IF SourcePath(path, prefix) = Unsupported
    THEN {ValidationError("MAPPING_UNSUPPORTED_PATH", entity, at)} ELSE {}

\* Mutant: the required parameters are not looked for.
ParameterErrorsOptional(op, entity) ==
    {ValidationError("INVALID_OPERATOR_PARAM", entity, p) : p \in
        Refused(op)
        \cup (DOMAIN op \ ({"op"} \cup OPERATOR_SPECS[op.op].required \cup OPERATOR_SPECS[op.op].optional))}

ParameterErrors(op, entity) ==
    LET spec == OPERATOR_SPECS[op.op] IN
    {ValidationError("INVALID_OPERATOR_PARAM", entity, p) : p \in
        Refused(op) \cup (spec.required \ DOMAIN op)
        \cup (DOMAIN op \ ({"op"} \cup spec.required \cup spec.optional))}

\* An unknown operator ends the checks of that operator
OperatorErrors(op, prefix, entity) ==
    IF op.op \notin DOMAIN OPERATOR_SPECS
    THEN {ValidationError("MAPPING_UNKNOWN_OPERATOR", entity, op.op)}
    ELSE ParameterErrors(op, entity) \cup
         (IF WellShaped(op, "sources")
          THEN UNION {PathErrors(path, prefix, entity, "sources") : path \in Range(op.sources)}
          ELSE {})

\* _validate_field
FieldErrors(rule, prefix, entity) ==
    (IF rule.target \in TARGET_FIELDS[entity.target] THEN {}
     ELSE {ValidationError("MAPPING_UNKNOWN_TARGET", entity, rule.target)})
    \cup PathErrors(rule.source, prefix, entity, rule.target)
    \cup UNION {OperatorErrors(op, prefix, entity) : op \in Range(rule.operators)}

\* The iterate prefix of an entity; none when its path is refused
Prefix(entity) ==
    IF entity.iterate = <<>> \/ IteratePath(entity.iterate) = Unsupported THEN <<>>
    ELSE IteratePath(entity.iterate)

\* _validate_entity
EntityErrors(entity) ==
    LET declared == {rule.target : rule \in Range(entity.fields)}
        produced == declared \cup
            (IF IsCall(entity.target) /\ entity.iterate # <<>> THEN {"sequence_index"} ELSE {}) IN
    IF entity.target \notin VALID_TARGETS
    THEN {ValidationError("MAPPING_UNKNOWN_TARGET", entity, "entity")}
    ELSE (IF entity.natural_key = {}
          THEN {ValidationError("MAPPING_MISSING_NATURAL_KEY", entity, "natural_key")} ELSE {})
         \cup (IF entity.iterate # <<>> /\ IteratePath(entity.iterate) = Unsupported
               THEN {ValidationError("MAPPING_UNSUPPORTED_PATH", entity, "iterate")} ELSE {})
         \cup {ValidationError("MAPPING_INVALID_NATURAL_KEY", entity, key) :
                  key \in entity.natural_key \ produced}
         \cup (IF IsCall(entity.target) /\ "sequence_index" \notin produced
               THEN {ValidationError("MAPPING_MISSING_SEQUENCE_INDEX", entity, "fields")} ELSE {})
         \cup UNION {FieldErrors(rule, Prefix(entity), entity) : rule \in Range(entity.fields)}

Validate(mapping) == UNION {EntityErrors(entity) : entity \in Range(mapping)}
================================================================================
