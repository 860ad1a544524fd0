---------------------------- MODULE RecordNormalizer ----------------------------
(***************************************************************************)
(* RecordNormalizer.normalize: the session and the calls built from what   *)
(* the engine made of one record, the issues, and the names to resolve.    *)
(***************************************************************************)
EXTENDS TransformationEngine

VALID_OUTCOMES == {<<"completed">>, <<"error">>, <<"aborted">>, <<"unknown">>}

VALID_STATUSES == {<<"ok">>, <<"error">>, <<"unknown">>}

\* data.get(field)
Get(data, field) == IF field \in DOMAIN data THEN data[field] ELSE Null

\* reference_name: a blank text is no name
ReferenceName(v) ==
    CASE v = Null -> Returns(Null)
      [] v[1] \in {"text", "int", "float", "infinity"} ->
            Returns(IF Blank(Text(v)) THEN Null ELSE <<"text", Text(v)>>)
      [] OTHER -> Raises("REFERENCE_NAME_INVALID")

\* _check_natural_key
MissesNaturalKey(entity, data) == \E key \in entity.natural_key : Get(data, key) = Null

Built(row, names) == [rows |-> <<row>>, names |-> names, issues |-> {}]

\* Mutant: a tool call without a name is dropped like a name that is not needed.
NotBuiltQuietly(code) ==
    [rows |-> <<>>, names |-> {},
     issues |-> IF code = "REFERENCE_NAME_INVALID" THEN {} ELSE {Issue("rejected", code)}]

\* The entity is not built, and the issue says so
NotBuilt(code) == [rows |-> <<>>, names |-> {}, issues |-> {Issue("rejected", code)}]

Name(kind, name, context) == [kind |-> kind, name |-> name, context |-> context]

\* The references of the names a row has
NamesOf(kind, name, context) == IF name = Null THEN {} ELSE {Name(kind, name, context)}

\* _build_session, of the first entry
BuildSession(entity, data) ==
    LET agent == ReferenceName(Get(data, "agent_name")) IN
    IF MissesNaturalKey(entity, data) THEN NotBuilt("MAPPING_MISSING_NATURAL_KEY")
    ELSE IF agent.code # "none" THEN NotBuilt(agent.code)
    ELSE IF \/ Get(data, "external_id") = Null
            \/ Get(data, "outcome") # Null /\ data.outcome[2] \notin VALID_OUTCOMES
         THEN NotBuilt("ENTITY_CONSTRUCTION_FAILED")
    ELSE Built([kind |-> "session", data |-> data], NamesOf("agent", agent.value, Null))

\* The index of a call is that of its row in the source, unless the mapping gave one
SequenceNumbered(entry) ==
    [field \in DOMAIN entry.data \cup {"sequence_index"} |->
        IF field \in DOMAIN entry.data THEN entry.data[field] ELSE <<"int", entry.source_index>>]

Status(data) == IF Get(data, "status") = Null THEN <<"unknown">> ELSE data.status[2]

\* One turn of the loop of _build_model_calls
BuildModelCall(entity, entry) ==
    LET data == SequenceNumbered(entry)
        model == ReferenceName(Get(data, "model_name"))
        provider == ReferenceName(Get(data, "provider_name")) IN
    IF MissesNaturalKey(entity, data) THEN NotBuilt("MAPPING_MISSING_NATURAL_KEY")
    ELSE IF model.code # "none" \/ provider.code # "none" THEN NotBuilt("REFERENCE_NAME_INVALID")
    ELSE IF Status(data) \notin VALID_STATUSES THEN NotBuilt("ENTITY_CONSTRUCTION_FAILED")
    ELSE Built([kind |-> "model_call", data |-> data],
               NamesOf("provider", provider.value, Null)
               \cup NamesOf("model", model.value, provider.value))

\* One turn of the loop of _build_tool_calls: a tool call needs the name of its tool
BuildToolCall(entity, entry) ==
    LET data == SequenceNumbered(entry)
        tool == ReferenceName(Get(data, "tool_name")) IN
    IF MissesNaturalKey(entity, data) THEN NotBuilt("MAPPING_MISSING_NATURAL_KEY")
    ELSE IF tool.code # "none" THEN NotBuilt(tool.code)
    ELSE IF tool = Returns(Null)
         THEN NotBuilt(IF Get(data, "tool_name") = Null THEN "ENTITY_CONSTRUCTION_FAILED"
                       ELSE "REFERENCE_NAME_INVALID")
    ELSE IF Status(data) \notin VALID_STATUSES THEN NotBuilt("ENTITY_CONSTRUCTION_FAILED")
    ELSE Built([kind |-> "tool_call", data |-> data], NamesOf("tool", tool.value, Null))

\* entities_by_target: the last entity of the mapping with that target
EntityOf(mapping, target) == Last(SelectSeq(mapping, LAMBDA e : e.target = target))

BuildCall(entity, entry) ==
    IF entry.entity = "model_call" THEN BuildModelCall(entity, entry) ELSE BuildToolCall(entity, entry)

\* The attempts to build the calls of one kind, if there is a session for them
CallAttempts(mapping, entries, session) ==
    IF entries = <<>> THEN <<>>
    ELSE IF session = <<>> \/ session[1].rows = <<>> THEN <<NotBuilt("PARENT_SESSION_MISSING")>>
    ELSE [i \in 1..Len(entries) |-> BuildCall(EntityOf(mapping, entries[1].entity), entries[i])]

EntriesOf(results, target) ==
    Picked(results, {i \in 1..Len(results) : results[i].entity = target})

\* The attempts to build what a record holds: the first session, then the calls
Attempts(mapping, results) ==
    LET Session(entries) ==
            IF entries = <<>> THEN <<>>
            ELSE <<BuildSession(EntityOf(mapping, "session"), entries[1].data)>>
        Under(session) ==
            session
            \o CallAttempts(mapping, EntriesOf(results, "model_call"), session)
            \o CallAttempts(mapping, EntriesOf(results, "tool_call"), session)
    IN Under(Session(EntriesOf(results, "session")))

SessionsIgnored(results) ==
    IF Len(EntriesOf(results, "session")) > 1
    THEN {Issue("warning", "MULTIPLE_SESSIONS_IGNORED")} ELSE {}

Normalize(mapping, record) ==
    LET Collected(attempts, issues) ==
            [rows   |-> FlattenSeq([i \in 1..Len(attempts) |-> attempts[i].rows]),
             issues |-> issues \cup UNION {attempt.issues : attempt \in Range(attempts)},
             reference_requests |-> UNION {attempt.names : attempt \in Range(attempts)}]
        Of(applied) == Collected(Attempts(mapping, applied.results),
                                     applied.issues \cup SessionsIgnored(applied.results))
    IN Of(Apply(mapping, record))
================================================================================
