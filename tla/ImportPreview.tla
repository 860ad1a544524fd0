------------------------------ MODULE ImportPreview ------------------------------
(***************************************************************************)
(* What is done with a file before it is imported: it is profiled, the     *)
(* profile is what the analyzer sees, a mapping is validated, and a sample *)
(* of records is normalised to show what an import would do with them.     *)
(***************************************************************************)
EXTENDS RecordNormalizer, ProfileSanitizer

CONSTANTS Files,        \* the contents a file may have: sequences of records
          Mappings,     \* the mappings a preview may be asked for
          SampleSize,   \* sample_size
          RowsShown     \* _ROWS_SHOWN

ASSUME PreviewAssumption == SampleSize \in Nat \ {0} /\ RowsShown \in Nat

ASSUME FilesAssumption ==
    /\ Files \subseteq Seq(Values)
    /\ \A text \in Files : \A record \in Range(text) :
          \A node \in Nodes(record) : Len(node.path) < Nesting

IsSequence(s) == s \in Seq(Range(s))

\* Names are sequences of characters, and none is an identifier followed by a newline,
\* of which _path_segment writes a path that parse_path refuses
ASSUME NamesAssumption ==
    \A value \in Values :
        value[1] = "object" => \A name \in DOMAIN value[2] :
            /\ IsSequence(name)
            /\ name # <<>> /\ Last(name) = "\n" => ~IsIdentifier(Front(name))

\* The words of a body are told from others: in names and texts they stand in whole
\* secrets only, for of what else they mean nothing can be said
ASSUME SecretsAssumption ==
    \A value \in Values :
        IF value[1] = "object" THEN \A name \in DOMAIN value[2] : Whole(name)
        ELSE value[1] # "list" => Whole(Text(value))

\* The shapes that MappingDefinition parses, whatever the names and parameters are
ASSUME MappingsAssumption ==
    \A definition \in Mappings :
        /\ IsSequence(definition)
        /\ \A entity \in Range(definition) :
              /\ IsSequence(entity.iterate) /\ IsSequence(entity.fields)
              /\ \A rule \in Range(entity.fields) :
                    /\ IsSequence(rule.operators) /\ rule.required \in BOOLEAN
                    /\ \A op \in Range(rule.operators) :
                          WellShaped(op, "sources") => IsSequence(op.sources)

VARIABLES file, mapping,
          profile,          \* the fields the analyzer is given
          phase,
          offset,           \* the records previewed so far
          would_import, shown, issues, rejected_lines

previewVars == <<file, mapping, profile, phase, offset, would_import, shown, issues, rejected_lines>>

Kinds == VALID_TARGETS

PreviewInit ==
    /\ file \in Files
    /\ mapping \in Mappings
    /\ profile = {}
    /\ phase = "uploaded"
    /\ offset = 0
    /\ would_import = [kind \in Kinds |-> 0]
    /\ shown = [kind \in Kinds |-> <<>>]
    /\ issues = {}
    /\ rejected_lines = {}

Reported == <<offset, would_import, shown, issues, rejected_lines>>

\* The texts of a column, as examples are drawn from them
Examples(path) ==
    {SanitizeValue(Text(leaf.value)) : leaf \in
        {l \in UNION {Leaves(record) : record \in Range(file)} :
            <<"$">> \o FlattenSeq(l.path) = path /\ l.value # Null}}

\* Whether Polars can give every column one type: no value stands in one record
\* where another record holds an object or a list
Uniform ==
    \A leaf \in UNION {Leaves(record) : record \in Range(file)} :
        leaf.value = Null \/ leaf.path \notin NestedPaths(file)

\* ProfileFile, then the sanitizer of ProposeMapping
ProfileFile ==
    /\ phase = "uploaded"
    /\ Uniform
    /\ profile' = {SanitizeField([path |-> path, examples |-> Examples(path)]) :
                      path \in ProfilePaths(file)}
    /\ phase' = "profiled"
    /\ UNCHANGED <<file, mapping, Reported>>

\* MappingInvalidError: no record is read
Refuse ==
    /\ phase \in {"uploaded", "profiled"}
    /\ Validate(mapping) # {}
    /\ phase' = "refused"
    /\ UNCHANGED <<file, mapping, profile, Reported>>

Accept ==
    /\ phase \in {"uploaded", "profiled"}
    /\ Validate(mapping) = {}
    /\ phase' = "reading"
    /\ UNCHANGED <<file, mapping, profile, Reported>>

Sampled == IF Len(file) < SampleSize THEN Len(file) ELSE SampleSize

RowsOfKind(rows, kind) == Picked(rows, {i \in 1..Len(rows) : rows[i].kind = kind})

\* One turn of the loop over the records
PreviewRecord ==
    /\ phase = "reading"
    /\ offset < Sampled
    /\ \E result \in {Normalize(mapping, file[offset + 1])} :
          LET line == offset + 1
              Rows(kind) == RowsOfKind(result.rows, kind)
              UpTo(room, rows) == IF Len(rows) <= room THEN rows ELSE SubSeq(rows, 1, room) IN
          /\ would_import' = [kind \in Kinds |-> would_import[kind] + Len(Rows(kind))]
          /\ shown' = [kind \in Kinds |->
                shown[kind] \o UpTo(RowsShown - Len(shown[kind]), Rows(kind))]
          /\ issues' = issues \cup {[line |-> line, issue |-> issue] : issue \in result.issues}
          /\ rejected_lines' = rejected_lines \cup (IF Rejected(result.issues) THEN {line} ELSE {})
    /\ offset' = offset + 1
    /\ UNCHANGED <<file, mapping, profile, phase>>

Answer ==
    /\ phase = "reading"
    /\ offset = Sampled
    /\ phase' = "answered"
    /\ UNCHANGED <<file, mapping, profile, Reported>>

PreviewNext == ProfileFile \/ Refuse \/ Accept \/ PreviewRecord \/ Answer

PreviewSpec == PreviewInit /\ [][PreviewNext]_previewVars

--------------------------------------------------------------------------------
(* Properties *)

\* Type correctness: a preview reads no more than its sample and shows no more
\* rows of a kind than fit.
PreviewTypeOK ==
    /\ phase \in {"uploaded", "profiled", "refused", "reading", "answered"}
    /\ offset \in 0..SampleSize
    /\ rejected_lines \subseteq 1..offset
    /\ \A kind \in Kinds :
          /\ would_import[kind] \in Nat
          /\ Len(shown[kind]) = IF would_import[kind] < RowsShown THEN would_import[kind]
                                ELSE RowsShown

\* The place of the last [] of a path, 0 if there is none
LastEach(segments) ==
    IF Contains(segments, Each)
    THEN CHOOSE i \in 1..Len(segments) :
            segments[i] = Each /\ \A j \in i + 1..Len(segments) : segments[j] # Each
    ELSE 0

\* What the engine reads at a path, in an entity that iterates over the list it names
ReadAt(path, record) ==
    LET Within(prefix) ==
            IF prefix = <<>> THEN {Resolve(record, ParsePath(path))}
            ELSE {Resolve(row, SourcePath(path, prefix)) :
                     row \in Range(ResolveRows(record, prefix).rows)}
        UpToLastEach(segments) == SubSeq(segments, 1, LastEach(segments))
    IN Within(UpToLastEach(ParsePath(path)))

\* A path copied from the profile that was sent is a path the engine resolves, to
\* the values found there and no other (json_path.py:3, sanitizer.py:56).
ProfiledPathsResolve ==
    phase = "profiled" =>
        /\ \A field \in profile : ParsePath(field.path) # Unsupported
        /\ \A record \in Range(file) : \A field \in profile :
              ReadAt(field.path, record) \ {Null} =
                 {leaf.value : leaf \in {l \in Leaves(record) :
                     <<"$">> \o FlattenSeq(l.path) = field.path}} \ {Null}
        /\ {field.path : field \in profile} = ProfilePaths(file)

\* The texts and the names of a sanitized value
WordsIn(value) ==
    UNION {CASE node.value[1] = "object" -> UNION {Range(name) : name \in DOMAIN node.value[2]}
             [] node.value[1] = "text" -> Range(node.value[2])
             [] OTHER -> {} : node \in Nodes(value)}

\* Nothing of the body of a secret is left in the values that are sent, wherever
\* the bound on their length falls (sanitizer.py:280).
NoSecretIsSent ==
    phase = "profiled" =>
        Body \cap
            ((UNION {UNION {Range(text) : text \in field.examples} : field \in profile})
             \cup UNION {WordsIn(record) : record \in Range(SanitizeSamples(file))}) = {}

\* An operator that fails whatever it is given: what it runs through is null
RunsOverNull(op) == \E p \in {"sources", "table", "algorithm"} : Has(op, p) /\ op[p] = NullParameter

\* An operator that was asked to make something, or an error, of nothing
Answers(op) ==
    \/ op.op = "default" /\ op.value # Null
    \/ op.op = "map_values" /\ ~RunsOverNull(op) /\ MapValues(Null, op) # Returns(Null)

\* Whether a rule finds nothing at any of the paths it reads
FindsNothing(rule, row, prefix) ==
    /\ Lookup(rule.source, row, prefix) = Null
    /\ \A op \in Range(rule.operators) :
          NotNull(op, "sources") => \A path \in Range(op.sources) : Lookup(path, row, prefix) = Null

\* What becomes of a rule that finds nothing and was asked for no answer
OfNothing(rule) ==
    IF \E op \in Range(rule.operators) : RunsOverNull(op)
    THEN Issue(IF rule.required THEN "rejected" ELSE "warning", "OPERATOR_FAILED")
    ELSE IF rule.required THEN Issue("rejected", "MISSING_REQUIRED_FIELD")
    ELSE Returns(Null)

\* A mapping that passed validation fails for one reason only that was in the
\* mapping: no path is refused, and where a rule finds nothing its operators do not
\* fail unless one was asked for an answer, or has for its sources, its table or its
\* algorithm a null, which validation lets through (mapping_validator.py:70,
\* mapping_validator.py:183, preview_import.py:73).
ValidMappingsRun ==
    phase \in {"reading", "answered"} =>
        /\ \A found \in issues : found.issue.code # "MAPPING_UNSUPPORTED_PATH"
        /\ \A record \in Range(file) : \A entity \in Range(mapping) :
              \A row \in Range(RowsOf(entity, record).rows) : \A rule \in Range(entity.fields) :
                  FindsNothing(rule, row, Prefix(entity))
                  /\ (\A op \in Range(rule.operators) : ~Answers(op)) =>
                        Field(rule, row, Prefix(entity)) = OfNothing(rule)

\* How many rows of a kind a record holds for the mapping
Held(kind, record) ==
    Len(FlattenSeq([e \in 1..Len(mapping) |->
        IF mapping[e].target = kind THEN RowsOf(mapping[e], record).rows ELSE <<>>]))

\* What an import can make of a record: one session, and every call
Expected(record) ==
    Held("model_call", record) + Held("tool_call", record)
    + IF Held("session", record) = 0 THEN 0 ELSE 1

\* Whether a session of the record is refused for one of its fields
RefusesSession(record) ==
    \E e \in Range(mapping) : e.target = "session"
        /\ \E row \in Range(RowsOf(e, record).rows) : ApplyEntity(e, row).rejected

\* A line counts as rejected exactly when something it holds is not imported or
\* could not be reached, a session among several included: no row is lost without an
\* explanation, and no line is reported whose rows are all there
\* (record_normalizer.py:139, preview_import.py:123).
NothingLostInSilence ==
    phase \in {"reading", "answered"} =>
        \A line \in 1..offset :
            LET record == file[line] IN
            line \in rejected_lines <=>
                \/ Len(Normalize(mapping, record).rows) < Expected(record)
                \/ \E e \in Range(mapping) : RowsOf(e, record).wrong
                \/ RefusesSession(record)

\* Every row a preview shows has values of the types of its fields and the fields
\* of its natural key, so that storing it cannot fail on them (transformation_engine.py:164).
ShownRowsAreSound ==
    \A kind \in Kinds : \A row \in Range(shown[kind]) :
        /\ \A field \in DOMAIN row.data : row.data[field][1] = FieldType(field)
        /\ EntityOf(mapping, kind).natural_key \subseteq DOMAIN row.data

\* The index of a call whose mapping gives none is its place in the source list,
\* whatever happened to the rows before it (transformation_engine.py:70).
SourcePositionsAreKept ==
    phase = "reading" /\ offset > 0 =>
        \A entity \in Range(mapping) :
            \E rows \in {RowsOf(entity, file[offset]).rows} :
            (IsCall(entity.target)
             /\ "sequence_index" \notin {rule.target : rule \in Range(entity.fields)}
             /\ Cardinality({i \in 1..Len(mapping) : mapping[i].target = entity.target}) = 1) =>
                \A row \in Range(RowsOfKind(Normalize(mapping, file[offset]).rows, entity.target)) :
                    LET index == row.data.sequence_index[2] IN
                    /\ index + 1 \in 1..Len(rows)
                    /\ \A field \in DOMAIN row.data \ {"sequence_index"} :
                          row.data[field] = Get(ApplyEntity(entity, rows[index + 1]).data, field)

\* The rows of a preview can be stored as they are shown, in the order of the file.
RowsAreSound == ShownRowsAreSound /\ SourcePositionsAreKept
================================================================================
