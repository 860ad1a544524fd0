------------------------------- MODULE JsonPaths -------------------------------
(***************************************************************************)
(* The path notation: how json_path reads it and resolves it, and how the  *)
(* profiler writes it.  A path and a name are sequences of characters.  A  *)
(* JSON value is a tuple headed by its type: an object holds a function    *)
(* from names, a list a sequence, a text a sequence of words, a float a    *)
(* number of thousandths.                                                  *)
(***************************************************************************)
EXTENDS Integers, Sequences, SequencesExt, FiniteSets

CONSTANTS Letters, Digits,  \* of an identifier: A-Z a-z _ and 0-9
          Values,           \* what json.loads may return
          Nesting           \* bound: how deep the values of a file nest

Null == <<"null">>

ASSUME NestingAssumption == Nesting \in Nat

\* What an object or a list holds are values, finitely many
ASSUME ValuesAssumption ==
    /\ Null \in Values
    /\ \A value \in Values :
          /\ value[1] = "object" =>
                /\ IsFiniteSet(DOMAIN value[2])
                /\ \A name \in DOMAIN value[2] : value[2][name] \in Values
          /\ value[1] = "list" => value[2] \in Seq(Values)

Key(name) == <<"key", name>>

Each == <<"each">>

\* UnsupportedPathError
Unsupported == <<<<"unsupported">>>>

Quote == "\""

Backslash == "\\"

\* What separates the segments of a path is in no identifier
ASSUME NotationAssumption ==
    (Letters \cup Digits) \cap {".", "[", "]", Quote, Backslash} = {}

StartsAt(path, i, token) == IsPrefix(token, SubSeq(path, i, Len(path)))

\* The length of the identifier that begins at i, 0 if none does
Identifier(path, i) ==
    IF i > Len(path) \/ path[i] \notin Letters THEN 0
    ELSE CHOOSE n \in 1..Len(path) - i + 1 :
            /\ \A j \in i..i + n - 1 : path[j] \in Letters \cup Digits
            /\ i + n > Len(path) \/ path[i + n] \notin Letters \cup Digits

IsIdentifier(name) == name # <<>> /\ Identifier(name, 1) = Len(name)

\* _read_quoted: the name, and the place after its closing bracket or 0
ReadQuoted(path, start) ==
    LET wrong == [name |-> <<>>, after |-> 0]
        Prepend(c, later) == [name |-> <<c>> \o later.name, after |-> later.after]
        read[i \in start..Len(path) + 1] ==
            CASE i > Len(path) -> wrong
              [] i <= Len(path) /\ path[i] = Quote ->
                    IF StartsAt(path, i + 1, <<"]">>) THEN [name |-> <<>>, after |-> i + 2] ELSE wrong
              [] i <= Len(path) /\ path[i] = Backslash ->
                    IF i < Len(path) /\ path[i + 1] \in {Quote, Backslash}
                    THEN Prepend(path[i + 1], read[i + 2])
                    ELSE wrong
              [] OTHER -> Prepend(path[i], read[i + 1])
    IN read[start]

\* One turn of the loop of parse_path: a segment is read, or there is none and the
\* state stays at 0
ReadSegment(path, state) ==
    LET i == state.at
        n == Identifier(path, i + 1)
        quoted == ReadQuoted(path, i + 2)
        Goes(segment, next) == [at |-> next, segments |-> Append(state.segments, segment)] IN
    IF i \in {0, Len(path) + 1} THEN state
    ELSE CASE path[i] = "." /\ n > 0 -> Goes(Key(SubSeq(path, i + 1, i + n)), i + n + 1)
           [] StartsAt(path, i, <<"[", "]">>) -> Goes(Each, i + 2)
           [] StartsAt(path, i, <<"[", Quote>>) /\ quoted.after # 0 ->
                Goes(Key(quoted.name), quoted.after)
           [] OTHER -> [at |-> 0, segments |-> state.segments]

\* parse_path: the segments, or Unsupported
ParsePath(path) ==
    LET turn[n \in 0..Len(path)] ==
            IF n = 0 THEN [at |-> 2, segments |-> <<>>] ELSE ReadSegment(path, turn[n - 1])
        Judged(end) == IF end.at = Len(path) + 1 THEN end.segments ELSE Unsupported
    IN IF path # <<>> /\ path[1] = "$" THEN Judged(turn[Len(path)]) ELSE Unsupported

\* iterate_path: a path that does not end with [] is read as if it did
IteratePath(path) ==
    LET OverElements(segments) ==
            IF segments # <<>> /\ Last(segments) \in {Each, Unsupported[1]} THEN segments
            ELSE Append(segments, Each)
    IN OverElements(ParsePath(path))

\* source_path: relative to the row, <<>> being no iterate prefix
SourcePath(path, prefix) ==
    LET WithinRow(segments) ==
            IF prefix # <<>> /\ IsPrefix(prefix, segments)
            THEN SubSeq(segments, Len(prefix) + 1, Len(segments)) ELSE segments
        WithoutWildcard(own) == IF Contains(own, Each) THEN Unsupported ELSE own
    IN WithoutWildcard(WithinRow(ParsePath(path)))

Member(value, name) ==
    IF value[1] = "object" /\ name \in DOMAIN value[2] THEN value[2][name] ELSE Null

\* resolve
Resolve(document, segments) ==
    LET at[n \in 0..Len(segments)] ==
            IF n = 0 THEN document
            ELSE IF segments[n] = Each THEN Null ELSE Member(at[n - 1], segments[n][2])
    IN at[Len(segments)]

\* The elements or the members that one segment reaches; an absent or null member is
\* no row
Reached(rows, s) ==
    FlattenSeq([i \in 1..Len(rows) |->
        IF s = Each THEN IF rows[i][1] = "list" THEN rows[i][2] ELSE <<>>
        ELSE IF Member(rows[i], s[2]) = Null THEN <<>> ELSE <<Member(rows[i], s[2])>>])

\* Whether something else than a list or an object stands in the way
Blocked(rows, s) == \E i \in 1..Len(rows) : rows[i][1] # (IF s = Each THEN "list" ELSE "object")

\* resolve_rows
ResolveRows(document, segments) ==
    LET after[n \in 0..Len(segments)] ==
            IF n = 0 THEN [rows |-> <<document>>, wrong |-> FALSE]
            ELSE [rows |-> Reached(after[n - 1].rows, segments[n]),
                  wrong |-> after[n - 1].wrong \/ Blocked(after[n - 1].rows, segments[n])]
    IN after[Len(segments)]

--------------------------------------------------------------------------------
(* PolarsFileProfiler *)

\* Mutant: every name is written as a plain member.
PathSegmentPlain(name) == <<".">> \o name

Escaped(c) == IF c \in {Quote, Backslash} THEN <<Backslash, c>> ELSE <<c>>

\* _path_segment; in Python's re, $ also matches before a final newline
PathSegment(name) ==
    LET bare == IF name # <<>> /\ Last(name) = "\n" THEN Front(name) ELSE name IN
    IF IsIdentifier(bare) THEN <<".">> \o name
    ELSE <<"[", Quote>> \o FlattenSeq([i \in 1..Len(name) |-> Escaped(name[i])]) \o <<Quote, "]">>

\* The values right below one; an empty list is exploded into one null
Below(node) ==
    LET At(segment, value) == [path |-> Append(node.path, segment), value |-> value] IN
    CASE node.value[1] = "object" ->
            {At(PathSegment(name), node.value[2][name]) : name \in DOMAIN node.value[2]}
      [] node.value[1] = "list" ->
            {At(<<"[", "]">>, item) :
                item \in IF node.value[2] = <<>> THEN {Null} ELSE Range(node.value[2])}
      [] OTHER -> {}

\* A value and all those in it, each with the segments of its path
Nodes(value) ==
    LET level[n \in 0..Nesting] ==
            IF n = 0 THEN {[path |-> <<>>, value |-> value]}
            ELSE UNION {Below(node) : node \in level[n - 1]}
    IN UNION {level[n] : n \in 0..Nesting}

\* _leaf_columns and _flatten_series
Leaves(value) == {node \in Nodes(value) : node.value[1] \notin {"object", "list"}}

\* Where a record holds an object or a list
NestedPaths(records) ==
    {node.path : node \in UNION {Nodes(record) \ Leaves(record) : record \in Range(records)}}

\* The columns of all records together: what is a leaf only where the value is
\* missing is no column
ProfilePaths(records) ==
    LET paths == {leaf.path : leaf \in UNION {Leaves(record) : record \in Range(records)}} IN
    {<<"$">> \o FlattenSeq(path) : path \in paths \ NestedPaths(records)}
================================================================================
