------------------------------ MODULE TraceQueries ------------------------------
(***************************************************************************)
(* The read side: the views of revision 0002, the queries of the dashboard *)
(* over them, the chart points with the filters that replay them on the    *)
(* list of sessions, and the reading of a session's timeline page by page. *)
(*                                                                         *)
(* Imports go on while the pages are read.  The connections are READ       *)
(* COMMITTED: every statement sees the batches committed before it, so one *)
(* answer that takes two statements may mix two states of the tables.      *)
(***************************************************************************)
EXTENDS Integers, FiniteSets, Sequences, SequencesExt

CONSTANTS
    SessionRow,     \* the rows of session, by id
    ModelCallRow,   \* the rows of model_call
    ToolCallRow,    \* the rows of tool_call
    RunSource,      \* the data source of each import_run
    Batches,        \* the ids a transaction of an import inserts in each table
    Filters,        \* the DashboardFilters that are asked
    DayLength,      \* instants in a day
    Null,           \* what the source did not say
    Watched,        \* the session whose page is open
    PageSize,       \* MAX_PAGE_SIZE, the MAX_LIMIT of the route
    MaxLoaded       \* MAX_LOADED_ITEMS

ASSUME PagesAssumption ==
    PageSize \in Nat \ {0} /\ MaxLoaded \in Nat \ {0} /\ DayLength \in Nat \ {0}

OrNull(S) == S \cup {Null}

\* The columns of the tables: where Null is not mentioned, they are NOT NULL
ASSUME RowsAssumption ==
    /\ Null \notin Int
    /\ DOMAIN SessionRow \cup DOMAIN ModelCallRow \cup DOMAIN ToolCallRow \subseteq Nat
    /\ \A s \in DOMAIN SessionRow :
        /\ Null \notin {SessionRow[s].source, SessionRow[s].run}
        /\ SessionRow[s].started \in OrNull(Nat)
        /\ SessionRow[s].duration \in OrNull(Int)
    /\ \A c \in DOMAIN ModelCallRow :
        /\ ModelCallRow[c].started \in OrNull(Nat) /\ ModelCallRow[c].index \in Int
        /\ \A column \in {"input_tokens", "output_tokens", "cache"} :
            ModelCallRow[c][column] \in OrNull(Int)
    /\ \A c \in DOMAIN ToolCallRow :
        /\ ToolCallRow[c].started \in OrNull(Nat) /\ ToolCallRow[c].index \in Int
        /\ ToolCallRow[c].tool # Null

\* An import writes the sessions of the source of its run
ASSUME RunsAssumption ==
    /\ DOMAIN RunSource \subseteq Nat
    /\ \A r \in DOMAIN RunSource : RunSource[r] # Null
    /\ \A s \in DOMAIN SessionRow : SessionRow[s].source = RunSource[SessionRow[s].run]

\* A transaction inserts finitely many rows
ASSUME BatchesAssumption ==
    \A b \in Batches :
        /\ b.sessions \subseteq DOMAIN SessionRow /\ IsFiniteSet(b.sessions)
        /\ b.model_calls \subseteq DOMAIN ModelCallRow /\ IsFiniteSet(b.model_calls)
        /\ b.tool_calls \subseteq DOMAIN ToolCallRow /\ IsFiniteSet(b.tool_calls)

FilterColumns == {"source", "agent", "model", "tool", "run", "from", "to", "outcome"}

ASSUME FiltersAssumption == \A f \in Filters : DOMAIN f = FilterColumns

VARIABLES
    committed,      \* the batches the imports have committed
    phase,          \* of the timeline: "closed", "models", "tools" or "loaded"
    modelCalls,     \* what the statement on model_call answered
    items,          \* the events of the pages read so far
    total,          \* X-Total-Count of the last page
    present         \* history: the events of the session when its page was opened

vars == <<committed, phase, modelCalls, items, total, present>>

Sessions == UNION {b.sessions : b \in committed}

ModelCalls == UNION {b.model_calls : b \in committed}

ToolCalls == UNION {b.tool_calls : b \in committed}

--------------------------------------------------------------------------------
(* SQL aggregates *)

Known(rows, column) == {row \in DOMAIN rows : rows[row][column] # Null}

\* count(column)
Present(rows, ids, column) == Cardinality(ids \cap Known(rows, column))

\* Mutant: coalesce over a measure; what nobody measured is a zero.
CoalescedSum(rows, ids, column) ==
    SumFunction([row \in ids \cap Known(rows, column) |-> rows[row][column]])

\* sum(column) skips the nulls, and is null when there is nothing else
SumOf(rows, ids, column) ==
    IF ids \cap Known(rows, column) = {} THEN Null
    ELSE SumFunction([row \in ids \cap Known(rows, column) |-> rows[row][column]])

Fraction(numerator, denominator) ==
    IF denominator = 0 THEN Null ELSE [numerator |-> numerator, denominator |-> denominator]

Coverage(contributing, all) == [present |-> contributing, total |-> all]

\* coalesce(sum(column), 0), over a column that counts
CountsOf(view, ids, column) == SumFunction([s \in ids |-> view[s][column]])

--------------------------------------------------------------------------------
(* v_session_metrics: a row per session, each kind of call aggregated on   *)
(* its own                                                                 *)

ModelCallsOf(s) == {c \in ModelCalls : ModelCallRow[c].session = s}

ToolCallsOf(s) == {c \in ToolCalls : ToolCallRow[c].session = s}

WithStatus(calls, statuses) == {c \in calls : ToolCallRow[c].status \in statuses}

StatusKnown(calls) == WithStatus(calls, {"ok", "error"})

Failed(calls) == WithStatus(calls, {"error"})

\* Mutant: both kinds of call are joined to the session before they are summed.
JoinedTokens(s) ==
    IF SumOf(ModelCallRow, ModelCallsOf(s), "input_tokens") = Null THEN Null
    ELSE SumOf(ModelCallRow, ModelCallsOf(s), "input_tokens")
            * (IF ToolCallsOf(s) = {} THEN 1 ELSE Cardinality(ToolCallsOf(s)))

InputTokens(s) == SumOf(ModelCallRow, ModelCallsOf(s), "input_tokens")

OutputTokens(s) == SumOf(ModelCallRow, ModelCallsOf(s), "output_tokens")

SessionMetrics == [s \in Sessions |->
    [model_call_count |-> Cardinality(ModelCallsOf(s)),
     input_tokens |-> InputTokens(s),
     output_tokens |-> OutputTokens(s),
     all_tokens |-> IF Null \in {InputTokens(s), OutputTokens(s)} THEN Null
                    ELSE InputTokens(s) + OutputTokens(s),
     token_records_present |-> Present(ModelCallRow, ModelCallsOf(s), "input_tokens"),
     tool_call_count |-> Cardinality(ToolCallsOf(s)),
     tool_error_count |-> Cardinality(Failed(ToolCallsOf(s))),
     tool_status_known_count |-> Cardinality(StatusKnown(ToolCallsOf(s)))]]

--------------------------------------------------------------------------------
(* The sessions in the scope of the filters.  A model or a tool is not a   *)
(* column of a session: those filters ask for a call that used it.         *)

Dated(s) == SessionRow[s].started # Null

UsesModel(s, model) == \E c \in ModelCallsOf(s) : ModelCallRow[c].model = model

UsesTool(s, tool) == \E c \in ToolCallsOf(s) : ToolCallRow[c].tool = tool

InPeriod(s, from, to) ==
    /\ from # Null => Dated(s) /\ SessionRow[s].started >= from
    /\ to # Null => Dated(s) /\ SessionRow[s].started <= to

SessionPredicates(f, s) ==
    /\ \A column \in {"source", "agent", "run", "outcome"} :
        f[column] # Null => SessionRow[s][column] = f[column]
    /\ InPeriod(s, f.from, f.to)
    /\ f.model # Null => UsesModel(s, f.model)
    /\ f.tool # Null => UsesTool(s, f.tool)

InScope(f) == {s \in Sessions : SessionPredicates(f, s)}

\* avg(column): the rows that have the column make both the sum and the number
Average(rows, ids, column) ==
    Fraction(SumOf(rows, ids, column), Present(rows, ids, column))

\* The totals of the sessions in scope, out of their rows of the view
Totals(scope, view) ==
    [session_count |-> Cardinality(scope),
     model_call_count |-> CountsOf(view, scope, "model_call_count"),
     tool_call_count |-> CountsOf(view, scope, "tool_call_count"),
     input_tokens |-> SumOf(view, scope, "input_tokens"),
     output_tokens |-> SumOf(view, scope, "output_tokens"),
     token_sessions |-> Cardinality({s \in scope : view[s].token_records_present > 0}),
     avg_tokens_per_session |-> Average(view, scope, "all_tokens"),
     avg_session_duration_ms |-> Average(SessionRow, scope, "duration"),
     duration_present |-> Present(SessionRow, scope, "duration"),
     tool_error_count |-> CountsOf(view, scope, "tool_error_count"),
     tool_status_known_count |-> CountsOf(view, scope, "tool_status_known_count")]

Overview(f) == Totals(InScope(f), SessionMetrics)

Indicator(value, contributing, all) == [value |-> value, coverage |-> Coverage(contributing, all)]

\* The published indicators, each beside its coverage; the first is its own
Indicators(totals) ==
    [session_count |->
        Indicator(totals.session_count, totals.session_count, totals.session_count),
     avg_tokens_per_session |->
        Indicator(totals.avg_tokens_per_session, totals.token_sessions, totals.session_count),
     avg_session_duration_ms |->
        Indicator(totals.avg_session_duration_ms, totals.duration_present, totals.session_count),
     tool_error_rate |->
        Indicator(Fraction(totals.tool_error_count, totals.tool_status_known_count),
                  totals.tool_status_known_count, totals.tool_call_count)]

--------------------------------------------------------------------------------
(* The points of the charts.  A point is known by what it groups: "of"     *)
(* holds the filters its route adds to those of the request.               *)

\* The list of sessions includes both ends: the next midnight too
DayBounds(day) == [from |-> day * DayLength, to |-> (day + 1) * DayLength]

DayOf(s) == SessionRow[s].started \div DayLength

ActivityPoint(sessions, day, source, view) ==
    [of |-> [source |-> source, from |-> DayBounds(day).from, to |-> DayBounds(day).to],
     sessions |-> sessions,
     session_count |-> Cardinality(sessions),
     input_tokens |-> SumOf(view, sessions, "input_tokens"),
     coverage |-> Coverage(CountsOf(view, sessions, "token_records_present"),
                           CountsOf(view, sessions, "model_call_count"))]

DayAndSource(s) == <<DayOf(s), SessionRow[s].source>>

\* GROUP BY day and source, of the sessions that have a date
PointsPerDay(dated, view) ==
    {ActivityPoint({s \in dated : DayAndSource(s) = group}, group[1], group[2], view) :
        group \in {DayAndSource(s) : s \in dated}}

ActivityPoints(f) == PointsPerDay({s \in InScope(f) : Dated(s)}, SessionMetrics)

\* The calls of the sessions in scope, and of the filtered tool or model only
Charted(row, column, wanted, scope) ==
    row.session \in scope /\ (wanted # Null => row[column] = wanted)

ToolPoint(calls, tool, source) ==
    [of |-> [tool |-> tool, source |-> source],
     sessions |-> {ToolCallRow[c].session : c \in calls},
     call_count |-> Cardinality(calls),
     error_count |-> Cardinality(Failed(calls)),
     error_ratio |-> Fraction(Cardinality(Failed(calls)), Cardinality(StatusKnown(calls))),
     coverage |-> Coverage(Cardinality(StatusKnown(calls)), Cardinality(calls))]

ModelPoint(calls, model, source) ==
    [of |-> [model |-> model, source |-> source],
     sessions |-> {ModelCallRow[c].session : c \in calls},
     call_count |-> Cardinality(calls),
     input_tokens |-> SumOf(ModelCallRow, calls, "input_tokens"),
     output_tokens |-> SumOf(ModelCallRow, calls, "output_tokens"),
     coverage |-> Coverage(Present(ModelCallRow, calls, "input_tokens"), Cardinality(calls)),
     cache_read_tokens |-> SumOf(ModelCallRow, calls, "cache"),
     cache_coverage |-> Coverage(Present(ModelCallRow, calls, "cache"), Cardinality(calls))]

GroupOf(row, column) == <<row[column], SessionRow[row.session].source>>

PointsPerTool(calls) ==
    {ToolPoint({c \in calls : GroupOf(ToolCallRow[c], "tool") = group}, group[1], group[2]) :
        group \in {GroupOf(ToolCallRow[c], "tool") : c \in calls}}

\* The calls whose model is not known make a point of their own
PointsPerModel(calls) ==
    {ModelPoint({c \in calls : GroupOf(ModelCallRow[c], "model") = group}, group[1], group[2]) :
        group \in {GroupOf(ModelCallRow[c], "model") : c \in calls}}

ToolPointsIn(scope, tool) ==
    PointsPerTool({c \in ToolCalls : Charted(ToolCallRow[c], "tool", tool, scope)})

ModelPointsIn(scope, model) ==
    PointsPerModel({c \in ModelCalls : Charted(ModelCallRow[c], "model", model, scope)})

ToolPoints(f) == ToolPointsIn(InScope(f), f.tool)

ModelPoints(f) == ModelPointsIn(InScope(f), f.model)

SourcesOf(points) == {p.of.source : p \in points}

\* A source whose calls report the cache is shown beside one whose calls never do
CacheWarning(f, points) ==
    LET reporting == SourcesOf({p \in points : p.cache_coverage.present > 0})
    IN  f.source = Null /\ reporting # {} /\ SourcesOf(points) \ reporting # {}

\* Without a filter on sessions every run is listed, the empty ones too
QualityRuns(f) ==
    {r \in DOMAIN RunSource :
        /\ f.source # Null => RunSource[r] = f.source
        /\ f.run # Null => r = f.run
        /\ \/ \A column \in {"agent", "model", "tool", "from", "to", "outcome"} : f[column] = Null
           \/ \E s \in InScope(f) : SessionRow[s].run = r}

QualityPoints(f) ==
    {[of |-> [run |-> r, source |-> RunSource[r]],
      sessions |-> {s \in InScope(f) : SessionRow[s].run = r}] : r \in QualityRuns(f)}

\* Mutant: the source of a point is left out, since its tool or model is known.
WithoutItsSource(f, point) ==
    [column \in DOMAIN f |->
        IF column \in DOMAIN point.of \ {"source"} /\ point.of[column] # Null
        THEN point.of[column] ELSE f[column]]

\* point_filters: those of the request, then those of the point that are not null
Replay(f, point) ==
    [column \in DOMAIN f |->
        IF column \in DOMAIN point.of /\ point.of[column] # Null THEN point.of[column] ELSE f[column]]

--------------------------------------------------------------------------------
(* The list of sessions *)

\* The sequence of a set, when before orders it strictly
Ordered(S, before(_, _)) ==
    [n \in 1 .. Cardinality(S) |->
        CHOOSE x \in S : Cardinality({y \in S : before(y, x)}) = n - 1]

\* The newest first, those without a date last, and the highest id first
ListedBefore(s, t) ==
    \/ Dated(s) /\ ~Dated(t)
    \/ Dated(s) /\ Dated(t) /\ SessionRow[s].started > SessionRow[t].started
    \/ SessionRow[s].started = SessionRow[t].started /\ s > t

SessionList(f) == Ordered(InScope(f), ListedBefore)

\* LIMIT and OFFSET, and the slice of a bounded array
Window(list, limit, offset) ==
    SubSeq(list, offset + 1, IF offset + limit < Len(list) THEN offset + limit ELSE Len(list))

--------------------------------------------------------------------------------
(* The timeline of a session: two statements for its calls, one order *)

ModelEvents == {[type |-> "model_call", id |-> c] : c \in ModelCallsOf(Watched)}

ToolEvents == {[type |-> "tool_call", id |-> c] : c \in ToolCallsOf(Watched)}

CallOf(e) == IF e.type = "model_call" THEN ModelCallRow[e.id] ELSE ToolCallRow[e.id]

TypeOrder == [model_call |-> 1, tool_call |-> 2]

\* Undated events last; then the instant, sequence_index, the type and the id
SortKey(e) ==
    <<IF CallOf(e).started = Null THEN 1 ELSE 0,
      IF CallOf(e).started = Null THEN 0 ELSE CallOf(e).started,
      CallOf(e).index, TypeOrder[e.type], e.id>>

HappensBefore(e, g) ==
    \E n \in 1 .. 5 :
        /\ SortKey(e)[n] < SortKey(g)[n]
        /\ \A k \in 1 .. n - 1 : SortKey(e)[k] = SortKey(g)[k]

Timeline(events) == Ordered(events, HappensBefore)

Init ==
    /\ committed = {}
    /\ phase = "closed"
    /\ modelCalls = {} /\ items = <<>> /\ total = 0 /\ present = {}

\* A batch of an import commits: its calls are of its own sessions or of earlier ones
Commit(b) ==
    /\ b \notin committed
    /\ \A c \in b.model_calls : ModelCallRow[c].session \in b.sessions \cup Sessions
    /\ \A c \in b.tool_calls : ToolCallRow[c].session \in b.sessions \cup Sessions
    /\ committed' = committed \cup {b}
    /\ UNCHANGED <<phase, modelCalls, items, total, present>>

\* The page of the session is opened; a session that is not there is not found.
\* Sessions are never deleted: the later pages find it again.
Open ==
    /\ phase = "closed"
    /\ Watched \in Sessions
    /\ phase' = "models"
    /\ items' = <<>>
    /\ present' = ModelEvents \cup ToolEvents
    /\ UNCHANGED <<committed, modelCalls, total>>

SelectModelCalls ==
    /\ phase = "models"
    /\ modelCalls' = ModelEvents
    /\ phase' = "tools"
    /\ UNCHANGED <<committed, items, total, present>>

Limit == IF MaxLoaded - Len(items) < PageSize THEN MaxLoaded - Len(items) ELSE PageSize

Offset == Len(items)

\* A page that was not full, the total reached, or the ceiling
IsLast(page, loaded, count) ==
    Len(page) < Limit \/ loaded >= count \/ loaded >= MaxLoaded

SelectToolCalls ==
    LET events == modelCalls \cup ToolEvents
        page   == Window(Timeline(events), Limit, Offset)
    IN  /\ phase = "tools"
        /\ items' = items \o page
        /\ total' = Cardinality(events)
        /\ phase' = IF IsLast(page, Len(items) + Len(page), Cardinality(events))
                    THEN "loaded" ELSE "models"
        /\ modelCalls' = {}
        /\ UNCHANGED <<committed, present>>

Close ==
    /\ phase = "loaded"
    /\ phase' = "closed"
    /\ items' = <<>> /\ total' = 0 /\ present' = {}
    /\ UNCHANGED <<committed, modelCalls>>

Next ==
    \/ \E b \in Batches : Commit(b)
    \/ Open \/ SelectModelCalls \/ SelectToolCalls \/ Close

Spec == Init /\ [][Next]_vars

\* Mutant: the list says it was cut only when it is past the ceiling.
CutPastTheCeiling == Len(items) > MaxLoaded

Truncated == Len(items) < total

--------------------------------------------------------------------------------

\* Sum of a column of points, null when it is null in all of them
SumOver(points, column) ==
    IF \A p \in points : p[column] = Null THEN Null
    ELSE SumFunction([p \in {q \in points : q[column] # Null} |-> p[column]])

CountOver(points, column) == SumFunction([p \in points |-> p[column]])

ModelsAddUp(points, totals) ==
    /\ CountOver(points, "call_count") = totals.model_call_count
    /\ SumOver(points, "input_tokens") = totals.input_tokens
    /\ SumOver(points, "output_tokens") = totals.output_tokens

ToolsAddUp(points, totals) ==
    /\ CountOver(points, "call_count") = totals.tool_call_count
    /\ CountOver(points, "error_count") = totals.tool_error_count

\* The charts account for every call and session of the overview under the
\* same filters, once: calls of an unknown model have a point, the sessions
\* without a date are the only ones without a day, and no total is multiplied
\* by joining the calls of both kinds to their session.
VolumetryAddsUp ==
    \A f \in Filters :
        /\ f.model = Null => ModelsAddUp(ModelPoints(f), Overview(f))
        /\ f.tool = Null => ToolsAddUp(ToolPoints(f), Overview(f))
        /\ CountOver(ActivityPoints(f), "session_count")
             + Cardinality({s \in InScope(f) : ~Dated(s)}) = Cardinality(InScope(f))

Shown(f, point) == ToSet(SessionList(Replay(f, point)))

\* The filters a chart point carries, replayed on the list of sessions, show
\* every session behind the point; and nothing else where the filters can say
\* what the point groups: a tool, a known model, an import run.
PointsReplay ==
    \A f \in Filters :
        /\ \A p \in ActivityPoints(f) \cup ModelPoints(f) : p.sessions \subseteq Shown(f, p)
        /\ \A p \in ToolPoints(f) \cup QualityPoints(f) : p.sessions = Shown(f, p)
        /\ \A p \in ModelPoints(f) : p.of.model # Null => p.sessions = Shown(f, p)

\* Nothing contributed: the value is null.  A coverage never exceeds its total.
UnknownIsNotZero(value, coverage) ==
    /\ coverage.present <= coverage.total
    /\ coverage.present = 0 => value = Null

\* An average or a rate is over the records its coverage counts
OverWhatIsKnown(indicator) ==
    indicator.value # Null => indicator.value.denominator = indicator.coverage.present

IndicatorsAreHonest(indicators) ==
    /\ \A key \in DOMAIN indicators \ {"session_count"} :
        UnknownIsNotZero(indicators[key].value, indicators[key].coverage)
    /\ OverWhatIsKnown(indicators.avg_session_duration_ms)
    /\ OverWhatIsKnown(indicators.tool_error_rate)

\* The cache is totalled for one source and another says nothing of it
SomeSourceIsSilent(points) ==
    /\ \E p \in points : p.cache_read_tokens # Null
    /\ \E source \in SourcesOf(points) :
        \A p \in points : p.of.source = source => p.cache_read_tokens = Null

\* What the sources did not say is never published as a zero: wherever a value
\* and its coverage come from, a value is null when nothing contributed to it,
\* and totals of the cache that leave a source out say so.
NeverAConfidentZero ==
    \A f \in Filters :
        /\ IndicatorsAreHonest(Indicators(Overview(f)))
        /\ \A p \in ActivityPoints(f) : UnknownIsNotZero(p.input_tokens, p.coverage)
        /\ \A p \in ToolPoints(f) : UnknownIsNotZero(p.error_ratio, p.coverage)
        /\ \A p \in ModelPoints(f) :
            /\ UnknownIsNotZero(p.input_tokens, p.coverage)
            /\ UnknownIsNotZero(p.cache_read_tokens, p.cache_coverage)
        /\ SomeSourceIsSilent(ModelPoints(f)) => CacheWarning(f, ModelPoints(f))

\* Every event a session had when its page was opened is on the page once it
\* is loaded, or the page says that it was cut: batches that commit between
\* two pages, or between the two statements of one, push events back and
\* never past the offset of the next page.
TimelineMissesNothing ==
    phase = "loaded" /\ ~Truncated => present \subseteq ToSet(items)

================================================================================
