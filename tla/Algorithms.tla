----------------------------- MODULE Algorithms -----------------------------
(***************************************************************************)
(* The pure parts of canardstack, each called on all inputs of a small     *)
(* set: configuration and attach plan, routing and parameters, the label   *)
(* registry, the query planners, and the way from rows to responses.  The  *)
(* state is the call just made, its input and its output; the invariants   *)
(* relate the two to what the caller relies on.                            *)
(***************************************************************************)
EXTENDS PromQuery, QueryRows, RowReaders, AttachPlan

R == INSTANCE RouteTable
V == INSTANCE Validation

CONSTANTS
    Methods, Paths,                         \* requests
    QueryParams, Bodies,                    \* parameters: functions, typed lists of pairs
    TimeParams, MaxRangeSecs, Now,          \* time parameters
    Layers, Listens, Images,                \* settings, --listen, extensions in the image
    Instants,                               \* ticks
    LogQueries, TraceQueries, PromQueries,  \* queries, as syntax trees
    LabelNames,                             \* names a client may use for a label
    Columns, MatchValues,                   \* a label of a row, the value of a matcher
    LogTables, MetricTables, SpanTables,    \* table contents
    LogPlans, MetricPlans,                  \* what is asked of them
    GroupBys, Steps,
    LimitParams, DefaultLimit, MaxLimit,    \* the limit parameter, if it parses
    SeriesLimit                             \* rows of a range query: 5000

(* Request text is never null, only a JSON value is. *)
ASSUME RequestAssumption ==
    /\ Paths \subseteq Seq(STRING)
    /\ \A query \in QueryParams : \A key \in DOMAIN query : query[key] # R!Null
    /\ \A body \in Bodies :
         /\ body.pairs \in Seq(STRING \X STRING)
         /\ body.type # "application/json" =>
                \A i \in DOMAIN body.pairs : body.pairs[i][2] # R!Null

ASSUME TimeAssumption ==
    /\ Now \in Int /\ MaxRangeSecs \in Nat
    /\ Instants \subseteq Int /\ Steps \subseteq Int
    /\ \A params \in TimeParams : \A p \in {params.start, params.end, params.from, params.to} :
         IsOption(p, [parses : BOOLEAN, time : Int])

ASSUME LimitAssumption ==
    /\ {DefaultLimit, MaxLimit} \subseteq Nat /\ SeriesLimit \in Nat \ {0}
    /\ \A p \in LimitParams : IsOption(p, Nat)

(* Tables are finite and their rows have a time. *)
IsTable(rows) == IsFiniteSet(rows) /\ \A row \in rows : row.time \in Int

ASSUME TableAssumption ==
    /\ \A table \in LogTables : IsTable(table)
    /\ \A tables \in MetricTables : IsTable(tables.gauge) /\ IsTable(tables.sum)
    /\ \A table \in SpanTables :
         IsTable(table) /\ \A span \in table : span.duration \in Int /\ span.status \in Int

(* The text filters of the plans are single words to look for; the labels  *)
(* a plan groups by are NULL or text in every sample.                      *)
ASSUME PlanAssumption ==
    /\ \A plan \in LogPlans :
         /\ plan.forward \in BOOLEAN
         /\ \A i \in DOMAIN plan.text_filters :
              LET filter == plan.text_filters[i]
              IN  /\ filter.kind = "BodyContains"
                  /\ filter.term \in Seq(STRING) /\ Len(filter.term) = 1
                  /\ filter.term[1] \notin {"OR", "or", "AND", "(", ")"}
    /\ \A plan \in MetricPlans :
         /\ plan.signal \in {"gauge", "sum"}
         /\ \A tables \in MetricTables : \A s \in tables.gauge \cup tables.sum :
              \A l \in ToSet(RangeGroupBy(plan)) : IsOption(s.labels[l], Seq(STRING))

(* The planner groups by canonical names: parse_label_list has resolved    *)
(* them, and "without" leaves some of prometheus_grouping_labels.          *)
ASSUME GroupingAssumption ==
    GroupBys \subseteq Seq({LABELS[i].canonical : i \in Scoped["Metrics"]})

(* A setting is there or not in each layer; keys are text. *)
ASSUME LayerAssumption ==
    \A layers \in Layers : \A name \in {"api_key", "admin_api_key"} \cap DOMAIN layers :
        \A raw \in {layers[name].env, layers[name].file} :
            raw # None => Value(raw).value \in Seq(STRING)

VARIABLE call

Idle == [of |-> "nothing"]
Init == call = Idle

Call(name, in, out) == call' = [of |-> name, in |-> in, out |-> out]
Made(name) == call.of = name

(* The caller has its answer and the next call can be made. *)
Return == call # Idle /\ call' = Idle

-----------------------------------------------------------------------------
(***************************************************************************)
(* Requests.                                                               *)
(***************************************************************************)
RouteRequest == \E method \in Methods, path \in Paths :
    Call("route", [method |-> method, path |-> path],
         [endpoint |-> R!Endpoint(method, path), route |-> R!CompatRoute(method, path)])

ReadParams == \E query \in QueryParams, body \in Bodies :
    Call("params", [query |-> query, body |-> body],
         R!RequestParams(query, body.type, body.pairs))

ReadTimeRange == \E params \in TimeParams :
    Call("range", params, V!OptionalRange(params, Now, MaxRangeSecs))

(* Two requests that share the bound mid, and one for the whole window. *)
SplitWindow == \E from, mid, to, t \in Instants :
    /\ from <= mid /\ mid <= to
    /\ LET In(a, b) == time_predicate(t, [from |-> a, to |-> b])
       IN  Call("window", t, [whole |-> In(from, to), left |-> In(from, mid), right |-> In(mid, to)])

-----------------------------------------------------------------------------
(***************************************************************************)
(* The label registry and its readers.                                     *)
(***************************************************************************)
ResolveLabel == \E scope \in Scopes, raw \in LabelNames :
    Call("label", [scope |-> scope, raw |-> raw],
         [canonical |-> canonical_for_alias(scope, raw),
          expr |-> label_expr(scope, UnwrapOr(canonical_for_alias(scope, raw), ""))])

(* The names the label endpoints of the three protocols list. *)
Advertised == [Logs |-> loki_label_names,
               Metrics |-> prometheus_label_names \ {"__name__"},
               Spans |-> tempo_tag_names]

UseAdvertised == \E scope \in Scopes : \E name \in Advertised[scope] :
    Call("advertised", [scope |-> scope, name |-> name],
         IF scope = "Spans" THEN plan_tempo_search([q |-> << "{", name, "=", Quote, "v", Quote, "}" >>])
         ELSE normalize_matchers(<< Matcher(<<name>>, "Eq", <<"v">>) >>, scope))

Statement(table, items, reads) == [table |-> table, items |-> items, reads |-> reads]

ReadStatement ==
    \/ Call("statement", "logs", Statement("otlp_logs", LogItems, log_reads))
    \/ Call("statement", "search", Statement("otlp_traces", TraceSearchItems, search_reads))
    \/ Call("statement", "json", Statement("otlp_traces", TraceJsonItems, span_row_reads))
    \/ Call("statement", "proto", Statement("otlp_traces", TraceProtoItems, proto_reads))
    \/ \E table \in {"otlp_metrics_gauge", "otlp_metrics_sum"}, group_by \in GroupBys,
          aggregation \in Aggregations :
          Call("statement", group_by,
               Statement(table, MetricItems(table, aggregation, group_by),
                         metric_reads(table, group_by)))

-----------------------------------------------------------------------------
(***************************************************************************)
(* Queries: a syntax tree is written out as a client would and parsed.     *)
(***************************************************************************)
SignOf(op) == (CHOOSE k \in ToSet(Operators) : k.op = op).sign

Quoted(value) == <<Quote>> \o value \o <<Quote>>
Written(m) == m.field \o SignOf(m.op) \o Quoted(m.value)

WrittenAll(matchers, separator) ==
    FoldLeft(LAMBDA text, m : IF text = <<>> THEN Written(m) ELSE text \o separator \o Written(m),
             <<>>, matchers)

Braced(matchers) == <<"{">> \o WrittenAll(matchers, <<",">>) \o <<"}">>

LogText(query) ==
    Braced(query.matchers) \o
    (IF query.filter = None THEN <<>>
     ELSE <<"|", IF Value(query.filter).kind = "BodyRegex" THEN "~" ELSE "=">>
            \o Quoted(Value(query.filter).term))

ParseLogQuery == \E query \in LogQueries :
    Call("logql", query, parse_loki_query(LogText(query), "forward"))

ParseTraceQuery == \E conditions \in TraceQueries :
    Call("traceql", conditions,
         plan_tempo_search([q |-> <<"{">> \o WrittenAll(conditions, <<Space, "&", "&", Space>>)
                                    \o <<"}">>]))

(* A PromQL tree: an aggregation with its grouping clause before or after  *)
(* the parentheses, an inner rate, the metric name in front of the braces  *)
(* or as the matcher __name__.                                             *)
Comma(names) == FoldLeft(LAMBDA t, n : IF t = <<>> THEN <<n>> ELSE t \o <<",", n>>, <<>>, names)

ClauseText(query) == <<query.keyword, "(">> \o Comma(query.labels) \o <<")">>

SelectorText(query) ==
    IF query.named THEN Braced(<< Matcher(<<"__name__">>, "Eq", <<query.name>>) >> \o query.matchers)
    ELSE IF query.matchers = <<>> THEN <<query.name>>
    ELSE <<query.name>> \o Braced(query.matchers)

RateText(query) ==
    IF query.rate THEN <<"rate", "(">> \o SelectorText(query) \o <<"[", "5m", "]", ")">>
    ELSE SelectorText(query)

PromText(query) ==
    IF query.func = "" THEN RateText(query)
    ELSE <<query.func>>
         \o (IF query.clause = "before" THEN ClauseText(query) ELSE <<>>)
         \o <<"(">> \o RateText(query) \o <<")">>
         \o (IF query.clause = "after" THEN ClauseText(query) ELSE <<>>)

NoSamples == [gauge |-> {}, sum |-> {}]

ParsePromQuery == \E query \in PromQueries :
    LET plan == parse_prom_query(PromText(query))
    IN  Call("promql", query,
             [plan |-> plan,
              answer |-> AndThen(plan, LAMBDA p : prometheus_query(NoSamples, p, 0))])

-----------------------------------------------------------------------------
(***************************************************************************)
(* From tables to responses.                                               *)
(***************************************************************************)
MatchRow == \E column \in Columns, value \in MatchValues :
    Call("match", value,
         [op \in {"Eq", "NotEq", "Regex", "NotRegex"} |->
             push_matcher(Matcher("service_name", op, value), column)])

(* The limits that are no 400. *)
Limits == {V!ParseLimit(p, DefaultLimit, MaxLimit) : p \in LimitParams} \ {None}

QueryLogs == \E table \in LogTables, plan \in LogPlans, from, to \in Instants, limit \in Limits,
                range \in BOOLEAN :
    /\ from < to
    /\ LET bounds == LokiBounds(from, to, range)
           result == execute_logs(table, plan, bounds, Value(limit))
       IN  Call("logs", [table |-> table, plan |-> plan, bounds |-> bounds],
                [result |-> result,
                 streams |-> loki_streams(result.rows, {"service_name"}, plan.forward)])

QueryMetrics == \E tables \in MetricTables, plan \in MetricPlans, at \in Instants :
    Call("instant", [tables |-> tables, plan |-> plan, at |-> at],
         prometheus_query(tables, plan, at))

QueryMetricRange == \E tables \in MetricTables, plan \in MetricPlans, from, to \in Instants,
                       step \in Steps :
    /\ from < to
    /\ Call("series", [tables |-> tables, plan |-> plan, step |-> step,
                       bounds |-> [from |-> from, to |-> to]],
            prometheus_query_range(tables, plan, from, to, step, SeriesLimit))

SearchTraces == \E table \in SpanTables, from, to \in Instants, limit \in Limits :
    /\ from < to
    /\ Call("search", [table |-> table, bounds |-> [from |-> from, to |-> to]],
            execute_trace_search(table, <<>>, [from |-> from, to |-> to], Value(limit)))

RenderSpan == \E table \in SpanTables : \E span \in table :
    Call("span", span, [json |-> tempo_span(span), proto |-> tempo_proto_span(span)])

-----------------------------------------------------------------------------
(***************************************************************************)
(* Start-up.                                                               *)
(***************************************************************************)
LoadConfig == \E layers \in Layers, listen \in Listens :
    Call("config", layers, serve(layers, listen))

AttachCatalog == \E layers \in Layers, image \in Images, network \in BOOLEAN :
    LET config == serve(layers, None)
    IN  /\ IsSome(config)
        /\ Call("attach", [config |-> Value(config), image |-> image],
                [plan |-> build_ducklake_attach_plan(Value(config)),
                 run |-> attach_ducklake_connection(Value(config), image, network)])

Next ==
    \/ /\ call = Idle
       /\ \/ RouteRequest \/ ReadParams \/ ReadTimeRange \/ SplitWindow
          \/ ResolveLabel \/ UseAdvertised \/ ReadStatement
          \/ ParseLogQuery \/ ParseTraceQuery \/ ParsePromQuery
          \/ MatchRow \/ QueryLogs \/ QueryMetrics \/ QueryMetricRange
          \/ SearchTraces \/ RenderSpan
          \/ LoadConfig \/ AttachCatalog
    \/ Return

Spec == Init /\ [][Next]_call

-----------------------------------------------------------------------------
(***************************************************************************)
(* Requests.                                                               *)
(***************************************************************************)
(* At most one entry of COMPAT_ROUTES matches a request, so the order of   *)
(* the table, in which compat_route takes the first match, decides nothing.*)
OneRoutePerRequest == Made("route") =>
    Cardinality(R!Matches(call.in.method, call.in.path)) <= 1

(* compat_value expects a parameter of four handlers: every route to them  *)
(* binds one, and it is never empty.                                       *)
ParamNeverMissing == Made("route") /\ call.out.route # 0 =>
    LET route == R!COMPAT_ROUTES[call.out.route]
    IN  route.handler \in R!NeedsParam =>
            \E i \in DOMAIN route.pattern : route.pattern[i] = R!Param /\ call.in.path[i] # R!Empty

(* request_params: a body adds and replaces parameters, but none of the    *)
(* query string's is lost and none becomes null.                           *)
BodyNeverErases == Made("params") =>
    /\ DOMAIN call.in.query \subseteq DOMAIN call.out
    /\ \A key \in DOMAIN call.out : call.out[key] # R!Null

(* optional_range: a window that is accepted is not empty and less than a  *)
(* second longer than the maximum (num_seconds truncates).                 *)
RangesBounded == Made("range") /\ call.out.status = "ok" =>
    /\ call.out.from < call.out.to
    /\ call.out.to - call.out.from < (MaxRangeSecs + 1) * V!TicksPerSecond

(* The default start is an hour before the end, not before now: an end     *)
(* alone, in the past or the future, is always a valid window.             *)
EndAloneIsAccepted == Made("range") =>
    LET p == call.in
    IN  (/\ p.start = None /\ p.from = None /\ IsSome(p.end) /\ ~V!Bad(p.end)
         /\ 3600 <= MaxRangeSecs) => call.out.status = "ok"

(* time_predicate: consecutive windows neither lose a row at their common  *)
(* bound nor return it twice, wherever in a millisecond the bound lies.    *)
RangesTile == Made("window") =>
    /\ call.out.whole = (call.out.left \/ call.out.right)
    /\ ~(call.out.left /\ call.out.right)

-----------------------------------------------------------------------------
(***************************************************************************)
(* Labels and statements.                                                  *)
(***************************************************************************)
(* In one scope a name means one label, and the planners, which look it up *)
(* in alias_pairs, agree with the adapters, which ask canonical_for_alias. *)
OneMeaningPerName == Made("label") =>
    LET claims == {i \in Scoped[call.in.scope] : call.in.raw \in Names(LABELS[i])}
    IN  /\ Cardinality(claims) <= 1
        /\ call.out.canonical =
               IF call.in.raw \in DOMAIN alias_pairs[call.in.scope]
               THEN Some(alias_pairs[call.in.scope][call.in.raw]) ELSE None

(* The expression of a label reads columns that all tables of its scope    *)
(* have (schema.rs), and attributes under one of the label's own names.    *)
TablesOf == [Logs |-> {"otlp_logs"}, Spans |-> {"otlp_traces"},
             Metrics |-> {"otlp_metrics_gauge", "otlp_metrics_sum"}]

LabelReadsItsTable == Made("label") /\ IsSome(call.out.expr) =>
    LET label == Value(label_def(call.in.scope, Value(call.out.canonical)))
    IN  \A r \in Value(call.out.expr) :
            /\ \A table \in TablesOf[call.in.scope] : r.column \in DOMAIN TableColumns[table]
            /\ r.key = "" \/ r.key \in Names(label)

(* What a label or tag endpoint lists can be used in a query of the same   *)
(* protocol and selects on the label it was listed for.                    *)
AdvertisedIsQueryable == Made("advertised") =>
    /\ IsSome(call.out)
    /\ LET matchers == Value(call.out)
       IN  /\ Len(matchers) = 1
           /\ matchers[1].op = "Eq" /\ matchers[1].value = <<"v">>
           /\ IsSome(label_expr(call.in.scope, matchers[1].field))
           /\ call.in.scope = "Spans" =>
                  tempo_tag_name(matchers[1].field) = tempo_tag_name(call.in.name)

(* The closures that read rows by position find at each position the       *)
(* column they expect, of a type they convert, for all groupings.          *)
ReadersFit == Made("statement") => Fits(call.out.table, call.out.items, call.out.reads)

-----------------------------------------------------------------------------
(***************************************************************************)
(* Queries.                                                                *)
(***************************************************************************)
Known(matchers, scope) == SelectSeq(matchers, LAMBDA m : Supported(m.field, scope))
Consistent(matchers, scope) == ~Conflicting(Canonicalized(Known(matchers, scope), scope))

(* The texts that parse_label_matchers and parse_log_pipeline take for an  *)
(* operator even inside quotes.                                            *)
Signs == {<<"!", "~">>, <<"=", "~">>, <<"!", "=">>, <<"|", "=">>, <<"|", "~">>}
PlainValues(matchers) ==
    \A i \in DOMAIN matchers, sign \in Signs : FindText(matchers[i].value, sign) = 0

(* A LogQL query becomes exactly the plan it was written for or is refused;*)
(* it is refused only for an unknown label, a contradiction or an operator *)
(* inside a quoted value.                                                  *)
LogQueryReadBack == Made("logql") =>
    LET known == Known(call.in.matchers, "Logs")
        exact == Some([matchers |-> Canonicalized(known, "Logs"),
                       text_filters |-> call.in.filter, forward |-> TRUE])
        valid == known = call.in.matchers /\ Consistent(known, "Logs")
    IN  /\ call.out \in {None, exact}
        /\ ~valid => call.out = None
        /\ valid /\ PlainValues(known) => call.out = exact

(* normalize_matchers: an accepted query never asks two values of a label, *)
(* under whatever two aliases it names it.                                 *)
NoContradiction == Made("logql") /\ IsSome(call.out) =>
    \A m, n \in ToSet(Value(call.out).matchers) :
        m.field = n.field /\ m.op = "Eq" /\ n.op = "Eq" => m.value = n.value

(* A trace search selects on exactly the conditions on known tags, each    *)
(* with its operator, in any order; only a contradiction is refused.       *)
SearchReadBack == Made("traceql") =>
    LET known == Known(call.in, "Spans")
    IN  IF ~Consistent(known, "Spans") THEN call.out = None
        ELSE IsSome(call.out) /\ ToSet(Value(call.out)) = ToSet(Canonicalized(known, "Spans"))

(* A PromQL query keeps its function (an inner rate replaces the outer     *)
(* one), its grouping labels or their complement, and its matchers,        *)
(* wherever the grouping clause and the metric name stand.                 *)
Grouping(query) ==
    LET named == {Value(canonical_for_alias("Metrics", l)) : l \in ToSet(query.labels)}
    IN  IF query.keyword = "by" THEN named ELSE ToSet(prometheus_grouping_labels) \ named

Groupable(query) == \A l \in ToSet(query.labels) : IsSome(canonical_for_alias("Metrics", l))

PromReadBack == Made("promql") =>
    LET query == call.in
        grouped == query.func # "" /\ query.clause # ""
        known == Known(query.matchers, "Metrics")
        plan == Value(call.out.plan)
    IN  IF \/ known # query.matchers \/ ~Consistent(known, "Metrics")
           \/ grouped /\ ~Groupable(query)
        THEN call.out.plan = None
        ELSE /\ IsSome(call.out.plan)
             /\ plan.metric_name = resolve_metric_name(NameOf(<<query.name>>))
             /\ plan.aggregation =
                    (IF query.rate THEN "rate" ELSE IF query.func = "" THEN "avg" ELSE query.func)
             /\ plan.filters = Canonicalized(known, "Metrics")
             /\ plan.explicit_grouping = grouped
             /\ ToSet(plan.group_by) = (IF grouped THEN Grouping(query) ELSE {})

(* A query that parse_prom_query accepts is one that execute_metric can    *)
(* answer: no rate is asked of the gauges.                                 *)
PromAnswerable == Made("promql") /\ IsSome(call.out.plan) => IsSome(call.out.answer)

-----------------------------------------------------------------------------
(***************************************************************************)
(* Rows and responses.                                                     *)
(***************************************************************************)
(* push_matcher: a row with or without the label is selected by an         *)
(* operator or by its negation, never by both or neither (SQL's NULL).     *)
MatchersPartition == Made("match") =>
    \A pair \in {<<"Eq", "NotEq">>, <<"Regex", "NotRegex">>} :
        {call.out[pair[1]], call.out[pair[2]]} = {"TRUE", "FALSE"}

(* wrap_rows: "truncated" is set exactly when a selected row is missing,   *)
(* and those returned come first in the order of the query; a limit that   *)
(* parse_limit lets through never hides everything.                        *)
TruncatedIsExact == Made("logs") =>
    LET wanted == {row \in call.in.table :
                      /\ Selected(row, call.in.plan.matchers, call.in.bounds)
                      /\ \A i \in DOMAIN call.in.plan.text_filters :
                             FindText(row.body, call.in.plan.text_filters[i].term) # 0}
        missing == wanted \ ToSet(call.out.result.rows)
    IN  /\ ToSet(call.out.result.rows) \subseteq wanted
        /\ call.out.result.truncated = (missing # {})
        /\ wanted # {} => call.out.result.rows # <<>>
        /\ \A row \in ToSet(call.out.result.rows), lost \in missing :
               IF call.in.plan.forward THEN row.time <= lost.time ELSE lost.time <= row.time

(* loki_query_inner: every row is a line of exactly one stream, the one of *)
(* its labels, and the lines of a stream run in the direction asked for.   *)
LinesInOrder == Made("logs") =>
    /\ \A row \in ToSet(call.out.result.rows) :
           Cardinality({i \in DOMAIN call.out.streams : Contains(call.out.streams[i].values, row)}) = 1
    /\ \A i \in DOMAIN call.out.streams :
         LET lines == call.out.streams[i].values
         IN  /\ \A j \in DOMAIN lines : Shown(lines[j], {"service_name"}) = call.out.streams[i].stream
             /\ \A j, k \in DOMAIN lines : j < k =>
                    IF call.in.plan.forward THEN lines[j].time <= lines[k].time
                    ELSE lines[k].time <= lines[j].time

Matching(table, plan, bounds) ==
    {s \in table : s.name = plan.metric_name /\ Selected(s, plan.filters, bounds)}
Points(series) == UNION {ToSet(series[key]) : key \in DOMAIN series}
Used(series) == UNION {row.of : row \in Points(series)}

(* The samples of the table asked for, or the sums if it has none. *)
Source(tables, plan, bounds) ==
    LET Of(signal) == Matching(tables[signal], plan, bounds)
    IN  IF Of(plan.signal) # {} THEN Of(plan.signal) ELSE Of("sum")

(* The fallback: an answer is computed from the table asked for or from    *)
(* the sums, never from both; it is empty only if there is nothing to be   *)
(* found, and nothing is left out of one that is within the limit.         *)
FallbackNeverMixes == Made("series") /\ IsSome(call.out) =>
    LET used == Used(Value(call.out))
        source == Source(call.in.tables, call.in.plan, call.in.bounds)
    IN  /\ used \subseteq source
        /\ source # {} => used # {}
        /\ Cardinality(source) <= SeriesLimit => used = source

(* execute_metric: a sample counts once, in the bucket that contains its   *)
(* time.  A series has one point per bucket, except that samples without a *)
(* label and samples whose label is empty are two groups in SQL and one    *)
(* series in the response.                                                 *)
RangePartition == Made("series") /\ IsSome(call.out) =>
    LET series == Value(call.out)
        ticks == Clamp(call.in.step, 1, MaxStepSecs) * SecondTicks
    IN  /\ \A s \in Used(series) :
               Cardinality({row \in Points(series) : s \in row.of}) = 1
        /\ \A row \in Points(series) : \A s \in row.of : row.time <= s.time /\ s.time < row.time + ticks
        /\ \A key \in DOMAIN series : \A i, j \in DOMAIN series[key] : i < j =>
               LET a == series[key][i]
                   b == series[key][j]
               IN  \/ a.time < b.time
                   \/ a.time = b.time /\ \E l \in DOMAIN a.labels :
                          {a.labels[l], b.labels[l]} = {None, Some(<<>>)}

(* prometheus_query: the value of an instant query comes from the bucket   *)
(* of the newest sample of the look-back window, if there is one.          *)
InstantNewest == Made("instant") /\ IsSome(call.out) =>
    LET source == Source(call.in.tables, call.in.plan, InstantBounds(call.in.at))
        used == Value(call.out)[1].of
        newest == MaxOf({s.time : s \in source})
    IN  IF source = {} THEN Value(call.out) = <<>>
        ELSE /\ used # {} /\ used \subseteq source
             /\ \A s \in used : Bucket(s.time, InstantSecs) = Bucket(newest, InstantSecs)

(* execute_trace_search: the limit is on traces; a trace that is returned  *)
(* reports all its spans of the window.                                    *)
SearchCountsSpans == Made("search") =>
    \A row \in ToSet(call.out.rows) :
        LET spans == {s \in call.in.table :
                         s.trace_id = row.trace_id /\ time_predicate(s.time, call.in.bounds)}
        IN  /\ row.matched = Cardinality(spans)
            /\ \A s \in spans : s.duration <= row.duration /\ row.start <= s.time

(* The JSON and the protobuf rendering of a well-formed span agree, and no *)
(* protobuf span ends before it starts.                                    *)
RenderingsAgree == Made("span") =>
    LET json == call.out.json
        proto == call.out.proto
    IN  /\ proto.start <= proto.end
        /\ call.in.duration >= 0 /\ call.in.status \in 0 .. 2 =>
               /\ json.start = proto.start /\ json.end = proto.end /\ json.status = proto.status
               /\ json.service = UnwrapOr(proto.service, <<>>)

-----------------------------------------------------------------------------
(***************************************************************************)
(* Start-up.                                                               *)
(***************************************************************************)
Starts == Made("config") /\ IsSome(call.out)
Accepts(expected, key) == V!ValidateApiKey([bearer |-> Some(key), x_api_key |-> None], expected) = "ok"

(* No key opens both the query and the admin endpoints of a process that   *)
(* has started, and no blank key opens either.                             *)
KeysSeparate == Starts =>
    LET c == Value(call.out)
    IN  \A key \in {c.api_key, c.admin_api_key} :
            ~Blank(key) /\ ~(Accepts(c.api_key, key) /\ Accepts(c.admin_api_key, key))

(* AdmissionController::new clamps its capacities, but never those of an   *)
(* accepted configuration: the operator gets what is configured, with at   *)
(* least one slot for each class.                                          *)
AcceptedLimitsUnclamped == Starts =>
    LET c == Value(call.out)
        capacity == AdmissionCapacities(c)
    IN  /\ capacity.cheap = c.cheap_query_admission_capacity
        /\ capacity.cheap + capacity.heavy = c.query_concurrency

(* serve: --listen included, the terminator and the HTTP server never ask  *)
(* for the same address, and a terminator has an identity to present.      *)
ListenersDistinct == Starts =>
    LET listeners == Listeners(Value(call.out))
    IN  /\ listeners.tls # Some(listeners.http)
        /\ listeners.identity

(* duration_ms_or_secs: a wait set in the environment, in either unit,     *)
(* wins over the file's, in either unit.                                   *)
EnvironmentDecidesWait == Starts =>
    LET ms == RawValue(Layer(call.in, "admission_wait_ms").env)
        secs == RawValue(Layer(call.in, "admission_wait_secs").env)
        wait == Value(call.out).query_admission_wait
    IN  /\ IsSome(ms) => wait = Value(ms)
        /\ ms = None /\ IsSome(secs) => wait = 1000 * Value(secs)

(* What validate accepts, the attach plan honours: the token it asked for  *)
(* is there, and switching verification off is never silently ignored.     *)
InsecureTakesEffect == Made("attach") =>
    /\ call.out.plan.error # "quack_token"
    /\ call.in.config.ducklake_quack_insecure_tls /\ call.out.plan.error = "none" =>
           Contains(call.out.plan.sql, Secret("http"))

(* attach_ducklake_connection: extensions are looked for in the configured *)
(* directory; when the catalog is attached, extensions and credentials are *)
(* there, and nothing but USE is left to do.                               *)
AttachAfterSetup == Made("attach") =>
    LET steps == call.out.run.executed
        plan == call.out.plan
    IN  \A i \in DOMAIN steps :
            /\ steps[i].do = "LOAD" /\ IsSome(call.in.config.duckdb_extension_dir) =>
                   \E j \in 1 .. i - 1 : steps[j].do = "DIRECTORY"
            /\ steps[i].do = "ATTACH" =>
                   /\ \A e \in plan.needs : Contains(Before(steps, i), Load(e))
                   /\ plan.object_store # "none" => Contains(Before(steps, i), Secret(plan.object_store))
                   /\ "quack" \in plan.needs => Contains(Before(steps, i), Secret("quack"))
                   /\ \A j \in DOMAIN steps : j > i => steps[j] = Use

(* An image that holds the extensions of its catalog starts without the    *)
(* network.                                                                *)
Required(plan) == plan.needs \cup
    (CASE plan.object_store = "s3" -> {"httpfs", "aws"}
       [] plan.object_store = "gcs" -> {"httpfs"}
       [] OTHER -> {})

OfflineStart == Made("attach") /\ call.out.plan.error = "none" =>
    (Required(call.out.plan) \subseteq call.in.image => call.out.run.ok)

-----------------------------------------------------------------------------
(***************************************************************************)
(* What the pure parts promise, by the part that relies on it.             *)
(***************************************************************************)
(* Lists that are written by hand in different files agree: the labels     *)
(* with the expressions, the tables and the label endpoints, and the row   *)
(* readers with the statements.                                            *)
ListsAgree ==
    OneMeaningPerName /\ LabelReadsItsTable /\ AdvertisedIsQueryable /\ ReadersFit

(* A request reaches one handler, with its parameters whole and its time   *)
(* range bounded.                                                          *)
RequestsSound ==
    /\ OneRoutePerRequest /\ ParamNeverMissing
    /\ BodyNeverErases /\ RangesBounded /\ EndAloneIsAccepted


(* No row is lost, repeated, mixed in or out of place on its way from the  *)
(* tables to a response.                                                   *)
AnswersExact ==
    /\ RangesTile /\ MatchersPartition /\ TruncatedIsExact /\ LinesInOrder
    /\ FallbackNeverMixes /\ RangePartition /\ InstantNewest
    /\ SearchCountsSpans /\ RenderingsAgree

(* What validate accepts is what runs.                                     *)
StartsAsConfigured ==
    /\ KeysSeparate /\ AcceptedLimitsUnclamped /\ ListenersDistinct /\ EnvironmentDecidesWait
    /\ InsecureTakesEffect /\ AttachAfterSetup /\ OfflineStart
=============================================================================
