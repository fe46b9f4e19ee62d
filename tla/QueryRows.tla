----------------------------- MODULE QueryRows -----------------------------
(***************************************************************************)
(* src/query/mod.rs and the adapters of src/compat: from a plan to the     *)
(* rows DuckDB returns and from the rows to a response.  A table is a set  *)
(* of records; a label of a record is an Option (NULL is None).  Times are *)
(* ticks; the code's constants are parameters so that a small instance     *)
(* has windows, buckets and truncated limits.                              *)
(***************************************************************************)
EXTENDS Integers, QueryPlan, TableSchema

CONSTANTS MilliTicks, SecondTicks,
          InstantSecs,      \* the look-back and the step of an instant query: 300
          MaxStepSecs       \* 86 400

ASSUME ScaleAssumption ==
    /\ {MilliTicks, SecondTicks, InstantSecs, MaxStepSecs} \subseteq Nat \ {0}
    /\ SecondTicks % MilliTicks = 0

(* time_predicate: half open, both ends cut to the millisecond. *)
Milli(t) == t - (t % MilliTicks)

time_predicate(t, bounds) == Milli(bounds.from) <= t /\ t < Milli(bounds.to)

(* regexp_matches, as far as the model goes: a pattern matches itself. *)
RegexpMatches(text, pattern) == pattern = <<".*">> \/ text = pattern

(* push_matcher: "TRUE", "FALSE" or SQL's "NULL". *)
Sql(truth) == IF truth THEN "TRUE" ELSE "FALSE"

Applies(op, text, value) ==
    CASE op = "Eq" -> text = value
      [] op = "NotEq" -> text # value
      [] op = "Regex" -> RegexpMatches(text, value)
      [] op = "NotRegex" -> ~RegexpMatches(text, value)

(* Mutant: the column is compared as it is. *)
push_matcher_NoCoalesce(matcher, column) ==
    IF column = None THEN "NULL" ELSE Sql(Applies(matcher.op, Value(column), matcher.value))

push_matcher(matcher, column) ==
    IF matcher.value = <<".*">> /\ matcher.op \in {"Regex", "NotRegex"}
    THEN Sql(matcher.op = "Regex")
    ELSE Sql(Applies(matcher.op, UnwrapOr(column, <<>>), matcher.value))

(* text_terms: OR in any spelling selects the operator, but only the       *)
(* upper-case one splits.  None: parentheses are an error.                 *)
SplitTerms(text, op) ==
    LET cuts == {0, Len(text) + 1} \cup {i \in DOMAIN text : text[i] = op}
        next == {p \in cuts \X cuts : p[1] < p[2] /\ \A c \in cuts : c <= p[1] \/ p[2] <= c}
    IN  {SubSeq(text, p[1] + 1, p[2] - 1) : p \in next} \ {<<>>}

text_terms(text, body) ==
    LET any == \E i \in DOMAIN text : text[i] \in {"OR", "or"}
        terms == SplitTerms(text, IF any THEN "OR" ELSE "AND")
    IN  IF \E i \in DOMAIN text : text[i] \in {"(", ")"} THEN None
        ELSE Some(IF terms = {} THEN TRUE
                  ELSE IF any THEN \E t \in terms : FindText(body, t) # 0
                  ELSE \A t \in terms : FindText(body, t) # 0)

(* log_where_sql; None for an error. *)
TextHolds(filter, body) ==
    IF filter.kind = "BodyContains" THEN text_terms(filter.term, body)
    ELSE Some(RegexpMatches(body, filter.term))

Selected(row, matchers, bounds) ==
    /\ time_predicate(row.time, bounds)
    /\ \A i \in DOMAIN matchers : push_matcher(matchers[i], row.labels[matchers[i].field]) = "TRUE"

-----------------------------------------------------------------------------
(* wrap_rows over the LIMIT limit + 1 of every statement. *)
Take(rows, n) == SubSeq(rows, 1, IF n < Len(rows) THEN n ELSE Len(rows))

wrap_rows(rows, limit) ==
    LET fetched == Take(rows, limit + 1)
    IN  [rows |-> Take(fetched, limit), truncated |-> Len(fetched) > limit]

(* ORDER BY the time: rows of the same time come in any order. *)
InTime(rows, forward) ==
    CHOOSE s \in [1 .. Cardinality(rows) -> rows] :
        /\ IsInjective(s)
        /\ \A i, j \in DOMAIN s : i < j =>
               IF forward THEN s[i].time <= s[j].time ELSE s[j].time <= s[i].time

(* execute_logs, for a plan whose text filters are no error. *)
execute_logs(table, plan, bounds, limit) ==
    wrap_rows(InTime({row \in table :
                         /\ Selected(row, plan.matchers, bounds)
                         /\ \A i \in DOMAIN plan.text_filters :
                                Value(TextHolds(plan.text_filters[i], row.body))},
                     plan.forward), limit)

(* loki_plan: an instant query looks one second past its end. *)
LokiBounds(start, end, range) ==
    [from |-> start, to |-> IF range THEN end ELSE end + SecondTicks]

(* The labels of a response: those that are there and not empty. *)
Shown(row, labels) ==
    [l \in {x \in labels : row.labels[x] \notin {None, Some(<<>>)}} |-> Value(row.labels[l])]

(* Rows grouped by their shown labels, in the order of the rows. *)
Ascending(positions) ==
    CHOOSE f \in [1 .. Cardinality(positions) -> positions] :
        \A m, n \in DOMAIN f : m < n => f[m] < f[n]

RowsAt(rows, positions) ==
    LET at == Ascending(positions) IN [n \in DOMAIN at |-> rows[at[n]]]

GroupRows(rows, labels) ==
    [key \in {Shown(rows[i], labels) : i \in DOMAIN rows} |->
        RowsAt(rows, {i \in DOMAIN rows : Shown(rows[i], labels) = key})]

(* loki_query_inner: the streams are listed in the order of their keys, or *)
(* in reverse; the lines of each keep the order of the rows.               *)
loki_streams(rows, labels, forward) ==
    LET groups == GroupRows(rows, labels)
        keys == SetToSeq(DOMAIN groups)
        ordered == IF forward THEN Reverse(keys) ELSE keys
    IN  [i \in DOMAIN ordered |-> [stream |-> ordered[i], values |-> groups[ordered[i]]]]

-----------------------------------------------------------------------------
(* execute_metric: one row per bucket and group.  Of an aggregate the      *)
(* model keeps the samples it ranges over; a rate over no time is NULL.    *)
Clamp(n, low, high) == IF n < low THEN low ELSE IF n > high THEN high ELSE n
Bucket(t, step) == LET ticks == Clamp(step, 1, MaxStepSecs) * SecondTicks IN t - (t % ticks)

GroupOf(sample, group_by) == [l \in ToSet(group_by) |-> sample.labels[l]]

MetricRows(samples, plan) ==
    LET Same(s, t) == /\ Bucket(s.time, plan.step) = Bucket(t.time, plan.step)
                      /\ GroupOf(s, plan.group_by) = GroupOf(t, plan.group_by)
    IN  {[time |-> Bucket(s.time, plan.step), labels |-> GroupOf(s, plan.group_by),
          of |-> {t \in samples : Same(s, t)}] : s \in samples}

NullValue(row, aggregation) ==
    aggregation = "rate" /\ \A s, t \in row.of : s.time = t.time

(* None: a rate is only computed over sums. *)
execute_metric(tables, plan, signal) ==
    LET samples == {s \in tables[signal] :
                       s.name = plan.metric_name /\ Selected(s, plan.filters, plan.bounds)}
    IN  IF plan.aggregation = "rate" /\ signal # "sum" THEN None
        ELSE Some(wrap_rows(InTime(MetricRows(samples, plan), plan.forward), plan.limit))

(* execute_metric_rows_with_sum_fallback *)
MetricAnswer(tables, plan) ==
    LET asked == execute_metric(tables, plan, plan.signal)
        sums == execute_metric(tables, plan, "sum")
    IN  IF asked = None THEN None
        ELSE IF Value(asked).rows # <<>> \/ plan.signal # "gauge" \/ plan.aggregation = "rate"
        THEN Some(Value(asked).rows)
        ELSE Some(Value(sums).rows)

MetricPlan(prom, group_by, bounds, step, limit, forward) ==
    [metric_name |-> prom.metric_name, signal |-> prom.signal, aggregation |-> prom.aggregation,
     filters |-> prom.filters, group_by |-> group_by, bounds |-> bounds, step |-> step,
     limit |-> limit, forward |-> forward]

(* prometheus_query: the newest bucket of the look-back window. *)
InstantBounds(at) == [from |-> at - InstantSecs * SecondTicks, to |-> at + SecondTicks]
InstantPlan(prom, at) == MetricPlan(prom, prom.group_by, InstantBounds(at), InstantSecs, 1, FALSE)

prometheus_query(tables, prom, at) ==
    LET rows == MetricAnswer(tables, InstantPlan(prom, at))
    IN  IF rows = None THEN None
        ELSE IF Value(rows) = <<>> THEN Some(<<>>)
        ELSE LET row == Value(rows)[Len(Value(rows))]
             IN  Some(<<[metric |-> Shown(row, DOMAIN row.labels), at |-> at, of |-> row.of,
                         zero |-> NullValue(row, prom.aggregation)]>>)

(* prometheus_query_range: grouped by service unless the query says how. *)
RangeGroupBy(prom) == IF prom.explicit_grouping THEN prom.group_by ELSE <<"service_name">>

RangePlan(prom, start, end, step, limit) ==
    MetricPlan(prom, RangeGroupBy(prom), [from |-> start, to |-> end], step, limit, TRUE)

prometheus_query_range(tables, prom, start, end, step, limit) ==
    LET rows == MetricAnswer(tables, RangePlan(prom, start, end, step, limit))
    IN  IF rows = None THEN None ELSE Some(GroupRows(Value(rows), ToSet(RangeGroupBy(prom))))

-----------------------------------------------------------------------------
(* execute_trace_search: one row per trace, newest span first. *)
MaxOf(values) == CHOOSE v \in values : \A w \in values : w <= v
MinOf(values) == CHOOSE v \in values : \A w \in values : v <= w

TraceRow(spans) ==
    [trace_id |-> (CHOOSE s \in spans : TRUE).trace_id,
     start |-> MinOf({s.time : s \in spans}), time |-> MaxOf({s.time : s \in spans}),
     matched |-> Cardinality(spans), duration |-> MaxOf({s.duration : s \in spans})]

execute_trace_search(table, matchers, bounds, limit) ==
    LET spans == {s \in table : Selected(s, matchers, bounds)}
        Of(id) == {s \in spans : s.trace_id = id}
    IN  wrap_rows(InTime({TraceRow(Of(id)) : id \in {s.trace_id : s \in spans}}, FALSE), limit)

(* tempo_span and tempo_proto_span: one span in JSON and in protobuf.      *)
(* Only the protobuf form clamps the duration and the status, and leaves   *)
(* out (None) an empty attribute.                                          *)
tempo_span(s) ==
    [start |-> s.time, end |-> s.time + s.duration, status |-> s.status,
     service |-> UnwrapOr(s.labels["service_name"], <<>>)]

tempo_proto_span(s) ==
    [start |-> s.time, end |-> s.time + (IF s.duration < 0 THEN 0 ELSE s.duration),
     status |-> IF s.status \in {1, 2} THEN s.status ELSE 0,
     service |-> IF s.labels["service_name"] = Some(<<>>) THEN None ELSE s.labels["service_name"]]
=============================================================================
