----------------------------- MODULE PromQuery -----------------------------
(***************************************************************************)
(* src/query/prometheus.rs: the PromQL subset.  Queries are the token      *)
(* sequences of QueryPlan.  A metric name is the sequence of the words     *)
(* between its separators, with the separator.                             *)
(***************************************************************************)
EXTENDS QueryPlan

CONSTANT MetricWords      \* MetricWords[token]: the words of a name written as one token

Aggregations == {"avg", "min", "max", "sum", "count", "rate"}

(* parenthesized_with_suffix: up to the parenthesis that closes the first, *)
(* quoted parentheses counted like all others.                             *)
Depth(text, i) ==
    Cardinality({j \in 1 .. i : text[j] = "("}) - Cardinality({j \in 1 .. i : text[j] = ")"})

parenthesized_with_suffix(raw) ==
    LET closes == {i \in DOMAIN raw : raw[i] = ")" /\ Depth(raw, i) = 0}
        first == CHOOSE i \in closes : \A j \in closes : i <= j
    IN  IF raw = <<>> THEN None
        ELSE IF raw[1] # "(" \/ closes = {} THEN None
        ELSE Some([inner |-> SubSeq(raw, 2, first - 1), suffix |-> After(raw, first)])

(* strip_outer_parens, for the at most MaxParens pairs a query has. *)
MaxParens == 3
StripPair(text, i) ==
    LET pair == parenthesized_with_suffix(text)
    IN  IF pair = None THEN text
        ELSE IF Value(pair).suffix # <<>> THEN text
        ELSE Value(pair).inner
strip_outer_parens(raw) == FoldLeft(StripPair, raw, [i \in 1 .. MaxParens |-> i])

(* unwrap_func: from the first parenthesis to a last one that ends it all. *)
unwrap_func(query) ==
    LET open == FindText(query, <<"(">>)
    IN  IF open = 0 THEN None
        ELSE IF query[Len(query)] # ")" THEN None
        ELSE Some([func |-> Before(query, open), inner |-> SubSeq(query, open + 1, Len(query) - 1)])

(* strip_range_selector *)
strip_range_selector(raw) ==
    LET opens == {i \in DOMAIN raw : raw[i] = "["}
    IN  IF raw = <<>> THEN raw
        ELSE IF raw[Len(raw)] # "]" \/ opens = {} THEN raw
        ELSE Before(raw, CHOOSE i \in opens : \A j \in opens : j <= i)

-----------------------------------------------------------------------------
(* normalize_group_label and parse_label_list: canonical names, each once. *)
Deduplicated(labels) ==
    FoldLeft(LAMBDA kept, label : IF Contains(kept, label) THEN kept ELSE Append(kept, label),
             <<>>, labels)

parse_label_list(raw) ==
    LET close == FindText(raw, <<")">>)
        names == SelectSeq(SubSeq(raw, 2, close - 1), LAMBDA token : token # ",")
        labels == [i \in DOMAIN names |-> canonical_for_alias("Metrics", names[i])]
    IN  IF raw = <<>> THEN None
        ELSE IF raw[1] # "(" \/ close = 0 \/ ~AllSome(labels) THEN None
        ELSE Some([labels |-> Deduplicated(Values(labels)), rest |-> After(raw, close)])

(* The grouping clause at the head of a text, if there is one. *)
GroupingKeyword(text) == text # <<>> /\ text[1] \in {"by", "without"}

GroupBy(keyword, labels) ==
    IF keyword = "without"
    THEN SelectSeq(prometheus_grouping_labels, LAMBDA label : ~Contains(labels, label))
    ELSE labels

Aggregation(func, group_by, explicit, inner) ==
    [aggregation |-> func, group_by |-> group_by, explicit_grouping |-> explicit, inner |-> inner]

(* parse_aggregation: "none" when the query is no aggregation, None for an *)
(* error.  The grouping clause stands before or after the parentheses.     *)
NoAggregation == [aggregation |-> "none"]

parse_aggregation(query) ==
    LET is_call == Len(query) > 1 /\ query[1] \in Aggregations \ {"rate"}
        rest == After(query, 1)
        ahead == GroupingKeyword(rest)
        prefix == parse_label_list(Tail(rest))
        body == parenthesized_with_suffix(IF ahead THEN Value(prefix).rest ELSE rest)
        suffix == Value(body).suffix
        behind == parse_label_list(Tail(suffix))
    IN  IF ~is_call THEN Some(NoAggregation)
        ELSE IF ahead /\ prefix = None THEN None
        ELSE IF body = None THEN None
        ELSE IF suffix = <<>>
        THEN Some(Aggregation(query[1],
                              IF ahead THEN GroupBy(rest[1], Value(prefix).labels) ELSE <<>>,
                              ahead, Value(body).inner))
        ELSE IF ahead \/ ~GroupingKeyword(suffix) THEN None
        ELSE IF behind = None THEN None
        ELSE IF Value(behind).rest # <<>> THEN None
        ELSE Some(Aggregation(query[1], GroupBy(suffix[1], Value(behind).labels),
                              TRUE, Value(body).inner))

-----------------------------------------------------------------------------
(* resolve_metric_name and strip_prometheus_unit_suffix.  A name is        *)
(* [words, sep]; only the underscore spelling is rewritten.                *)
MetricName(words, sep) == [words |-> words, sep |-> sep]
NameOf(tokens) ==
    MetricName(IF Len(tokens) = 1 /\ tokens[1] \in DOMAIN MetricWords THEN MetricWords[tokens[1]]
               ELSE tokens, "_")
EndsIn(name, suffixes) == Len(name.words) > 1 /\ name.words[Len(name.words)] \in suffixes
Strip(name, suffixes) ==
    IF name.sep = "_" /\ EndsIn(name, suffixes) THEN [name EXCEPT !.words = Front(@)] ELSE name
StartsWith(name, words) == name.sep = "_" /\ IsStrictPrefix(words, name.words)

UnitSuffixes == {"seconds", "milliseconds", "bytes", "ratio", "count", "total"}

METRIC_NAME_OVERRIDES == <<
    [from |-> <<"process", "runtime", "cpython", "cpu", "time", "seconds", "total">>,
     to |-> MetricName(<<"process", "runtime", "cpython", "cpu_time">>, ".")],
    [from |-> <<"otelcol", "process", "uptime", "seconds", "total">>,
     to |-> MetricName(<<"otelcol", "process", "uptime">>, "_")],
    [from |-> <<"demo", "recommendation", "requests", "total">>,
     to |-> MetricName(<<"app", "recommendations", "counter">>, "_")] >>

resolve_metric_name(raw) ==
    LET override == {i \in DOMAIN METRIC_NAME_OVERRIDES :
                        raw = MetricName(METRIC_NAME_OVERRIDES[i].from, "_")}
        without_total == Strip(raw, {"total"})
    IN  IF override # {} THEN METRIC_NAME_OVERRIDES[CHOOSE i \in override : TRUE].to
        ELSE IF StartsWith(raw, <<"otelcol", "exporter">>) \/ StartsWith(raw, <<"otelcol", "process">>)
        THEN without_total
        ELSE IF \/ StartsWith(raw, <<"traces", "span", "metrics">>) \/ StartsWith(raw, <<"system">>)
                \/ StartsWith(raw, <<"process", "runtime">>)
        THEN [Strip(without_total, UnitSuffixes) EXCEPT !.sep = "."]
        ELSE raw

(* normalize_metric_name's signal: which table is asked first. *)
metric_signal(raw, aggregation) ==
    IF \/ aggregation = "rate"
       \/ raw.sep = "_" /\ EndsIn(raw, {"total"})
       \/ resolve_metric_name(raw).sep = "." /\ EndsIn(resolve_metric_name(raw), {"sum"})
    THEN "sum" ELSE "gauge"

-----------------------------------------------------------------------------
(* parse_prom_query. *)
CallOf(query, aggregation) ==
    LET call == unwrap_func(query)
    IN  IF call = None THEN Some([aggregation |-> aggregation, inner |-> query])
        ELSE IF Len(Value(call).func) # 1 THEN None
        ELSE IF Value(call).func[1] \notin Aggregations THEN None
        ELSE Some([aggregation |-> Value(call).func[1],
                   inner |-> strip_outer_parens(Value(call).inner)])

(* The metric name in front of the braces, or that of a __name__ matcher,  *)
(* which then is no filter any more.                                       *)
NameMatcher(m) == m.field = <<"__name__">> /\ m.op = "Eq"

Named(selector) ==
    LET at == {i \in DOMAIN selector.matchers : NameMatcher(selector.matchers[i])}
        first == CHOOSE i \in at : \A j \in at : i <= j
    IN  IF selector.name # <<>> THEN Some(selector)
        ELSE IF at = {} THEN None
        ELSE Some([name |-> selector.matchers[first].value,
                   matchers |-> RemoveAt(selector.matchers, first)])

(* The first unwrap_func is tried only when there is no aggregation. *)
OuterCall(query, outer) ==
    IF outer.aggregation = "none" THEN CallOf(query, "avg")
    ELSE Some([aggregation |-> outer.aggregation, inner |-> strip_outer_parens(outer.inner)])

PromPlan(outer, aggregation, name, filters) ==
    LET is_agg == outer.aggregation # "none"
    IN  [metric_name |-> resolve_metric_name(name),
         signal |-> metric_signal(name, aggregation),
         aggregation |-> aggregation,
         filters |-> filters,
         group_by |-> IF is_agg THEN outer.group_by ELSE <<>>,
         explicit_grouping |-> is_agg /\ outer.explicit_grouping]

parse_prom_query(raw) ==
    LET query == strip_outer_parens(raw) IN
    AndThen(parse_aggregation(query), LAMBDA outer :
      AndThen(OuterCall(query, outer), LAMBDA first :
        AndThen(CallOf(first.inner, first.aggregation), LAMBDA call :
          AndThen(parse_selector_matchers(strip_range_selector(call.inner)), LAMBDA selector :
            AndThen(Named(selector), LAMBDA named :
              AndThen(normalize_matchers(named.matchers, "Metrics"), LAMBDA filters :
                Some(PromPlan(outer, call.aggregation, NameOf(named.name), filters))))))))
=============================================================================
