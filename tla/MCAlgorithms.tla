---------------------------- MODULE MCAlgorithms ----------------------------
(* Inputs of the pure parts for TLC. *)
EXTENDS Algorithms

Options(values) == {None} \cup {Some(v) : v \in values}
SeqsUpTo(S, n) == UNION {[1 .. k -> S] : k \in 0 .. n}

-----------------------------------------------------------------------------
(* Every template with each literal segment, a word and nothing for its    *)
(* parameter, alone and with one segment more; the other endpoints.        *)
Segments == {"x", ""} \cup UNION {ToSet(t) \ {R!Param} : t \in R!Templates}
Filled(t, segment) == [i \in DOMAIN t |-> IF t[i] = R!Param THEN segment ELSE t[i]]
MCPaths ==
    {Filled(t, s) : t \in R!Templates, s \in Segments}
    \cup {Append(Filled(t, "x"), s) : t \in R!Templates, s \in Segments}
    \cup {<<"healthz">>, <<"metrics">>, <<"api", "admin", "health", "storage">>,
          <<"api", "admin", "health", "queries">>}

MCQueryParams == [{} -> {"1"}] \cup [{"a"} -> {"1"}] \cup [{"a", "b"} -> {"1", "2"}]
MCBodies ==
    [type : {"application/json"}, pairs : SeqsUpTo({"a", "b"} \X {"3", R!Null}, 2)]
    \cup [type : {"form"}, pairs : SeqsUpTo({"a", "b"} \X {"3", "4"}, 2)]

(* Around now, around an hour before now, and unparsable. *)
AnHour == 3600 * V!TicksPerSecond
MCNow == 2 * AnHour
TimeParam == Options({[parses |-> FALSE, time |-> 0]} \cup
    {[parses |-> TRUE, time |-> t] :
        t \in {0, AnHour - 1, AnHour, AnHour + 1, MCNow, MCNow + 1}})
MCTimeParams == [start : TimeParam, end : TimeParam, from : Options({[parses |-> TRUE, time |-> AnHour]}),
                 to : Options({[parses |-> FALSE, time |-> 0]})]

MCInstants == 0 .. 9

-----------------------------------------------------------------------------
(* Names of both kinds (canonical, alias, unknown); values with the        *)
(* characters the parsers look for.                                        *)
MCValues == {<<"a">>, <<"b">>, <<"a", ",", "b">>, <<"x", "=", "y">>, <<"x", "!", "=", "y">>,
             <<"}", "|", "=", "y">>, <<"{", "~">>}
MCMatchers(fields, values) ==
    {Matcher(<<f>>, op, v) : f \in fields, op \in {"Eq", "NotEq", "Regex", "NotRegex"}, v \in values}

MCLogQueries ==
    [matchers : SeqsUpTo(MCMatchers({"service_name", "service.name", "unknown"}, MCValues), 1),
     filter : Options([kind : {"BodyContains", "BodyRegex"}, term : {<<"a">>, <<"a", "|", "~", "b">>}])]
    \cup
    [matchers : [1 .. 2 -> MCMatchers({"service_name", "service.name", "trace_id", "unknown"},
                                      {<<"a">>, <<"b">>, <<"a", ",", "b">>})],
     filter : {None}]

(* One condition per tag: a second one on the same tag is not looked at. *)
TraceMatchers == MCMatchers({"service.name", "name", "status", "service_name", "unknown"}, {<<"a">>, <<"b">>})
MCTraceQueries ==
    {conditions \in SeqsUpTo(TraceMatchers, 2) :
        \A i, j \in DOMAIN conditions : i # j => conditions[i].field # conditions[j].field}

(* Two counters, one of them renamed; other names are one word. *)
MCMetricWords == ("system_cpu_time_seconds_total" :> <<"system", "cpu_time", "seconds", "total">>)
                 @@ ("requests_total" :> <<"requests", "total">>)

MCPromQueries ==
    [func : {"", "sum", "count"}, keyword : {"by", "without"}, clause : {"", "before", "after"},
     labels : {<<>>, <<"service.name">>, <<"service_name", "service.name", "job">>, <<"unknown">>},
     rate : BOOLEAN, named : BOOLEAN,
     name : {"system_cpu_time_seconds_total", "requests_total", "up"},
     matchers : {<<>>, << Matcher(<<"job">>, "Eq", <<"a", ",", "b">>) >>,
                 << Matcher(<<"service.name">>, "Regex", <<"a">>), Matcher(<<"service_name">>, "Eq", <<"b">>) >>,
                 << Matcher(<<"service.name">>, "Eq", <<"a">>), Matcher(<<"service_name">>, "Eq", <<"b">>) >>,
                 << Matcher(<<"unknown">>, "Eq", <<"a">>) >>}]

MCLabelNames == UNION {Names(LABELS[i]) : i \in DOMAIN LABELS} \cup {"unknown", "__name__"}

MCGroupBys == {<<>>, prometheus_grouping_labels} \cup
    {<<a, b>> : a \in ToSet(prometheus_grouping_labels), b \in {"service_name", "job"}}

-----------------------------------------------------------------------------
(* Rows: at most three of them, with and without the label.                *)
MCColumns == Options({<<>>, <<"a">>, <<".*">>})
MCMatchValues == {<<>>, <<"a">>, <<"b">>, <<".*">>}

Labelled(column) == [l \in {"service_name"} |-> column]
LogRow(id, t, column, body) == [id |-> id, time |-> t, labels |-> Labelled(column), body |-> body]
LogUniverse == {
    LogRow(1, 1, Some(<<"a">>), <<"x">>), LogRow(2, 2, None, <<"x", "y">>),
    LogRow(3, 4, Some(<<>>), <<"y">>), LogRow(4, 4, Some(<<"a">>), <<"x">>),
    LogRow(5, 7, Some(<<"b">>), <<"x">>)}
MCLogTables == {rows \in SUBSET LogUniverse : Cardinality(rows) <= 3}
MCLogPlans ==
    [matchers : {<<>>, << Matcher("service_name", "NotEq", <<"a">>) >>},
     text_filters : {<<>>, << TextFilter("BodyContains", <<"x">>) >>}, forward : BOOLEAN]
MCLimitParams == {None, Some(0), Some(1), Some(3)}

Sample(id, t, column) == [id |-> id, time |-> t, labels |-> Labelled(column), name |-> "m"]
GaugeUniverse == {Sample(1, 1, Some(<<"a">>)), Sample(2, 3, None), Sample(3, 6, Some(<<"a">>)), Sample(6, 2, Some(<<>>))}
SumUniverse == {Sample(4, 2, Some(<<"b">>)), Sample(5, 7, Some(<<"a">>))}
MCMetricTables == [gauge : SUBSET GaugeUniverse, sum : SUBSET SumUniverse]
MCMetricPlans ==
    [metric_name : {"m"}, signal : {"gauge", "sum"}, aggregation : {"avg"},
     filters : {<<>>, << Matcher("service_name", "Eq", <<"a">>) >>},
     group_by : {<<"service_name">>}, explicit_grouping : BOOLEAN]
    \cup
    [metric_name : {"m"}, signal : {"sum"}, aggregation : {"rate"}, filters : {<<>>},
     group_by : {<<>>}, explicit_grouping : BOOLEAN]
MCSteps == {0, 1, 3}

Span(trace, t, duration, status, column) ==
    [trace_id |-> trace, time |-> t, duration |-> duration, status |-> status, labels |-> Labelled(column)]
SpanUniverse == {
    Span("A", 1, 5, 0, Some(<<"a">>)), Span("A", 3, -1, 2, Some(<<>>)), Span("A", 6, 2, 1, None),
    Span("B", 2, 1, 3, None), Span("B", 5, 0, 1, Some(<<"b">>)), Span("C", 6, 3, -1, Some(<<"a">>))}
MCSpanTables == SUBSET SpanUniverse

-----------------------------------------------------------------------------
(* Settings, one concern at a time; the others keep their defaults.        *)
Raw(v) == Some([parses |-> TRUE, value |-> v])
Env(v) == [env |-> Raw(v), file |-> None]
File(v) == [env |-> None, file |-> Raw(v)]

Texts(values) == {Unset} \cup {Env(v) : v \in values} \cup {File(v) : v \in values}
KeySettings == [api_key : Texts({<<"k">>, <<" ">>, <<"k2">>}), admin_api_key : Texts({<<"k">>})]

Public == <<"0.0.0.0:443">>
TlsSettings ==
    [tls_enabled : {Env(TRUE)}, tls_mode : Texts({<<"ephemeral_self_signed", " ">>, <<"acme">>}),
     tls_backend_bind : {Unset, Env(Public), Env(<<" ">>)},
     tls_cert_file : {Unset, Env(<<"cert">>)}, tls_key_file : {Unset, File(<<"key">>)}]

LimitSettings ==
    [query_concurrency : {Env(n) : n \in 0 .. 4}, cheap_query_admission_capacity : {File(n) : n \in 0 .. 4}]

Garbled == Some([parses |-> FALSE, value |-> 0])
Numbers(values) ==
    LET raw == {None} \cup {Raw(v) : v \in values}
    IN  [env : raw, file : raw \cup {Garbled}]
WaitSettings == [admission_wait_ms : Numbers({250}), admission_wait_secs : Numbers({2})]

CatalogSettings ==
    [ducklake_attach_uri : {Unset, Env(<<" ", "ducklake:", "quack:", "host">>), File(<<"ducklake:", "meta">>),
                            Env(<<"md:", "db">>), Env(<<" ">>), Env(<<"ATTACH", "db">>), Env(<<"http:", "host">>)},
     ducklake_quack_token : {Unset, Env(<<"t">>), Env(<<" ">>)},
     ducklake_quack_insecure_tls : {Unset, Env(TRUE)},
     ducklake_data_path : {Unset, Env(<<"s3://", "b">>), File(<<"gs://", "b">>), Env(<<"dir">>)},
     duckdb_extension_dir : {Unset, Env(<<"x">>)},
     postgres_dsn : {Unset, Env(<<"dsn">>)}, ducklake_catalog_path : {Unset, Env(<<"f">>)}]

RemovedSettings == [grpc_enabled : {Unset, Env(FALSE), File(TRUE)}, local_catalog_enabled : {Unset, Env(TRUE)}]

MCLayers == KeySettings \cup TlsSettings \cup LimitSettings \cup WaitSettings
            \cup CatalogSettings \cup RemovedSettings
MCListens == {None, Some(Public), Some(Defaults.tls_backend_bind)}
MCImages == {{}, {"ducklake"}, {"ducklake", "postgres", "httpfs", "aws"}, {"md", "ducklake", "quack", "httpfs"}}
=============================================================================
