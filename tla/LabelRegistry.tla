--------------------------- MODULE LabelRegistry ---------------------------
(***************************************************************************)
(* src/semantic_labels.rs: the registry of labels the three protocols      *)
(* share, and the lookups on it.  The SQL expression of a label is the set *)
(* of what it reads, each a column and, for a JSON column, a key (the SQL  *)
(* functions of src/db/sql.rs included); the expression NULL reads none.   *)
(***************************************************************************)
EXTENDS Naturals, Sequences, SequencesExt, Options

Scopes == {"Logs", "Spans", "Metrics"}

(* LabelSource and its expr. *)
Json(column, key) == [column |-> column, key |-> key]
Column(column) == {Json(column, "")}
ResourceAttr(key) == {Json("resource_attributes", key)}
SpanAttr(key) == {Json("span_attributes", key)}
MetricAttr(key) == {Json("metric_attributes", key)}
Missing == {}

(* The expressions of src/db/sql.rs; a coalesce reads all its arguments. *)
LogAttr(key) == {Json("log_attributes", key)}
DeploymentEnvironment == ResourceAttr("deployment.environment")
LogsHttpMethod == LogAttr("http.request.method") \cup LogAttr("http.method")
LogsHttpStatusCode == LogAttr("http.response.status_code") \cup LogAttr("http.status_code")
LogsHttpRoute == LogAttr("http.route")
SpansHttpMethod == SpanAttr("http.request.method") \cup SpanAttr("http.method")
SpansHttpStatusCode == SpanAttr("http.response.status_code") \cup SpanAttr("http.status_code")
(* Mutant: the expression of the other table. *)
SpansHttpRoute_OfLogs == LogAttr("http.route")
SpansHttpRoute == SpanAttr("http.route")
TraceIdHex == Column("trace_id")
SpanIdHex == Column("span_id")

Everywhere(source) == [scope \in Scopes |-> source]

-----------------------------------------------------------------------------
(* The *_SOURCES constants. *)

SERVICE_NAME_SOURCES == Everywhere(Column("service_name"))
SERVICE_NAMESPACE_SOURCES == Everywhere(Column("service_namespace"))
SERVICE_INSTANCE_SOURCES == Everywhere(Column("service_instance_id"))
DEPLOYMENT_ENV_SOURCES == Everywhere(DeploymentEnvironment)
HOST_NAME_SOURCES == Everywhere(ResourceAttr("host.name"))
K8S_CLUSTER_SOURCES == Everywhere(ResourceAttr("k8s.cluster.name"))
K8S_NODE_SOURCES == Everywhere(ResourceAttr("k8s.node.name"))
K8S_STATEFULSET_SOURCES == Everywhere(ResourceAttr("k8s.statefulset.name"))
K8S_DEPLOYMENT_SOURCES == Everywhere(ResourceAttr("k8s.deployment.name"))
LOG_SCOPE_SOURCES == [Logs |-> Column("scope_name")]
LOG_SEVERITY_SOURCES == [Logs |-> Column("severity_text")]
TRACE_ID_SOURCES == [Logs |-> TraceIdHex, Spans |-> TraceIdHex]
SPAN_ID_SOURCES == [Logs |-> SpanIdHex, Spans |-> SpanIdHex]
HTTP_ROUTE_SOURCES ==
    [Logs |-> LogsHttpRoute, Spans |-> SpansHttpRoute,
     Metrics |-> MetricAttr("http.route")]
HTTP_METHOD_SOURCES ==
    [Logs |-> LogsHttpMethod, Spans |-> SpansHttpMethod,
     Metrics |-> MetricAttr("http.request.method")]
HTTP_STATUS_SOURCES == [Logs |-> LogsHttpStatusCode, Spans |-> SpansHttpStatusCode]
HTTP_RESPONSE_STATUS_METRIC_SOURCES == [Metrics |-> MetricAttr("http.response.status_code")]
SPAN_NAME_SOURCES == [Spans |-> Column("name"), Metrics |-> MetricAttr("span.name")]
STATUS_CODE_SOURCES ==
    [Spans |-> Column("status_code"), Metrics |-> MetricAttr("status.code")]
JOB_SOURCES == [Metrics |-> Missing]
INSTANCE_SOURCES == [Metrics |-> Missing]
METRIC_STATE_SOURCES == [Metrics |-> MetricAttr("state")]
METRIC_TYPE_SOURCES == [Metrics |-> MetricAttr("type")]
METRIC_CPU_SOURCES == [Metrics |-> MetricAttr("cpu")]
METRIC_EXPORTER_SOURCES == [Metrics |-> MetricAttr("exporter")]
METRIC_RECEIVER_SOURCES == [Metrics |-> MetricAttr("receiver")]
METRIC_PROCESSOR_SOURCES == [Metrics |-> MetricAttr("processor")]
OTEL_SIGNAL_SOURCES == [Metrics |-> MetricAttr("otel_signal")]
DATA_TYPE_SOURCES == [Metrics |-> MetricAttr("data_type")]
POSTGRES_DB_SOURCES == [Metrics |-> MetricAttr("postgresql.database.name")]
RPC_SERVICE_SOURCES ==
    [Spans |-> SpanAttr("rpc.service"), Metrics |-> MetricAttr("rpc.service")]
RPC_METHOD_SOURCES ==
    [Spans |-> SpanAttr("rpc.method"), Metrics |-> MetricAttr("rpc.method")]
RPC_GRPC_STATUS_SOURCES ==
    [Spans |-> SpanAttr("rpc.grpc.status_code"),
     Metrics |-> MetricAttr("rpc.grpc.status_code")]
SERVER_ADDRESS_SOURCES ==
    [Spans |-> SpanAttr("server.address"),
     Metrics |-> MetricAttr("server.address")]
DB_NAMESPACE_SOURCES ==
    [Spans |-> SpanAttr("db.namespace"),
     Metrics |-> MetricAttr("db.namespace")]
URL_TEMPLATE_SOURCES == [Metrics |-> MetricAttr("url.template")]
EXCEPTION_TYPE_SOURCES == [Spans |-> SpanAttr("exception.type")]

-----------------------------------------------------------------------------
(* The entries of LABELS, in order. *)
Label(canonical, aliases, sources, surfaces, tempo_tag, project) ==
    [canonical |-> canonical, aliases |-> aliases, sources |-> sources,
     surfaces |-> surfaces, tempo_tag |-> tempo_tag, project |-> project]

ResourceLabels == <<
    Label("service_name", {"service.name", "resource.service.name", "serviceName", "service-name"},
          SERVICE_NAME_SOURCES, {"loki_stream", "prom_promoted"}, Some("service.name"), {"Logs"}),
    Label("service_namespace", {"service.namespace", "resource.service.namespace", "service-namespace"},
          SERVICE_NAMESPACE_SOURCES, {"loki_stream"}, Some("service.namespace"), {"Logs"}),
    Label("service_instance_id", {"service.instance.id", "resource.service.instance.id", "service-instance-id"},
          SERVICE_INSTANCE_SOURCES, {"loki_stream"}, Some("service.instance.id"), {"Logs"}),
    Label("deployment_environment", {"deployment.environment", "deployment_environment_name", "deployment-environment"},
          DEPLOYMENT_ENV_SOURCES, {"loki_stream", "prom_promoted"}, Some("deployment.environment"), {"Logs"}),
    Label("host_name", {"host.name", "resource.host.name", "host-name"},
          HOST_NAME_SOURCES, {"loki_stream"}, Some("host.name"), {"Logs"}),
    Label("k8s_cluster_name", {"k8s.cluster.name"}, K8S_CLUSTER_SOURCES, {}, None, {}),
    Label("k8s_node_name", {"k8s.node.name"}, K8S_NODE_SOURCES, {}, None, {}),
    Label("k8s_statefulset_name", {"k8s.statefulset.name"},
          K8S_STATEFULSET_SOURCES, {}, None, {}),
    Label("k8s_deployment_name", {"k8s.deployment.name"},
          K8S_DEPLOYMENT_SOURCES, {}, Some("k8s.deployment.name"), {}),
    Label("scope_name", {"instrumentationScope.name", "instrumentation_scope_name"},
          LOG_SCOPE_SOURCES, {"loki_stream"}, None, {"Logs"}),
    Label("severity_text", {"severity.text"},
          LOG_SEVERITY_SOURCES, {"loki_stream"}, None, {"Logs"}),
    Label("trace_id", {"traceID"},
          TRACE_ID_SOURCES, {"loki_stream"}, Some("traceID"), {"Logs"}),
    Label("span_id", {"spanID"}, SPAN_ID_SOURCES, {"loki_stream"}, Some("spanID"), {"Logs"}) >>

RecordLabels == <<
    Label("http_route", {"http.route", "http-route"},
          HTTP_ROUTE_SOURCES, {"loki_stream"}, Some("http.route"), {"Logs"}),
    Label("http_method", {"http.method", "http.request.method", "http-method"},
          HTTP_METHOD_SOURCES, {"loki_stream"}, Some("http.method"), {"Logs"}),
    Label("http_status_code", {"http.status_code", "http.response.status_code", "http-status-code"},
          HTTP_STATUS_SOURCES, {}, Some("http.status_code"), {"Logs"}),
    Label("http_response_status_code", {"http.response.status_code"},
          HTTP_RESPONSE_STATUS_METRIC_SOURCES, {}, None, {}),
    Label("span_name", {"span.name", "span-name", "name"},
          SPAN_NAME_SOURCES, {}, Some("span.name"), {}),
    Label("status_code", {"status.code", "status"},
          STATUS_CODE_SOURCES, {}, Some("status.code"), {}),
    Label("job", {}, JOB_SOURCES, {}, None, {}),
    Label("instance", {}, INSTANCE_SOURCES, {}, None, {}),
    Label("state", {}, METRIC_STATE_SOURCES, {}, None, {}),
    Label("type", {}, METRIC_TYPE_SOURCES, {}, None, {}),
    Label("cpu", {}, METRIC_CPU_SOURCES, {}, None, {}),
    Label("exporter", {}, METRIC_EXPORTER_SOURCES, {}, None, {}),
    Label("receiver", {}, METRIC_RECEIVER_SOURCES, {}, None, {}),
    Label("processor", {}, METRIC_PROCESSOR_SOURCES, {}, None, {}),
    Label("otel_signal", {}, OTEL_SIGNAL_SOURCES, {}, None, {}),
    Label("data_type", {}, DATA_TYPE_SOURCES, {}, None, {}) >>

AttributeLabels == <<
    Label("postgresql_database_name", {"postgresql.database.name"},
          POSTGRES_DB_SOURCES, {}, None, {}),
    Label("rpc_service", {"rpc.service"},
          RPC_SERVICE_SOURCES, {}, Some("rpc.service"), {}),
    Label("rpc_method", {"rpc.method"}, RPC_METHOD_SOURCES, {}, Some("rpc.method"), {}),
    Label("rpc_grpc_status_code", {"rpc.grpc.status_code"},
          RPC_GRPC_STATUS_SOURCES, {}, Some("rpc.grpc.status_code"), {}),
    Label("server_address", {"server.address"},
          SERVER_ADDRESS_SOURCES, {}, Some("server.address"), {}),
    Label("url_template", {"url.template"}, URL_TEMPLATE_SOURCES, {}, None, {}),
    Label("db_namespace", {"db.namespace"},
          DB_NAMESPACE_SOURCES, {}, Some("db.namespace"), {}),
    Label("exception_type", {"exception.type"},
          EXCEPTION_TYPE_SOURCES, {}, Some("exception.type"), {}) >>

LABELS == ResourceLabels \o RecordLabels \o AttributeLabels

-----------------------------------------------------------------------------
has_scope(label, scope) == scope \in DOMAIN label.sources

(* Where the labels of a scope stand. *)
Where(labels, scope) == {i \in DOMAIN labels : has_scope(labels[i], scope)}
Scoped == [scope \in Scopes |-> Where(LABELS, scope)]

(* find, over the labels at the positions at: the first of them. *)
First(labels, at) ==
    IF at = {} THEN None ELSE Some(labels[CHOOSE i \in at : \A j \in at : i <= j])

WithCanonical(labels, scope, canonical) ==
    First(labels, {i \in Where(labels, scope) : labels[i].canonical = canonical})
label_def(scope, canonical) == WithCanonical(LABELS, scope, canonical)

label_expr(scope, canonical) ==
    LET def == label_def(scope, canonical)
    IN  IF def = None THEN None ELSE Some(Value(def).sources[scope])

Canonical(found) == IF found = None THEN None ELSE Some(Value(found).canonical)

WithAlias(labels, scope, raw) ==
    First(labels, {i \in Where(labels, scope) : raw \in labels[i].aliases})
canonical_for_alias(scope, raw) ==
    OrElse(Canonical(label_def(scope, raw)), Canonical(WithAlias(LABELS, scope, raw)))

(* What a selector may name in a scope, and the label it means: the first  *)
(* pair of the list alias_pairs with that name.                            *)
Names(label) == {label.canonical} \cup label.aliases
Pairs(labels, scope) ==
    [raw \in UNION {Names(labels[i]) : i \in Where(labels, scope)} |->
        Value(First(labels, {i \in Where(labels, scope) : raw \in Names(labels[i])})).canonical]
alias_pairs == [scope \in Scopes |-> Pairs(LABELS, scope)]

(* filter: the elements of s at the positions at, in their order. *)
AtPositions(s, at) ==
    [k \in 1 .. Cardinality(at) |-> s[CHOOSE i \in at : Cardinality({j \in at : j <= i}) = k]]

CanonicalsOf(labels) == [i \in DOMAIN labels |-> labels[i].canonical]

Projected(labels, scope) ==
    {i \in DOMAIN labels : scope \in labels[i].project /\ IsSome(label_expr(scope, labels[i].canonical))}
projected_labels(scope) == CanonicalsOf(AtPositions(LABELS, Projected(LABELS, scope)))

prometheus_grouping_labels == CanonicalsOf(AtPositions(LABELS, Scoped["Metrics"]))

(* The names the label endpoints list, as sets. *)
OnSurface(labels, scope, surface) ==
    {labels[i].canonical : i \in {j \in Where(labels, scope) : surface \in labels[j].surfaces}}
loki_label_names == OnSurface(LABELS, "Logs", "loki_stream")
prometheus_label_names == {"__name__"} \cup OnSurface(LABELS, "Metrics", "prom_promoted")

TagNames(label) == {Value(label.tempo_tag)} \cup Names(label)
Tagged(labels) == {i \in DOMAIN labels : IsSome(labels[i].tempo_tag)}

TagsOf(labels, scope) == UNION {TagNames(labels[i]) : i \in Where(labels, scope) \cap Tagged(labels)}
tempo_tag_names == TagsOf(LABELS, "Spans")

(* Over all labels, of whatever scope. *)
WithTag(labels, raw) == First(labels, {i \in Tagged(labels) : raw \in TagNames(labels[i])})
tempo_tag_name(raw) ==
    LET found == WithTag(LABELS, raw)
    IN  IF found = None THEN None ELSE Value(found).tempo_tag
=============================================================================
