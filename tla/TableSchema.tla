---------------------------- MODULE TableSchema ----------------------------
(***************************************************************************)
(* src/storage/schema.rs and src/signal.rs: the static columns of the      *)
(* telemetry tables, each with its DuckDB type.                            *)
(***************************************************************************)
(* The columns of a table: those that are text, those that count, and the others. *)
Table(texts, counts, others) ==
    [c \in texts \cup counts \cup DOMAIN others |->
        IF c \in texts THEN "VARCHAR" ELSE IF c \in counts THEN "UINTEGER" ELSE others[c]]

LOGS_COLUMNS == Table(
    {"trace_id", "span_id", "service_name", "service_namespace", "service_instance_id",
     "severity_text", "event_name", "body", "resource_attributes", "scope_name",
     "scope_version", "scope_attributes", "log_attributes"},
    {"dropped_attributes_count", "flags"},
    [time_unix_nano |-> "TIMESTAMP_NS", observed_time_unix_nano |-> "TIMESTAMP_NS",
     severity_number |-> "INTEGER"])

SPANS_COLUMNS == Table(
    {"trace_id", "span_id", "parent_span_id", "trace_state", "service_name",
     "service_namespace", "service_instance_id", "name", "status_status_message",
     "resource_attributes", "scope_name", "scope_version", "scope_attributes",
     "span_attributes", "events_json", "links_json"},
    {"dropped_attributes_count", "dropped_events_count", "dropped_links_count", "flags"},
    [start_time_unix_nano |-> "TIMESTAMP_NS", duration_time_unix_nano |-> "BIGINT",
     kind |-> "INTEGER", status_code |-> "INTEGER"])

METRIC_TEXTS ==
    {"name", "description", "unit", "service_name", "service_namespace", "service_instance_id",
     "resource_attributes", "scope_name", "scope_version", "scope_attributes",
     "metric_attributes", "exemplars_json"}

METRIC_GAUGE_COLUMNS == Table(METRIC_TEXTS, {"flags"},
    [time_unix_nano |-> "TIMESTAMP_NS", start_time_unix_nano |-> "TIMESTAMP_NS",
     int_value |-> "BIGINT", double_value |-> "DOUBLE"])

METRIC_SUM_COLUMNS == Table(METRIC_TEXTS, {"flags"},
    [time_unix_nano |-> "TIMESTAMP_NS", start_time_unix_nano |-> "TIMESTAMP_NS",
     int_value |-> "BIGINT", double_value |-> "DOUBLE",
     aggregation_temporality |-> "INTEGER", is_monotonic |-> "BOOLEAN"])

(* table_columns *)
TableColumns == [
    otlp_logs |-> LOGS_COLUMNS,
    otlp_traces |-> SPANS_COLUMNS,
    otlp_metrics_gauge |-> METRIC_GAUGE_COLUMNS,
    otlp_metrics_sum |-> METRIC_SUM_COLUMNS]

(* table_timestamp_column *)
TimestampColumn(table) ==
    IF table = "otlp_traces" THEN "start_time_unix_nano" ELSE "time_unix_nano"
=============================================================================
