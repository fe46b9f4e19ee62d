---------------------------- MODULE RowReaders ----------------------------
(***************************************************************************)
(* The SELECT lists of src/query/mod.rs and src/compat/tempo.rs and the    *)
(* closures that read the rows back, most of them by position.             *)
(***************************************************************************)
EXTENDS Naturals, LabelRegistry, TableSchema

(* A column of a result: what it reads, its type, whether it can be NULL.  *)
Item(reads, type, nullable) == [reads |-> reads, type |-> type, nullable |-> nullable]

Plain(table, column) == Item({column}, TableColumns[table][column], TRUE)

(* The time column as text; the time predicate rules NULL out. *)
TimeText(table) == Item({TimestampColumn(table)}, "VARCHAR", FALSE)

(* span_label and label_expr as a result column.  Only http_status_code is *)
(* cast to a number; json_extract_string gives text.  The panic of         *)
(* span_label is the column that reads nothing.                            *)
ExprType(table, canonical, expr) ==
    IF expr = {} THEN "NULL"
    ELSE IF canonical = "http_status_code" THEN "INTEGER"
    ELSE IF \E r \in expr : r.key = "" THEN TableColumns[table][(CHOOSE r \in expr : TRUE).column]
    ELSE "VARCHAR"

LabelItem(table, scope, canonical) ==
    LET expr == UnwrapOr(label_expr(scope, canonical), {})
    IN  Item({r.column : r \in expr}, ExprType(table, canonical, expr), TRUE)

SpanItem(column) == Plain("otlp_traces", column)
SpanLabel(canonical) == LabelItem("otlp_traces", "Spans", canonical)

(* tempo_trace's statement, the first ten columns of tempo_trace_proto's. *)
TraceJsonItems == <<
    TimeText("otlp_traces"), SpanItem("trace_id"), SpanItem("span_id"), SpanItem("parent_span_id"),
    SpanItem("service_name"), SpanItem("name"), SpanItem("duration_time_unix_nano"),
    SpanItem("status_code"), SpanLabel("http_method"), SpanLabel("http_status_code") >>

TraceProtoItems == TraceJsonItems \o <<
    SpanItem("trace_state"), SpanItem("kind"), SpanItem("status_status_message"),
    SpanItem("scope_name"), SpanItem("scope_version"), SpanLabel("deployment_environment"),
    SpanLabel("http_route"), SpanLabel("exception_type") >>

(* execute_trace_search *)
TraceSearchItems == <<
    SpanItem("trace_id"), Item({"start_time_unix_nano"}, "VARCHAR", FALSE),
    Item({"start_time_unix_nano"}, "VARCHAR", FALSE), SpanItem("service_name"), SpanItem("name"),
    Item({}, "BIGINT", FALSE), SpanItem("duration_time_unix_nano") >>

(* execute_metric: a grouping label without an expression is left out. *)
MetricItems(table, aggregation, group_by) ==
    LET labels == AtPositions(group_by, {i \in DOMAIN group_by :
                                  IsSome(label_expr("Metrics", group_by[i]))})
    IN  << TimeText(table) >>
        \o [i \in DOMAIN labels |-> LabelItem(table, "Metrics", labels[i])]
        \o << Item({"double_value", "int_value"},
                   IF aggregation = "count" THEN "BIGINT" ELSE "DOUBLE", TRUE) >>

(* log_select_sql: everything is cast to text. *)
LogItems ==
    << TimeText("otlp_logs"), Plain("otlp_logs", "body") >>
    \o [i \in DOMAIN projected_labels("Logs") |->
           [LabelItem("otlp_logs", "Logs", projected_labels("Logs")[i]) EXCEPT !.type = "VARCHAR"]]

-----------------------------------------------------------------------------
(* What a reader takes from one position: the column it believes to be     *)
(* there, the Rust type, and whether it is an Option.                      *)
Read(column, type) == [column |-> column, type |-> type, optional |-> TRUE]
Get(column, type) == [column |-> column, type |-> type, optional |-> FALSE]

(* The types row.get converts; the driver refuses the others. *)
Converts(type) ==
    CASE type = "String" -> {"VARCHAR"}
      [] type = "i32" -> {"INTEGER"}
      [] type = "i64" -> {"BIGINT", "INTEGER"}
      [] type = "f64" -> {"DOUBLE", "BIGINT", "INTEGER"}

(* span_row *)
span_row_reads == <<
    Get("start_time_unix_nano", "String"), Read("trace_id", "String"), Read("span_id", "String"),
    Read("parent_span_id", "String"), Read("service_name", "String"), Read("name", "String"),
    Read("duration_time_unix_nano", "i64"), Read("status_code", "i32"),
    Read("span_attributes", "String"), Read("span_attributes", "i32") >>

(* The closure of tempo_trace_proto. *)
proto_reads == span_row_reads \o <<
    Read("trace_state", "String"), Read("kind", "i32"), Read("status_status_message", "String"),
    Read("scope_name", "String"), Read("scope_version", "String"),
    Read("resource_attributes", "String"), Read("span_attributes", "String"),
    Read("span_attributes", "String") >>

(* The closure of execute_trace_search; count reads no column. *)
search_reads == <<
    Read("trace_id", "String"), Read("start_time_unix_nano", "String"),
    Read("start_time_unix_nano", "String"), Read("service_name", "String"), Read("name", "String"),
    Get("", "i64"), Read("duration_time_unix_nano", "i64") >>

(* The closure of execute_metric walks all of group_by.  A label is known  *)
(* by the columns its expression reads.                                    *)
LabelColumn(scope, canonical) ==
    LET expr == UnwrapOr(label_expr(scope, canonical), {})
    IN  IF expr = {} THEN "" ELSE (CHOOSE r \in expr : TRUE).column

metric_reads(table, group_by) ==
    << Get(TimestampColumn(table), "String") >>
    \o [i \in DOMAIN group_by |-> Read(LabelColumn("Metrics", group_by[i]), "String")]
    \o << Read("double_value", "f64") >>

(* log_row *)
log_reads ==
    << Get("time_unix_nano", "String"), Read("body", "String") >>
    \o [i \in DOMAIN projected_labels("Logs") |->
           Read(LabelColumn("Logs", projected_labels("Logs")[i]), "String")]

(* A reader fits the statement: same length and, at every position, the    *)
(* column it expects, of a type it converts, and no NULL it cannot hold.   *)
Fits(table, items, reads) ==
    /\ Len(items) = Len(reads)
    /\ \A i \in DOMAIN reads :
         /\ IF reads[i].column = "" THEN items[i].reads = {}
            ELSE reads[i].column \in items[i].reads
         /\ items[i].reads \subseteq DOMAIN TableColumns[table]
         /\ items[i].type \in Converts(reads[i].type) \cup {"NULL"}
         /\ reads[i].optional \/ ~items[i].nullable
=============================================================================
