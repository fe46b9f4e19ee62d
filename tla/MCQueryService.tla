--------------------------- MODULE MCQueryService ---------------------------
(* An instance of QueryService for TLC: a route with admission and the one *)
(* without, and two shards, with a request's own series on both.           *)
EXTENDS QueryService

CONSTANTS t1, t2

TwoThreads == {t1, t2}
TwoTemplates == {<<"api", "v1", "query">>, <<"api", "status", "buildinfo">>}
OneSlotEach == [c \in QueryClasses |-> 1]
TwoResults == {"ok", "query_timeout"}
SixReasons == TwoResults \cup {"missing_api_key", "bad_api_key",
               "cheap_query_admission_full", "heavy_query_admission_full"}
TwoParts == {"logical_rows", "physical_bytes"}
TwoScans == <<"logical_rows", "physical_bytes">>
BytesFirst == <<"physical_bytes", "logical_rows">>

Health == {"healthz", "admin_storage", "admin_queries", "not_found"}
Case(e1, e2, n) ==
    [serves |-> [t \in TwoThreads |-> IF t = t1 THEN e1 ELSE e2], queries |-> n]
FiveCases == {
    Case({"compat"}, {"compat"}, 2),
    Case({"compat"}, {"metrics"}, 1),
    Case({"metrics"}, {"metrics"}, 0),
    Case({"metrics"}, {"healthz"}, 0),
    Case({"healthz"}, Health, 0)}
TwoShards == [s \in Series |-> IF s[1] \in {"requests", "phase_count", "storage"} THEN 1 ELSE 2]
=============================================================================
