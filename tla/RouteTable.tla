----------------------------- MODULE RouteTable -----------------------------
(***************************************************************************)
(* src/http/compat_routes.rs: the table of compatibility routes and the    *)
(* match of a request against it.  A path is the sequence of its segments  *)
(* (the pieces between slashes); the three kinds of RoutePattern are then  *)
(* one: a sequence of segments in which Param stands for a non-empty one.  *)
(***************************************************************************)
EXTENDS Naturals, Sequences

Param == ":param"
Empty == ""

Route(methods, pattern, admission, handler) ==
    [methods |-> methods, pattern |-> pattern, admission |-> admission, handler |-> handler]

Get == {"GET"}
GetOrPost == {"GET", "POST"}

COMPAT_ROUTES == <<
    Route(GetOrPost, <<"api", "v1", "query">>, "cheap", "PrometheusQuery"),
    Route(GetOrPost, <<"api", "v1", "query_range">>, "heavy", "PrometheusQueryRange"),
    Route(Get, <<"api", "v1", "labels">>, "cheap", "PrometheusLabels"),
    Route(Get, <<"api", "v1", "series">>, "cheap", "PrometheusSeries"),
    Route(Get, <<"api", "v1", "metadata">>, "cheap", "PrometheusMetadata"),
    Route(Get, <<"api", "v1", "label", Param, "values">>, "cheap", "PrometheusLabelValues"),
    Route(Get, <<"loki", "api", "v1", "query">>, "cheap", "LokiQuery"),
    Route(Get, <<"loki", "api", "v1", "query_range">>, "heavy", "LokiQueryRange"),
    Route(Get, <<"loki", "api", "v1", "labels">>, "cheap", "LokiLabels"),
    Route(Get, <<"loki", "api", "v1", "series">>, "cheap", "LokiSeries"),
    Route(Get, <<"loki", "api", "v1", "label", Param, "values">>, "cheap", "LokiLabelValues"),
    Route(Get, <<"api", "search">>, "heavy", "TempoSearch"),
    Route(Get, <<"api", "search", "tags">>, "cheap", "TempoTags"),
    Route(Get, <<"api", "v2", "search", "tags">>, "cheap", "TempoTags"),
    Route(Get, <<"api", "v2", "traces", Param>>, "heavy", "TempoTrace"),
    Route(Get, <<"api", "traces", Param>>, "heavy", "TempoTrace"),
    Route(Get, <<"api", "search", "tag", Param, "values">>, "cheap", "TempoTagValues"),
    Route(Get, <<"api", "v2", "search", "tag", Param, "values">>, "cheap", "TempoTagValues"),
    Route(Get, <<"api", "status", "buildinfo">>, "none", "BuildInfo") >>

Templates == {COMPAT_ROUTES[i].pattern : i \in DOMAIN COMPAT_ROUTES}

(* match_route_path *)
PathMatches(pattern, path) ==
    /\ Len(path) = Len(pattern)
    /\ \A i \in DOMAIN path :
         IF pattern[i] = Param THEN path[i] # Empty ELSE path[i] = pattern[i]

Matches(method, path) ==
    {i \in DOMAIN COMPAT_ROUTES :
        method \in COMPAT_ROUTES[i].methods /\ PathMatches(COMPAT_ROUTES[i].pattern, path)}

(* match_compat_route: the first match, or 0. *)
CompatRoute(method, path) ==
    IF Matches(method, path) = {} THEN 0
    ELSE CHOOSE i \in Matches(method, path) : \A j \in Matches(method, path) : i <= j

(* The handlers whose compat_value arm unwraps the parameter. *)
NeedsParam ==
    {"PrometheusLabelValues", "LokiLabelValues", "TempoTrace", "TempoTagValues"}

(* route_inner: what is not a compatibility route. *)
Endpoint(method, path) ==
    IF CompatRoute(method, path) # 0 THEN "compat"
    ELSE IF method # "GET" THEN "not_found"
    ELSE CASE path = <<"healthz">> -> "healthz"
           [] path = <<"metrics">> -> "metrics"
           [] path = <<"api", "admin", "health", "storage">> -> "admin_storage"
           [] path = <<"api", "admin", "health", "queries">> -> "admin_queries"
           [] OTHER -> "not_found"

-----------------------------------------------------------------------------
(***************************************************************************)
(* request_params: what the body adds to the query string's parameters.    *)
(* A body is its list of (key, value) pairs; a JSON value may be null.     *)
(***************************************************************************)
Null == "null"

(* HashMap::insert for each of the pairs that are kept, in turn. *)
InsertAll(params, pairs, kept) ==
    [k \in DOMAIN params \cup {pairs[i][1] : i \in kept} |->
        LET at == {i \in kept : pairs[i][1] = k}
        IN  IF at = {} THEN params[k]
            ELSE pairs[CHOOSE i \in at : \A j \in at : j <= i][2]]

RequestParams(query, content_type, body) ==
    InsertAll(query, body,
              {i \in DOMAIN body : content_type = "application/json" => body[i][2] # Null})
=============================================================================
