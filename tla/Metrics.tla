------------------------------ MODULE Metrics ------------------------------
(***************************************************************************)
(* src/metrics.rs: the metrics registry.  Its series live in shards, each  *)
(* under a mutex of its own, so an update of one series is atomic and      *)
(* nothing larger is: an observation is two updates, query_request three   *)
(* or four, and a scrape (merged_shards) copies one shard after another    *)
(* while the others change.                                                *)
(***************************************************************************)
EXTENDS Naturals, Sequences

CONSTANTS Shards,         \* METRICS_SHARDS, numbered from 1
          RouteTemplates, \* the templates of the routes that are counted
          Reasons,        \* "ok" and the reasons of errors
          StorageParts    \* what the storage gauges describe

QueryClasses == {"cheap", "heavy"}

(* An observation is one unit of time, so that a sum can be compared with  *)
(* its count.                                                              *)
ObservationSeries == {"duration_count", "duration_sum", "phase_count", "phase_sum"}

CounterSeries ==
    ({"requests"} \X RouteTemplates \X Reasons)
      \cup ((ObservationSeries \cup {"timeouts"}) \X RouteTemplates)
      \cup ({"rejections"} \X QueryClasses)

GaugeSeries == {"storage"} \X StorageParts

Series == CounterSeries \cup GaugeSeries

CONSTANT ShardOf          \* ShardOf[s]: shard_for's hash of the series' name

ASSUME ShardAssumption ==
    /\ Shards \in Nat \ {0}
    /\ ShardOf \in [Series -> 1 .. Shards]

VARIABLE registry         \* registry[s]: the value of a series

EmptyRegistry == [s \in Series |-> 0]

(* A write of one series under its shard's lock. *)
Inc(s) == [add |-> TRUE, series |-> s, value |-> 1]
Gauge(s, v) == [add |-> FALSE, series |-> s, value |-> v]

Updates == [add : BOOLEAN, series : Series, value : Nat]

Apply(u) ==
    registry' = [registry EXCEPT ![u.series] = IF u.add THEN @ + u.value ELSE u.value]

(* observe_seconds: the count, unlock, then the sum. *)
ObserveSeconds(name, template) ==
    CASE name = "duration" -> <<Inc(<<"duration_count", template>>), Inc(<<"duration_sum", template>>)>>
      [] name = "phase" -> <<Inc(<<"phase_count", template>>), Inc(<<"phase_sum", template>>)>>

(* Mutant: the timeout is counted without the request. *)
QueryRequest_TimeoutOnly(template, reason) ==
    IF reason = "query_timeout" THEN <<Inc(<<"timeouts", template>>)>>
    ELSE <<Inc(<<"requests", template, reason>>)>> \o ObserveSeconds("duration", template)

(* query_request *)
QueryRequest(template, reason) ==
    <<Inc(<<"requests", template, reason>>)>>
      \o ObserveSeconds("duration", template)
      \o (IF reason = "query_timeout" THEN <<Inc(<<"timeouts", template>>)>> ELSE <<>>)

(* merged_shards: a scrape has copied the counters of the shards below     *)
(* next (and the gauges, in the same way).                                 *)
Counters == [s \in CounterSeries |-> registry[s]]

NoScrape == [next |-> 1, seen |-> [s \in CounterSeries |-> 0]]

(* Mutant: every other shard is skipped. *)
CopyShard_Skips(scrape) ==
    [next |-> scrape.next + 2,
     seen |-> [s \in CounterSeries |->
                 IF ShardOf[s] = scrape.next THEN registry[s] ELSE scrape.seen[s]]]

CopyShard(scrape) ==
    [next |-> scrape.next + 1,
     seen |-> [s \in CounterSeries |->
                 IF ShardOf[s] = scrape.next THEN registry[s] ELSE scrape.seen[s]]]
=============================================================================
