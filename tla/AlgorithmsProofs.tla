-------------------------- MODULE AlgorithmsProofs --------------------------
(***************************************************************************)
(* What the pure parts promise, for every input.  A state is one call, so  *)
(* the invariants are inductive as they stand: each needs only what the    *)
(* action that made its call computes.  Facts about data of any size rest  *)
(* on least elements: of sets of numbers (NatMin), and of the subsets of a *)
(* finite set (KeyMin, ListingExists).                                     *)
(***************************************************************************)
EXTENDS Algorithms, FiniteSetTheorems, SequenceTheorems, WellFoundedInduction, TLAPS

-----------------------------------------------------------------------------
(***************************************************************************)
(* Numbers.                                                                *)
(***************************************************************************)
(* Every non-empty set of natural numbers has a least element. *)
LEMMA NatMin ==
    ASSUME NEW T \in SUBSET Nat, T # {}
    PROVE  \E x \in T : \A y \in T : x <= y
<1>1. PICK t \in T : TRUE
  OBVIOUS
<1> DEFINE S == 0 .. t
           U == {0 .. x : x \in {y \in T : y <= t}}
<1>2. IsFiniteSet(S)
  BY FS_Interval
<1>3. U \in SUBSET (SUBSET S) /\ U # {}
  OBVIOUS
<1>4. IsWellFoundedOn(StrictSubsetOrdering(S), SUBSET S)
  BY <1>2, FS_StrictSubsetOrderingWellFounded, FS_FiniteSubsetsOfFinite
<1>5. PICK u \in U : \A v \in U : <<v, u>> \notin StrictSubsetOrdering(S)
  BY <1>3, <1>4, WFMin
<1>6. PICK x \in T : x <= t /\ u = 0 .. x
  BY <1>5
<1>7. ASSUME NEW y \in T, y < x PROVE FALSE
  <2>1. 0 .. y \in U /\ u \in SUBSET S
    BY <1>3, <1>5, <1>6, <1>7
  <2>2. x \in u /\ x \notin 0 .. y
    BY <1>6, <1>7
  <2>3. 0 .. y \subseteq u /\ 0 .. y # u
    BY <2>2, <1>6, <1>7
  <2>4. 0 .. y \in SUBSET S
    BY <2>1, <1>3
  <2> QED BY <2>1, <2>3, <2>4, <1>5 DEF StrictSubsetOrdering
<1> QED BY <1>6, <1>7

(* A set of numbers up to n that is not empty has a greatest element. *)
LEMMA NatMax ==
    ASSUME NEW n \in Nat, NEW T \in SUBSET (0 .. n), T # {}
    PROVE  \E x \in T : \A y \in T : y <= x
<1> DEFINE U == {n - x : x \in T}
<1>1. U \subseteq Nat /\ U # {}
  <2>1. \A x \in T : n - x \in Nat
    OBVIOUS
  <2>2. PICK x \in T : TRUE
    OBVIOUS
  <2>3. n - x \in U
    BY <2>2
  <2> QED BY <2>1, <2>3
<1>2. PICK u \in U : \A v \in U : u <= v
  BY <1>1, NatMin
<1>3. PICK x \in T : u = n - x
  BY <1>2
<1>4. ASSUME NEW y \in T PROVE y <= x
  <2>1. n - y \in U
    OBVIOUS
  <2> QED BY <2>1, <1>2, <1>3
<1> QED BY <1>4

(* An Option is None or Some. *)
LEMMA OptionCases ==
    ASSUME NEW S, NEW o, IsOption(o, S)
    PROVE  o = <<>> \/ (o # <<>> /\ o[1] \in S /\ o = <<o[1]>>)
<1>1. o \in Seq(S) /\ Len(o) \in Nat /\ Len(o) <= 1
  BY DEF IsOption
<1>2. CASE Len(o) = 0
  BY <1>1, <1>2
<1>3. CASE Len(o) = 1
  <2>1. o[1] \in S
    BY <1>1, <1>3
  <2>2. o = <<o[1]>>
    BY <1>1, <1>3
  <2>3. o # <<>>
    BY <1>3
  <2> QED BY <2>1, <2>2, <2>3
<1>4. Len(o) = 0 \/ Len(o) = 1
  <2>1. \A n \in Nat : n <= 1 => n = 0 \/ n = 1
    OBVIOUS
  <2> QED BY <1>1, <2>1, Zenon
<1> QED BY <1>2, <1>3, <1>4, Zenon

-----------------------------------------------------------------------------
(***************************************************************************)
(* Sequences.                                                              *)
(***************************************************************************)
(* f is s followed by t, place by place. *)
Joined(S, f, s, t) ==
    /\ f \in Seq(S) /\ Len(f) = Len(s) + Len(t)
    /\ \A i \in 1 .. Len(s) : f[i] = s[i]
    /\ \A i \in 1 .. Len(t) : f[Len(s) + i] = t[i]

(* \o joins two sequences. *)
LEMMA ConcatJoins ==
    ASSUME NEW S, NEW s \in Seq(S), NEW t \in Seq(S)
    PROVE  Joined(S, s \o t, s, t)
BY DEF Joined

(* What a concatenation holds. *)
LEMMA ConcatHas ==
    ASSUME NEW S, NEW s \in Seq(S), NEW t \in Seq(S), NEW e
    PROVE  Contains(s \o t, e) <=> Contains(s, e) \/ Contains(t, e)
<1>1. ASSUME Contains(s, e) PROVE Contains(s \o t, e)
  BY <1>1 DEF Contains
<1>2. ASSUME Contains(t, e) PROVE Contains(s \o t, e)
  <2>1. PICK i \in 1 .. Len(t) : t[i] = e
    BY <1>2 DEF Contains
  <2>2. Len(s) + i \in 1 .. Len(s \o t) /\ (s \o t)[Len(s) + i] = e
    BY <2>1
  <2> QED BY <2>2 DEF Contains
<1>3. ASSUME Contains(s \o t, e) PROVE Contains(s, e) \/ Contains(t, e)
  <2>1. PICK i \in 1 .. Len(s \o t) : (s \o t)[i] = e
    BY <1>3 DEF Contains
  <2>2. CASE i <= Len(s)
    BY <2>1, <2>2 DEF Contains
  <2>3. CASE i > Len(s)
    <3>1. i - Len(s) \in 1 .. Len(t) /\ t[i - Len(s)] = e
      BY <2>1, <2>3
    <3> QED BY <3>1 DEF Contains
  <2> QED BY <2>2, <2>3
<1> QED BY <1>1, <1>2, <1>3

(* Two sequences of one element. *)
LEMMA ConcatPair ==
    ASSUME NEW x, NEW y
    PROVE  <<x>> \o <<y>> = <<x, y>>
<1>1. <<x>> \in Seq({x, y}) /\ <<y>> \in Seq({x, y})
  OBVIOUS
<1>2. PICK s : s = <<x>> \o <<y>>
  OBVIOUS
<1>3. s \in Seq({x, y}) /\ Len(s) = 2 /\ s[1] = x /\ s[2] = y
  BY <1>1, <1>2
<1>4. s = <<x, y>>
  BY <1>3
<1> QED BY <1>2, <1>4

-----------------------------------------------------------------------------
(***************************************************************************)
(* The action that makes a call.                                           *)
(***************************************************************************)
(* A step makes one call, whose name tells the action, or none. *)
LEMMA MadeBy ==
    ASSUME [Next]_call
    PROVE  \/ UNCHANGED call
           \/ call' = Idle
           \/ RouteRequest /\ Made("route")'
           \/ ReadParams /\ Made("params")'
           \/ ReadTimeRange /\ Made("range")'
           \/ SplitWindow /\ Made("window")'
           \/ ResolveLabel /\ Made("label")'
           \/ UseAdvertised /\ Made("advertised")'
           \/ ReadStatement /\ Made("statement")'
           \/ ParseLogQuery /\ Made("logql")'
           \/ ParseTraceQuery /\ Made("traceql")'
           \/ ParsePromQuery /\ Made("promql")'
           \/ MatchRow /\ Made("match")'
           \/ QueryLogs /\ Made("logs")'
           \/ QueryMetrics /\ Made("instant")'
           \/ QueryMetricRange /\ Made("series")'
           \/ SearchTraces /\ Made("search")'
           \/ RenderSpan /\ Made("span")'
           \/ LoadConfig /\ Made("config")'
           \/ AttachCatalog /\ Made("attach")'
<1>0. \A name, in, out : Call(name, in, out) => Made(name)'
  BY DEF Made, Call
<1>1. RouteRequest => Made("route")'
  BY <1>0 DEF RouteRequest
<1>2. ReadParams => Made("params")'
  BY <1>0 DEF ReadParams
<1>3. ReadTimeRange => Made("range")'
  BY <1>0 DEF ReadTimeRange
<1>4. SplitWindow => Made("window")'
  BY <1>0 DEF SplitWindow
<1>5. ResolveLabel => Made("label")'
  BY <1>0 DEF ResolveLabel
<1>6. UseAdvertised => Made("advertised")'
  BY <1>0 DEF UseAdvertised
<1>7. ReadStatement => Made("statement")'
  BY <1>0 DEF ReadStatement
<1>8. ParseLogQuery => Made("logql")'
  BY <1>0 DEF ParseLogQuery
<1>9. ParseTraceQuery => Made("traceql")'
  BY <1>0 DEF ParseTraceQuery
<1>10. ParsePromQuery => Made("promql")'
  BY <1>0 DEF ParsePromQuery
<1>11. MatchRow => Made("match")'
  BY <1>0 DEF MatchRow
<1>12. QueryLogs => Made("logs")'
  BY <1>0 DEF QueryLogs
<1>13. QueryMetrics => Made("instant")'
  BY <1>0 DEF QueryMetrics
<1>14. QueryMetricRange => Made("series")'
  BY <1>0 DEF QueryMetricRange
<1>15. SearchTraces => Made("search")'
  BY <1>0 DEF SearchTraces
<1>16. RenderSpan => Made("span")'
  BY <1>0 DEF RenderSpan
<1>17. LoadConfig => Made("config")'
  BY <1>0 DEF LoadConfig
<1>18. AttachCatalog => Made("attach")'
  BY <1>0 DEF AttachCatalog
<1>19. Return => call' = Idle
  BY DEF Return
<1> QED BY <1>1, <1>2, <1>3, <1>4, <1>5, <1>6, <1>7, <1>8, <1>9, <1>10, <1>11, <1>12, <1>13,
           <1>14, <1>15, <1>16, <1>17, <1>18, <1>19 DEF Next
-----------------------------------------------------------------------------
(***************************************************************************)
(* The table of routes.                                                    *)
(***************************************************************************)
(* The segments of a path that matches a route, by the route's place in    *)
(* the table.                                                              *)
LEMMA MatchingPath ==
    ASSUME NEW i \in 1 .. 19, NEW path \in Seq(STRING),
           R!PathMatches(R!COMPAT_ROUTES[i].pattern, path)
    PROVE  /\ i = 1 => Len(path) = 3 /\ path[1] = "api" /\ path[2] = "v1" /\ path[3] = "query"
           /\ i = 2 => Len(path) = 3 /\ path[1] = "api" /\ path[2] = "v1" /\ path[3] = "query_range"
           /\ i = 3 => Len(path) = 3 /\ path[1] = "api" /\ path[2] = "v1" /\ path[3] = "labels"
           /\ i = 4 => Len(path) = 3 /\ path[1] = "api" /\ path[2] = "v1" /\ path[3] = "series"
           /\ i = 5 => Len(path) = 3 /\ path[1] = "api" /\ path[2] = "v1" /\ path[3] = "metadata"
           /\ i = 6 => Len(path) = 5 /\ path[1] = "api" /\ path[2] = "v1" /\ path[3] = "label" /\ path[4] # R!Empty /\ path[5] = "values"
           /\ i = 7 => Len(path) = 4 /\ path[1] = "loki" /\ path[2] = "api" /\ path[3] = "v1" /\ path[4] = "query"
           /\ i = 8 => Len(path) = 4 /\ path[1] = "loki" /\ path[2] = "api" /\ path[3] = "v1" /\ path[4] = "query_range"
           /\ i = 9 => Len(path) = 4 /\ path[1] = "loki" /\ path[2] = "api" /\ path[3] = "v1" /\ path[4] = "labels"
           /\ i = 10 => Len(path) = 4 /\ path[1] = "loki" /\ path[2] = "api" /\ path[3] = "v1" /\ path[4] = "series"
           /\ i = 11 => Len(path) = 6 /\ path[1] = "loki" /\ path[2] = "api" /\ path[3] = "v1" /\ path[4] = "label" /\ path[5] # R!Empty /\ path[6] = "values"
           /\ i = 12 => Len(path) = 2 /\ path[1] = "api" /\ path[2] = "search"
           /\ i = 13 => Len(path) = 3 /\ path[1] = "api" /\ path[2] = "search" /\ path[3] = "tags"
           /\ i = 14 => Len(path) = 4 /\ path[1] = "api" /\ path[2] = "v2" /\ path[3] = "search" /\ path[4] = "tags"
           /\ i = 15 => Len(path) = 4 /\ path[1] = "api" /\ path[2] = "v2" /\ path[3] = "traces" /\ path[4] # R!Empty
           /\ i = 16 => Len(path) = 3 /\ path[1] = "api" /\ path[2] = "traces" /\ path[3] # R!Empty
           /\ i = 17 => Len(path) = 5 /\ path[1] = "api" /\ path[2] = "search" /\ path[3] = "tag" /\ path[4] # R!Empty /\ path[5] = "values"
           /\ i = 18 => Len(path) = 6 /\ path[1] = "api" /\ path[2] = "v2" /\ path[3] = "search" /\ path[4] = "tag" /\ path[5] # R!Empty /\ path[6] = "values"
           /\ i = 19 => Len(path) = 3 /\ path[1] = "api" /\ path[2] = "status" /\ path[3] = "buildinfo"
<1>1. ASSUME i = 1 PROVE Len(path) = 3 /\ path[1] = "api" /\ path[2] = "v1" /\ path[3] = "query"
  <2>1. R!COMPAT_ROUTES[i].pattern = <<"api", "v1", "query">>
    BY <1>1 DEF R!COMPAT_ROUTES, R!Route
  <2> QED BY <2>1 DEF R!Param, R!PathMatches
<1>2. ASSUME i = 2 PROVE Len(path) = 3 /\ path[1] = "api" /\ path[2] = "v1" /\ path[3] = "query_range"
  <2>1. R!COMPAT_ROUTES[i].pattern = <<"api", "v1", "query_range">>
    BY <1>2 DEF R!COMPAT_ROUTES, R!Route
  <2> QED BY <2>1 DEF R!Param, R!PathMatches
<1>3. ASSUME i = 3 PROVE Len(path) = 3 /\ path[1] = "api" /\ path[2] = "v1" /\ path[3] = "labels"
  <2>1. R!COMPAT_ROUTES[i].pattern = <<"api", "v1", "labels">>
    BY <1>3 DEF R!COMPAT_ROUTES, R!Route
  <2> QED BY <2>1 DEF R!Param, R!PathMatches
<1>4. ASSUME i = 4 PROVE Len(path) = 3 /\ path[1] = "api" /\ path[2] = "v1" /\ path[3] = "series"
  <2>1. R!COMPAT_ROUTES[i].pattern = <<"api", "v1", "series">>
    BY <1>4 DEF R!COMPAT_ROUTES, R!Route
  <2> QED BY <2>1 DEF R!Param, R!PathMatches
<1>5. ASSUME i = 5 PROVE Len(path) = 3 /\ path[1] = "api" /\ path[2] = "v1" /\ path[3] = "metadata"
  <2>1. R!COMPAT_ROUTES[i].pattern = <<"api", "v1", "metadata">>
    BY <1>5 DEF R!COMPAT_ROUTES, R!Route
  <2> QED BY <2>1 DEF R!Param, R!PathMatches
<1>6. ASSUME i = 6 PROVE Len(path) = 5 /\ path[1] = "api" /\ path[2] = "v1" /\ path[3] = "label" /\ path[4] # R!Empty /\ path[5] = "values"
  <2>1. R!COMPAT_ROUTES[i].pattern = <<"api", "v1", "label", R!Param, "values">>
    BY <1>6 DEF R!COMPAT_ROUTES, R!Route
  <2> QED BY <2>1 DEF R!Param, R!PathMatches
<1>7. ASSUME i = 7 PROVE Len(path) = 4 /\ path[1] = "loki" /\ path[2] = "api" /\ path[3] = "v1" /\ path[4] = "query"
  <2>1. R!COMPAT_ROUTES[i].pattern = <<"loki", "api", "v1", "query">>
    BY <1>7 DEF R!COMPAT_ROUTES, R!Route
  <2> QED BY <2>1 DEF R!Param, R!PathMatches
<1>8. ASSUME i = 8 PROVE Len(path) = 4 /\ path[1] = "loki" /\ path[2] = "api" /\ path[3] = "v1" /\ path[4] = "query_range"
  <2>1. R!COMPAT_ROUTES[i].pattern = <<"loki", "api", "v1", "query_range">>
    BY <1>8 DEF R!COMPAT_ROUTES, R!Route
  <2> QED BY <2>1 DEF R!Param, R!PathMatches
<1>9. ASSUME i = 9 PROVE Len(path) = 4 /\ path[1] = "loki" /\ path[2] = "api" /\ path[3] = "v1" /\ path[4] = "labels"
  <2>1. R!COMPAT_ROUTES[i].pattern = <<"loki", "api", "v1", "labels">>
    BY <1>9 DEF R!COMPAT_ROUTES, R!Route
  <2> QED BY <2>1 DEF R!Param, R!PathMatches
<1>10. ASSUME i = 10 PROVE Len(path) = 4 /\ path[1] = "loki" /\ path[2] = "api" /\ path[3] = "v1" /\ path[4] = "series"
  <2>1. R!COMPAT_ROUTES[i].pattern = <<"loki", "api", "v1", "series">>
    BY <1>10 DEF R!COMPAT_ROUTES, R!Route
  <2> QED BY <2>1 DEF R!Param, R!PathMatches
<1>11. ASSUME i = 11 PROVE Len(path) = 6 /\ path[1] = "loki" /\ path[2] = "api" /\ path[3] = "v1" /\ path[4] = "label" /\ path[5] # R!Empty /\ path[6] = "values"
  <2>1. R!COMPAT_ROUTES[i].pattern = <<"loki", "api", "v1", "label", R!Param, "values">>
    BY <1>11 DEF R!COMPAT_ROUTES, R!Route
  <2> QED BY <2>1 DEF R!Param, R!PathMatches
<1>12. ASSUME i = 12 PROVE Len(path) = 2 /\ path[1] = "api" /\ path[2] = "search"
  <2>1. R!COMPAT_ROUTES[i].pattern = <<"api", "search">>
    BY <1>12 DEF R!COMPAT_ROUTES, R!Route
  <2> QED BY <2>1 DEF R!Param, R!PathMatches
<1>13. ASSUME i = 13 PROVE Len(path) = 3 /\ path[1] = "api" /\ path[2] = "search" /\ path[3] = "tags"
  <2>1. R!COMPAT_ROUTES[i].pattern = <<"api", "search", "tags">>
    BY <1>13 DEF R!COMPAT_ROUTES, R!Route
  <2> QED BY <2>1 DEF R!Param, R!PathMatches
<1>14. ASSUME i = 14 PROVE Len(path) = 4 /\ path[1] = "api" /\ path[2] = "v2" /\ path[3] = "search" /\ path[4] = "tags"
  <2>1. R!COMPAT_ROUTES[i].pattern = <<"api", "v2", "search", "tags">>
    BY <1>14 DEF R!COMPAT_ROUTES, R!Route
  <2> QED BY <2>1 DEF R!Param, R!PathMatches
<1>15. ASSUME i = 15 PROVE Len(path) = 4 /\ path[1] = "api" /\ path[2] = "v2" /\ path[3] = "traces" /\ path[4] # R!Empty
  <2>1. R!COMPAT_ROUTES[i].pattern = <<"api", "v2", "traces", R!Param>>
    BY <1>15 DEF R!COMPAT_ROUTES, R!Route
  <2> QED BY <2>1 DEF R!Param, R!PathMatches
<1>16. ASSUME i = 16 PROVE Len(path) = 3 /\ path[1] = "api" /\ path[2] = "traces" /\ path[3] # R!Empty
  <2>1. R!COMPAT_ROUTES[i].pattern = <<"api", "traces", R!Param>>
    BY <1>16 DEF R!COMPAT_ROUTES, R!Route
  <2> QED BY <2>1 DEF R!Param, R!PathMatches
<1>17. ASSUME i = 17 PROVE Len(path) = 5 /\ path[1] = "api" /\ path[2] = "search" /\ path[3] = "tag" /\ path[4] # R!Empty /\ path[5] = "values"
  <2>1. R!COMPAT_ROUTES[i].pattern = <<"api", "search", "tag", R!Param, "values">>
    BY <1>17 DEF R!COMPAT_ROUTES, R!Route
  <2> QED BY <2>1 DEF R!Param, R!PathMatches
<1>18. ASSUME i = 18 PROVE Len(path) = 6 /\ path[1] = "api" /\ path[2] = "v2" /\ path[3] = "search" /\ path[4] = "tag" /\ path[5] # R!Empty /\ path[6] = "values"
  <2>1. R!COMPAT_ROUTES[i].pattern = <<"api", "v2", "search", "tag", R!Param, "values">>
    BY <1>18 DEF R!COMPAT_ROUTES, R!Route
  <2> QED BY <2>1 DEF R!Param, R!PathMatches
<1>19. ASSUME i = 19 PROVE Len(path) = 3 /\ path[1] = "api" /\ path[2] = "status" /\ path[3] = "buildinfo"
  <2>1. R!COMPAT_ROUTES[i].pattern = <<"api", "status", "buildinfo">>
    BY <1>19 DEF R!COMPAT_ROUTES, R!Route
  <2> QED BY <2>1 DEF R!Param, R!PathMatches
<1> QED BY <1>1, <1>2, <1>3, <1>4, <1>5, <1>6, <1>7, <1>8, <1>9, <1>10, <1>11, <1>12, <1>13, <1>14, <1>15, <1>16, <1>17, <1>18, <1>19

(* No path matches two routes: two patterns of the same length differ in a *)
(* segment that is a parameter in neither.                                 *)
LEMMA MatchUnique ==
    ASSUME NEW path \in Seq(STRING), NEW i \in 1 .. 19, NEW j \in 1 .. 19,
           R!PathMatches(R!COMPAT_ROUTES[i].pattern, path),
           R!PathMatches(R!COMPAT_ROUTES[j].pattern, path)
    PROVE  i = j
<1> DEFINE Of(n) == /\ n = 1 => Len(path) = 3 /\ path[1] = "api" /\ path[2] = "v1" /\ path[3] = "query"
                    /\ n = 2 => Len(path) = 3 /\ path[1] = "api" /\ path[2] = "v1" /\ path[3] = "query_range"
                    /\ n = 3 => Len(path) = 3 /\ path[1] = "api" /\ path[2] = "v1" /\ path[3] = "labels"
                    /\ n = 4 => Len(path) = 3 /\ path[1] = "api" /\ path[2] = "v1" /\ path[3] = "series"
                    /\ n = 5 => Len(path) = 3 /\ path[1] = "api" /\ path[2] = "v1" /\ path[3] = "metadata"
                    /\ n = 6 => Len(path) = 5 /\ path[1] = "api" /\ path[2] = "v1" /\ path[3] = "label" /\ path[4] # R!Empty /\ path[5] = "values"
                    /\ n = 7 => Len(path) = 4 /\ path[1] = "loki" /\ path[2] = "api" /\ path[3] = "v1" /\ path[4] = "query"
                    /\ n = 8 => Len(path) = 4 /\ path[1] = "loki" /\ path[2] = "api" /\ path[3] = "v1" /\ path[4] = "query_range"
                    /\ n = 9 => Len(path) = 4 /\ path[1] = "loki" /\ path[2] = "api" /\ path[3] = "v1" /\ path[4] = "labels"
                    /\ n = 10 => Len(path) = 4 /\ path[1] = "loki" /\ path[2] = "api" /\ path[3] = "v1" /\ path[4] = "series"
                    /\ n = 11 => Len(path) = 6 /\ path[1] = "loki" /\ path[2] = "api" /\ path[3] = "v1" /\ path[4] = "label" /\ path[5] # R!Empty /\ path[6] = "values"
                    /\ n = 12 => Len(path) = 2 /\ path[1] = "api" /\ path[2] = "search"
                    /\ n = 13 => Len(path) = 3 /\ path[1] = "api" /\ path[2] = "search" /\ path[3] = "tags"
                    /\ n = 14 => Len(path) = 4 /\ path[1] = "api" /\ path[2] = "v2" /\ path[3] = "search" /\ path[4] = "tags"
                    /\ n = 15 => Len(path) = 4 /\ path[1] = "api" /\ path[2] = "v2" /\ path[3] = "traces" /\ path[4] # R!Empty
                    /\ n = 16 => Len(path) = 3 /\ path[1] = "api" /\ path[2] = "traces" /\ path[3] # R!Empty
                    /\ n = 17 => Len(path) = 5 /\ path[1] = "api" /\ path[2] = "search" /\ path[3] = "tag" /\ path[4] # R!Empty /\ path[5] = "values"
                    /\ n = 18 => Len(path) = 6 /\ path[1] = "api" /\ path[2] = "v2" /\ path[3] = "search" /\ path[4] = "tag" /\ path[5] # R!Empty /\ path[6] = "values"
                    /\ n = 19 => Len(path) = 3 /\ path[1] = "api" /\ path[2] = "status" /\ path[3] = "buildinfo"
<1>1. Of(i)
  BY MatchingPath
<1>2. Of(j)
  BY MatchingPath
<1> QED BY <1>1, <1>2

(* The table has 19 routes. *)
LEMMA RouteDomain == DOMAIN R!COMPAT_ROUTES = 1 .. 19
BY DEF R!COMPAT_ROUTES

(* A handler that needs a parameter is reached by routes that have one.    *)
LEMMA NeedsHaveParam ==
    ASSUME NEW i \in 1 .. 19, R!COMPAT_ROUTES[i].handler \in R!NeedsParam
    PROVE  \E k \in 1 .. Len(R!COMPAT_ROUTES[i].pattern) : k \in DOMAIN R!COMPAT_ROUTES[i].pattern /\ R!COMPAT_ROUTES[i].pattern[k] = R!Param
<1>1. i \in {6, 11, 15, 16, 17, 18}
  <2>1. R!COMPAT_ROUTES[1].handler = "PrometheusQuery"
    BY DEF R!COMPAT_ROUTES, R!Route
  <2>2. R!COMPAT_ROUTES[2].handler = "PrometheusQueryRange"
    BY DEF R!COMPAT_ROUTES, R!Route
  <2>3. R!COMPAT_ROUTES[3].handler = "PrometheusLabels"
    BY DEF R!COMPAT_ROUTES, R!Route
  <2>4. R!COMPAT_ROUTES[4].handler = "PrometheusSeries"
    BY DEF R!COMPAT_ROUTES, R!Route
  <2>5. R!COMPAT_ROUTES[5].handler = "PrometheusMetadata"
    BY DEF R!COMPAT_ROUTES, R!Route
  <2>7. R!COMPAT_ROUTES[7].handler = "LokiQuery"
    BY DEF R!COMPAT_ROUTES, R!Route
  <2>8. R!COMPAT_ROUTES[8].handler = "LokiQueryRange"
    BY DEF R!COMPAT_ROUTES, R!Route
  <2>9. R!COMPAT_ROUTES[9].handler = "LokiLabels"
    BY DEF R!COMPAT_ROUTES, R!Route
  <2>10. R!COMPAT_ROUTES[10].handler = "LokiSeries"
    BY DEF R!COMPAT_ROUTES, R!Route
  <2>12. R!COMPAT_ROUTES[12].handler = "TempoSearch"
    BY DEF R!COMPAT_ROUTES, R!Route
  <2>13. R!COMPAT_ROUTES[13].handler = "TempoTags"
    BY DEF R!COMPAT_ROUTES, R!Route
  <2>14. R!COMPAT_ROUTES[14].handler = "TempoTags"
    BY DEF R!COMPAT_ROUTES, R!Route
  <2>19. R!COMPAT_ROUTES[19].handler = "BuildInfo"
    BY DEF R!COMPAT_ROUTES, R!Route
  <2> QED BY <2>1, <2>2, <2>3, <2>4, <2>5, <2>7, <2>8, <2>9, <2>10, <2>12, <2>13, <2>14, <2>19 DEF R!NeedsParam
<1>2. ASSUME i = 6 PROVE \E k \in 1 .. Len(R!COMPAT_ROUTES[i].pattern) : k \in DOMAIN R!COMPAT_ROUTES[i].pattern /\ R!COMPAT_ROUTES[i].pattern[k] = R!Param
  <2>1. R!COMPAT_ROUTES[i].pattern = <<"api", "v1", "label", R!Param, "values">>
    BY <1>2 DEF R!COMPAT_ROUTES, R!Route
  <2>2. 4 \in 1 .. Len(R!COMPAT_ROUTES[i].pattern) /\ 4 \in DOMAIN R!COMPAT_ROUTES[i].pattern /\ R!COMPAT_ROUTES[i].pattern[4] = R!Param
    BY <2>1
  <2> QED BY <2>2
<1>3. ASSUME i = 11 PROVE \E k \in 1 .. Len(R!COMPAT_ROUTES[i].pattern) : k \in DOMAIN R!COMPAT_ROUTES[i].pattern /\ R!COMPAT_ROUTES[i].pattern[k] = R!Param
  <2>1. R!COMPAT_ROUTES[i].pattern = <<"loki", "api", "v1", "label", R!Param, "values">>
    BY <1>3 DEF R!COMPAT_ROUTES, R!Route
  <2>2. 5 \in 1 .. Len(R!COMPAT_ROUTES[i].pattern) /\ 5 \in DOMAIN R!COMPAT_ROUTES[i].pattern /\ R!COMPAT_ROUTES[i].pattern[5] = R!Param
    BY <2>1
  <2> QED BY <2>2
<1>4. ASSUME i = 15 PROVE \E k \in 1 .. Len(R!COMPAT_ROUTES[i].pattern) : k \in DOMAIN R!COMPAT_ROUTES[i].pattern /\ R!COMPAT_ROUTES[i].pattern[k] = R!Param
  <2>1. R!COMPAT_ROUTES[i].pattern = <<"api", "v2", "traces", R!Param>>
    BY <1>4 DEF R!COMPAT_ROUTES, R!Route
  <2>2. 4 \in 1 .. Len(R!COMPAT_ROUTES[i].pattern) /\ 4 \in DOMAIN R!COMPAT_ROUTES[i].pattern /\ R!COMPAT_ROUTES[i].pattern[4] = R!Param
    BY <2>1
  <2> QED BY <2>2
<1>5. ASSUME i = 16 PROVE \E k \in 1 .. Len(R!COMPAT_ROUTES[i].pattern) : k \in DOMAIN R!COMPAT_ROUTES[i].pattern /\ R!COMPAT_ROUTES[i].pattern[k] = R!Param
  <2>1. R!COMPAT_ROUTES[i].pattern = <<"api", "traces", R!Param>>
    BY <1>5 DEF R!COMPAT_ROUTES, R!Route
  <2>2. 3 \in 1 .. Len(R!COMPAT_ROUTES[i].pattern) /\ 3 \in DOMAIN R!COMPAT_ROUTES[i].pattern /\ R!COMPAT_ROUTES[i].pattern[3] = R!Param
    BY <2>1
  <2> QED BY <2>2
<1>6. ASSUME i = 17 PROVE \E k \in 1 .. Len(R!COMPAT_ROUTES[i].pattern) : k \in DOMAIN R!COMPAT_ROUTES[i].pattern /\ R!COMPAT_ROUTES[i].pattern[k] = R!Param
  <2>1. R!COMPAT_ROUTES[i].pattern = <<"api", "search", "tag", R!Param, "values">>
    BY <1>6 DEF R!COMPAT_ROUTES, R!Route
  <2>2. 4 \in 1 .. Len(R!COMPAT_ROUTES[i].pattern) /\ 4 \in DOMAIN R!COMPAT_ROUTES[i].pattern /\ R!COMPAT_ROUTES[i].pattern[4] = R!Param
    BY <2>1
  <2> QED BY <2>2
<1>7. ASSUME i = 18 PROVE \E k \in 1 .. Len(R!COMPAT_ROUTES[i].pattern) : k \in DOMAIN R!COMPAT_ROUTES[i].pattern /\ R!COMPAT_ROUTES[i].pattern[k] = R!Param
  <2>1. R!COMPAT_ROUTES[i].pattern = <<"api", "v2", "search", "tag", R!Param, "values">>
    BY <1>7 DEF R!COMPAT_ROUTES, R!Route
  <2>2. 5 \in 1 .. Len(R!COMPAT_ROUTES[i].pattern) /\ 5 \in DOMAIN R!COMPAT_ROUTES[i].pattern /\ R!COMPAT_ROUTES[i].pattern[5] = R!Param
    BY <2>1
  <2> QED BY <2>2
<1> QED BY <1>1, <1>2, <1>3, <1>4, <1>5, <1>6, <1>7

(* match_compat_route finds a route that matches, if there is one.         *)
LEMMA CompatRouteMatches ==
    ASSUME NEW method, NEW path, R!CompatRoute(method, path) # 0
    PROVE  R!CompatRoute(method, path) \in R!Matches(method, path)
<1> DEFINE M == R!Matches(method, path)
<1>1. M \in SUBSET Nat
  BY RouteDomain DEF R!Matches
<1>2. M # {}
  BY DEF R!CompatRoute
<1> HIDE DEF M
<1>3. \E i \in M : \A j \in M : i <= j
  BY <1>1, <1>2, NatMin
<1> QED BY <1>2, <1>3 DEF R!CompatRoute, M

(* So at most one route matches a request. *)
LEMMA MatchesSingle ==
    ASSUME NEW method, NEW path \in Seq(STRING)
    PROVE  Cardinality(R!Matches(method, path)) <= 1
<1> DEFINE M == R!Matches(method, path)
<1>1. \A i, j \in M : i = j
  BY RouteDomain, MatchUnique DEF R!Matches
<1> HIDE DEF M
<1>2. CASE M = {}
  BY <1>2, FS_EmptySet DEF M
<1>3. CASE M # {}
  <2>0. PICK i \in M : TRUE
    BY <1>3
  <2>1. M = {i}
    BY <1>1, <2>0
  <2>2. Cardinality(M) = 1
    BY <2>1, FS_Singleton
  <2> QED BY <2>2 DEF M
<1> QED BY <1>2, <1>3

-----------------------------------------------------------------------------
(***************************************************************************)
(* Requests.                                                               *)
(***************************************************************************)
(* match_compat_route and compat_value. *)
LEMMA RouteStep ==
    ASSUME RouteRequest
    PROVE  OneRoutePerRequest' /\ ParamNeverMissing'
<1>1. PICK method \in Methods, path \in Paths :
        call' = [of |-> "route", in |-> [method |-> method, path |-> path],
                 out |-> [endpoint |-> R!Endpoint(method, path), route |-> R!CompatRoute(method, path)]]
  BY DEF RouteRequest, Call
<1>2. path \in Seq(STRING)
  BY RequestAssumption
<1>3. call'.in.method = method /\ call'.in.path = path /\ call'.out.route = R!CompatRoute(method, path)
  BY <1>1
<1>4. OneRoutePerRequest'
  <2>1. Cardinality(R!Matches(method, path)) <= 1
    BY <1>2, MatchesSingle
  <2> QED BY <2>1, <1>3 DEF OneRoutePerRequest
<1>5. ParamNeverMissing'
  <2> DEFINE i == R!CompatRoute(method, path)
             route == R!COMPAT_ROUTES[i]
  <2>1. SUFFICES ASSUME i # 0, route.handler \in R!NeedsParam
                 PROVE  \E k \in DOMAIN route.pattern : route.pattern[k] = R!Param /\ path[k] # R!Empty
    BY <1>3, Zenon DEF ParamNeverMissing
  <2>2. i \in 1 .. 19 /\ R!PathMatches(route.pattern, path)
    BY <2>1, CompatRouteMatches, RouteDomain DEF R!Matches
  <2> HIDE DEF i
  <2>3. PICK k \in 1 .. Len(route.pattern) : k \in DOMAIN route.pattern /\ route.pattern[k] = R!Param
    BY <2>1, <2>2, NeedsHaveParam
  <2>4. k \in DOMAIN path
    BY <2>2, <2>3, <1>2 DEF R!PathMatches
  <2> QED BY <2>2, <2>3, <2>4 DEF R!PathMatches
<1> QED BY <1>4, <1>5

(* request_params: a later pair replaces a value, and removes no key. *)
LEMMA ParamsStep ==
    ASSUME ReadParams
    PROVE  BodyNeverErases'
<1>1. PICK query \in QueryParams, body \in Bodies :
        call' = [of |-> "params", in |-> [query |-> query, body |-> body],
                 out |-> R!RequestParams(query, body.type, body.pairs)]
  BY DEF ReadParams, Call
<1> DEFINE pairs == body.pairs
           kept == {i \in DOMAIN pairs : body.type = "application/json" => pairs[i][2] # R!Null}
           params == R!InsertAll(query, pairs, kept)
<1>2. call'.in.query = query /\ call'.out = params
  BY <1>1 DEF R!RequestParams
<1>3. pairs \in Seq(STRING \X STRING)
  BY RequestAssumption
<1>4. \A i \in kept : pairs[i][2] # R!Null
  BY RequestAssumption
<1>5. DOMAIN params = DOMAIN query \cup {pairs[i][1] : i \in kept}
  BY DEF R!InsertAll
<1>6. ASSUME NEW key \in DOMAIN params
      PROVE  params[key] # R!Null
  <2> DEFINE at == {i \in kept : pairs[i][1] = key}
  <2>1. params[key] = IF at = {} THEN query[key]
                      ELSE pairs[CHOOSE i \in at : \A j \in at : j <= i][2]
    BY <1>5 DEF R!InsertAll
  <2>2. CASE at = {}
    <3>1. key \in DOMAIN query
      BY <2>2, <1>5
    <3> QED BY <2>1, <2>2, <3>1, RequestAssumption
  <2>3. CASE at # {}
    <3>1. Len(pairs) \in Nat /\ at \in SUBSET (0 .. Len(pairs))
      BY <1>3
    <3> HIDE DEF at
    <3>2. \E i \in at : \A j \in at : j <= i
      BY <2>3, <3>1, NatMax
    <3>3. (CHOOSE i \in at : \A j \in at : j <= i) \in at
      BY <3>2
    <3>4. (CHOOSE i \in at : \A j \in at : j <= i) \in kept
      BY <3>3 DEF at
    <3> QED BY <2>1, <2>3, <3>4, <1>4
  <2> QED BY <2>2, <2>3
<1> QED BY <1>2, <1>5, <1>6, Zenon DEF BodyNeverErases

(* optional_range and validate_range. *)
LEMMA RangeStep ==
    ASSUME ReadTimeRange
    PROVE  RangesBounded' /\ EndAloneIsAccepted'
<1>1. PICK p \in TimeParams :
        call' = [of |-> "range", in |-> p, out |-> V!OptionalRange(p, Now, MaxRangeSecs)]
  BY DEF ReadTimeRange, Call
<1>2. /\ IsOption(p.start, [parses : BOOLEAN, time : Int])
      /\ IsOption(p.end, [parses : BOOLEAN, time : Int])
      /\ IsOption(p.from, [parses : BOOLEAN, time : Int])
      /\ IsOption(p.to, [parses : BOOLEAN, time : Int])
  BY TimeAssumption
<1> DEFINE Times == [parses : BOOLEAN, time : Int]
<1>3. ASSUME NEW o, IsOption(o, Times)
      PROVE  V!ParsedTime(o) = <<>> \/ \E t \in Int : V!ParsedTime(o) = <<t>>
  <2>1. o # <<>> => o[1] \in Times
    BY <1>3, OptionCases
  <2>2. o # <<>> => o[1].time \in Int
    BY <2>1
  <2> QED BY <2>2 DEF V!ParsedTime, V!Bad, V!None, V!Some, V!IsSome, V!Value
<1>4. ASSUME NEW a, NEW b, NEW t \in Int, IsOption(a, Times), IsOption(b, Times)
      PROVE  V!FirstTime(a, b, t) \in Int
  <2>1. V!ParsedTime(a) = <<>> \/ \E u \in Int : V!ParsedTime(a) = <<u>>
    BY <1>3, <1>4
  <2>2. V!ParsedTime(b) = <<>> \/ \E u \in Int : V!ParsedTime(b) = <<u>>
    BY <1>3, <1>4
  <2> QED BY <2>1, <2>2 DEF V!FirstTime, V!UnwrapOr, V!OrElse
<1> DEFINE to == V!FirstTime(p.end, p.to, Now)
           from == V!FirstTime(p.start, p.from, to - V!Hour)
           status == IF V!Bad(p.end) \/ V!Bad(p.start) THEN "invalid_time_range"
                     ELSE V!ValidateRange(from, to, MaxRangeSecs)
<1>5. to \in Int /\ from \in Int
  <2>1. to \in Int
    BY <1>2, <1>4, TimeAssumption
  <2>2. to - V!Hour \in Int
    BY <2>1 DEF V!Hour, V!TicksPerSecond
  <2> HIDE DEF to
  <2> QED BY <2>1, <2>2, <1>2, <1>4
<1>6. call'.in = p /\ call'.out.from = from /\ call'.out.to = to /\ call'.out.status = status
  BY <1>1 DEF V!OptionalRange
<1>7. status = "ok" => from < to /\ (to - from) \div 2 <= MaxRangeSecs
  <2> HIDE DEF to, from
  <2> QED BY <1>5, TimeAssumption DEF V!ValidateRange, V!NumSeconds, V!TicksPerSecond
<1>8. RangesBounded'
  <2> HIDE DEF to, from, status
  <2>1. status = "ok" => from < to /\ to - from < (MaxRangeSecs + 1) * 2
    BY <1>5, <1>7, TimeAssumption
  <2> QED BY <2>1, <1>6 DEF RangesBounded, V!TicksPerSecond
<1>9. EndAloneIsAccepted'
  <2> SUFFICES ASSUME p.start = None, p.from = None, IsSome(p.end), ~V!Bad(p.end), 3600 <= MaxRangeSecs
               PROVE  status = "ok"
    BY <1>6 DEF EndAloneIsAccepted
  <2>1. from = to - V!Hour /\ ~V!Bad(p.start)
    BY DEF V!FirstTime, V!UnwrapOr, V!OrElse, V!ParsedTime, V!None, None, V!Bad, V!IsSome
  <2> HIDE DEF to, from
  <2>2. to - from = 7200 /\ from < to
    BY <2>1, <1>5 DEF V!Hour, V!TicksPerSecond
  <2>3. (to - from) \div 2 = 3600
    BY <2>2
  <2> QED BY <2>1, <2>2, <2>3, <1>5, TimeAssumption DEF V!ValidateRange, V!NumSeconds, V!TicksPerSecond
<1> QED BY <1>8, <1>9

(* A request reaches at most one handler, with the parameter that handler  *)
(* unwraps; a body takes no parameter away; an accepted time range is      *)
(* bounded, and an end alone is accepted (match_compat_route,              *)
(* request_params, optional_range), for all paths, bodies and times.       *)
THEOREM RequestsAlwaysSound == Spec => []RequestsSound
<1> USE DEF RequestsSound, OneRoutePerRequest, ParamNeverMissing, BodyNeverErases,
            RangesBounded, EndAloneIsAccepted
<1>1. Init => RequestsSound
  BY DEF Init, Idle, Made
<1>2. RequestsSound /\ [Next]_call => RequestsSound'
  <2> SUFFICES ASSUME RequestsSound, [Next]_call PROVE RequestsSound'
    OBVIOUS
  <2> QED BY MadeBy, RouteStep, ParamsStep, RangeStep DEF Idle, Made
<1> QED BY <1>1, <1>2, PTL DEF Spec

-----------------------------------------------------------------------------
(***************************************************************************)
(* Start-up: the configuration.                                            *)
(***************************************************************************)
(* A configuration the process starts with is validated, and its settings  *)
(* other than the two that serve and from_env touch are those of the       *)
(* layers.                                                                 *)
LEMMA ServeConfig ==
    ASSUME NEW layers, NEW listen, IsSome(serve(layers, listen)),
           NEW c, c = Value(serve(layers, listen))
    PROVE  /\ validate(c)
           /\ c.api_key = Settings(layers)["api_key"].value
           /\ c.admin_api_key = Settings(layers)["admin_api_key"].value
           /\ c.query_admission_wait = Settings(layers)["query_admission_wait"].value
<1> DEFINE s == Settings(layers)
           read == [name \in DOMAIN s |-> s[name].value]
           config == [read EXCEPT !.tls_mode = Trim(@)]
           listening == [config EXCEPT !.bind = UnwrapOr(listen, @)]
<1>1. from_env(layers) = <<config>>
  <2>1. from_env(layers) # <<>>
    BY DEF serve, None, IsSome
  <2> QED BY <2>1 DEF from_env, Some, None
<1>2. Value(from_env(layers)) = config
  BY <1>1 DEF Value
<1>3. serve(layers, listen) = <<listening>> /\ validate(listening)
  BY <1>1, <1>2 DEF serve, None, Some, IsSome
<1>4. c = listening
  BY <1>3 DEF Value
<1>5. {"api_key", "admin_api_key", "query_admission_wait"} \subseteq DOMAIN s
  BY DEF Settings, Defaults
<1> HIDE DEF s
<1>6. /\ read["api_key"] = s["api_key"].value /\ read["admin_api_key"] = s["admin_api_key"].value
      /\ read["query_admission_wait"] = s["query_admission_wait"].value
  BY <1>5
<1> HIDE DEF read
<1>7. /\ listening.api_key = read["api_key"] /\ listening.admin_api_key = read["admin_api_key"]
      /\ listening.query_admission_wait = read["query_admission_wait"]
  OBVIOUS
<1> QED BY <1>3, <1>4, <1>6, <1>7 DEF s

(* The two keys are text, whichever layer they come from. *)
LEMMA KeySetting ==
    ASSUME NEW layers \in Layers
    PROVE  /\ \E S : Settings(layers)["api_key"].value \in Seq(S)
           /\ \E S : Settings(layers)["admin_api_key"].value \in Seq(S)
<1>1. ASSUME NEW name \in {"api_key", "admin_api_key"}
      PROVE  LET key == Eager(Layer(layers, name), Defaults[name]).value
             IN  key \in Seq(STRING) \/ key = Defaults[name]
  <2> DEFINE layer == Layer(layers, name)
  <2>1. \A raw \in {layer.env, layer.file} : raw # None => Value(raw).value \in Seq(STRING)
    BY LayerAssumption DEF Layer, Unset
  <2>2. \A raw \in {layer.env, layer.file} :
          RawValue(raw) = <<>> \/ \E v \in Seq(STRING) : RawValue(raw) = <<v>>
    BY <2>1 DEF RawValue, None, Some
  <2> HIDE DEF layer
  <2>3. PICK a, b : a = RawValue(layer.env) /\ b = RawValue(layer.file)
    OBVIOUS
  <2>4. /\ a = <<>> \/ \E v \in Seq(STRING) : a = <<v>>
        /\ b = <<>> \/ \E v \in Seq(STRING) : b = <<v>>
    BY <2>2, <2>3
  <2>5. UnwrapOr(OrElse(a, b), Defaults[name]) \in Seq(STRING) \cup {Defaults[name]}
    BY <2>4 DEF UnwrapOr, OrElse
  <2> QED BY <2>3, <2>5 DEF Eager, layer
<1>2. ASSUME NEW token PROVE <<token>> \in Seq({token})
  OBVIOUS
<1>3. Defaults["api_key"] = <<"dev-canardstack-key">>
  BY DEF Defaults
<1>4. Defaults["admin_api_key"] = <<"dev-canardstack-admin-key">>
  BY DEF Defaults
<1>5. /\ Settings(layers)["api_key"] = Eager(Layer(layers, "api_key"), Defaults["api_key"])
      /\ Settings(layers)["admin_api_key"] = Eager(Layer(layers, "admin_api_key"), Defaults["admin_api_key"])
  <2>1. "api_key" \in DOMAIN Defaults /\ "admin_api_key" \in DOMAIN Defaults
    BY DEF Defaults
  <2> QED BY <2>1 DEF Settings, OptionalSettings, TlsFiles, Removed
<1> QED BY <1>1, <1>2, <1>3, <1>4, <1>5, Zenon

(* duration_ms_or_secs: of the sources, in order, the first that is set. *)
LEMMA WaitSetting ==
    ASSUME NEW layers
    PROVE  LET ms == RawValue(Layer(layers, "admission_wait_ms").env)
               secs == RawValue(Layer(layers, "admission_wait_secs").env)
               wait == Settings(layers)["query_admission_wait"].value
           IN  /\ IsSome(ms) => wait = Value(ms)
               /\ ms = None /\ IsSome(secs) => wait = 1000 * Value(secs)
<1> DEFINE Src(name, of) == [name |-> name, raw |-> Layer(layers, name)[of]]
           a == Layer(layers, "admission_wait_ms").env
           b == Layer(layers, "admission_wait_secs").env
           sources == << Src("admission_wait_ms", "env"), Src("admission_wait_secs", "env"),
                         Src("admission_wait_ms", "file"), Src("admission_wait_secs", "file") >>
           set == {i \in DOMAIN sources : IsSome(sources[i].raw)}
           first == CHOOSE i \in set : \A j \in set : i <= j
<1>1. Settings(layers)["query_admission_wait"] = FirstSet(sources, 1)
  <2>1. "query_admission_wait" \notin DOMAIN Defaults
    BY DEF Defaults
  <2>2. duration_ms_or_secs(layers) = FirstSet(sources, 1)
    BY DEF duration_ms_or_secs
  <2> QED BY <2>1, <2>2 DEF Settings, OptionalSettings, TlsFiles, Removed
<1>2. DOMAIN sources = 1 .. 4 /\ sources[1] = Src("admission_wait_ms", "env") /\ sources[2] = Src("admission_wait_secs", "env")
  OBVIOUS
<1>3. FirstSet(sources, 1) = IF set = {} THEN [fails |-> FALSE, value |-> 1000 * 1]
        ELSE [fails |-> Malformed(sources[first].raw),
              value |-> InMillis(sources[first].name, Value(sources[first].raw).value)]
  BY DEF FirstSet
<1> HIDE DEF sources
<1>4. set \subseteq 1 .. 4
  BY <1>2
<1>5. ASSUME IsSome(a) PROVE Settings(layers)["query_admission_wait"].value = Value(a).value
  <2>1. 1 \in set
    BY <1>2, <1>5
  <2>2. first = 1
    BY <2>1, <1>4
  <2>3. FirstSet(sources, 1).value = InMillis("admission_wait_ms", Value(a).value)
    BY <2>1, <2>2, <1>2, <1>3
  <2> QED BY <2>3, <1>1 DEF InMillis
<1>6. ASSUME a = None, IsSome(b) PROVE Settings(layers)["query_admission_wait"].value = 1000 * Value(b).value
  <2>1. 2 \in set /\ 1 \notin set
    BY <1>2, <1>6 DEF IsSome, None
  <2>2. first = 2
    BY <2>1, <1>4
  <2>3. FirstSet(sources, 1).value = InMillis("admission_wait_secs", Value(b).value)
    BY <2>1, <2>2, <1>2, <1>3
  <2> QED BY <2>3, <1>1 DEF InMillis
<1> QED BY <1>5, <1>6 DEF RawValue, None, Some, Value, IsSome

(* constant_time_eq on keys is equality. *)
LEMMA ConstantTimeEqIsEq ==
    ASSUME NEW S, NEW a \in Seq(S), NEW T, NEW b \in Seq(T), V!ConstantTimeEq(a, b)
    PROVE  a = b
BY DEF V!ConstantTimeEq

(* from_env, validate, AdmissionController::new, prepare_serve_tls. *)
LEMMA ConfigStep ==
    ASSUME LoadConfig
    PROVE  KeysSeparate' /\ AcceptedLimitsUnclamped' /\ ListenersDistinct' /\ EnvironmentDecidesWait'
<1>1. PICK layers \in Layers, listen \in Listens :
        call' = [of |-> "config", in |-> layers, out |-> serve(layers, listen)]
  BY DEF LoadConfig, Call
<1>2. PICK result : result = serve(layers, listen)
  OBVIOUS
<1>3. call'.in = layers /\ call'.out = result
  BY <1>1, <1>2
<1>4. CASE result = <<>>
  BY <1>3, <1>4 DEF KeysSeparate, AcceptedLimitsUnclamped, ListenersDistinct, EnvironmentDecidesWait,
                    Starts, IsSome
<1>5. CASE result # <<>>
  <2>1. PICK c : c = Value(result)
    OBVIOUS
  <2>2. /\ validate(c)
        /\ c.api_key = Settings(layers)["api_key"].value
        /\ c.admin_api_key = Settings(layers)["admin_api_key"].value
        /\ c.query_admission_wait = Settings(layers)["query_admission_wait"].value
    BY <1>2, <1>5, <2>1, ServeConfig DEF IsSome
  <2>3. PICK S, T : c.api_key \in Seq(S) /\ c.admin_api_key \in Seq(T)
    BY <2>2, KeySetting
  <2>4. Value(call'.out) = c
    BY <1>3, <2>1
  <2>5. KeysSeparate'
    <3>1. ~Blank(c.api_key) /\ ~Blank(c.admin_api_key) /\ c.api_key # c.admin_api_key
      BY <2>2 DEF validate, KeysValid
    <3>2. \A key, expected : Accepts(expected, key) => V!ConstantTimeEq(key, expected)
      BY DEF Accepts, V!ValidateApiKey, V!Supplied, V!OrElse, V!None, V!Value, None, Some
    <3>3. ~V!ConstantTimeEq(c.api_key, c.admin_api_key) /\ ~V!ConstantTimeEq(c.admin_api_key, c.api_key)
      BY <3>1, <2>3, ConstantTimeEqIsEq
    <3> QED BY <3>1, <3>2, <3>3, <2>4 DEF KeysSeparate
  <2>6. AcceptedLimitsUnclamped'
    <3>1. PICK n, k : n = c.query_concurrency /\ k = c.cheap_query_admission_capacity
      OBVIOUS
    <3>2. n \in Nat \ {0} /\ k \in Nat \ {0} /\ n > k
      BY <2>2, <3>1 DEF validate, LimitsValid
    <3>3. AdmissionCapacities(c).cheap = k
      BY <3>1, <3>2 DEF AdmissionCapacities, AtLeastOne
    <3>4. AdmissionCapacities(c).heavy = n - k
      BY <3>1, <3>2 DEF AdmissionCapacities, AtLeastOne
    <3>5. AdmissionCapacities(c).cheap + AdmissionCapacities(c).heavy = n
      BY <3>2, <3>3, <3>4
    <3> QED BY <3>1, <3>3, <3>5, <2>4 DEF AcceptedLimitsUnclamped
  <2>7. ListenersDistinct'
    <3>1. Listeners(c).tls # Some(Listeners(c).http) /\ Listeners(c).identity
      BY <2>2 DEF Listeners, validate, TlsValid, Some, None
    <3> QED BY <3>1, <2>4 DEF ListenersDistinct
  <2>8. EnvironmentDecidesWait'
    BY <2>2, <2>4, <1>3, WaitSetting DEF EnvironmentDecidesWait
  <2> QED BY <2>5, <2>6, <2>7, <2>8
<1> QED BY <1>4, <1>5

-----------------------------------------------------------------------------
(***************************************************************************)
(* Start-up: the attach plan.                                              *)
(***************************************************************************)
Loads == {Load(e) : e \in {"md", "ducklake", "quack", "postgres", "httpfs", "aws"}}
StoreSecrets == {Secret("s3"), Secret("gcs")}

(* The extensions that are loaded are those a plan needs. *)
LEMMA ExtensionStepsHave ==
    ASSUME NEW S, NEW needs, Loads \subseteq S
    PROVE  /\ ExtensionSteps(needs) \in Seq(S)
           /\ \A e : Contains(ExtensionSteps(needs), e) <=>
                       \E x \in {"md", "ducklake", "quack", "postgres"} \cap needs : e = Load(x)
<1> DEFINE a == LoadIf("md" \in needs, "md")
           b == LoadIf("ducklake" \in needs, "ducklake")
           c == LoadIf("quack" \in needs, "quack")
           d == LoadIf("postgres" \in needs, "postgres")
<1>1. a \in Seq(S) /\ b \in Seq(S) /\ c \in Seq(S) /\ d \in Seq(S)
  BY DEF LoadIf, Loads
<1>2. ExtensionSteps(needs) = ((a \o b) \o c) \o d
  BY DEF ExtensionSteps
<1>3. \A e, x, y : Contains(LoadIf(x, y), e) <=> x /\ e = Load(y)
  BY DEF LoadIf, Contains
<1>4. \A e : /\ Contains(a, e) <=> "md" \in needs /\ e = Load("md")
             /\ Contains(b, e) <=> "ducklake" \in needs /\ e = Load("ducklake")
             /\ Contains(c, e) <=> "quack" \in needs /\ e = Load("quack")
             /\ Contains(d, e) <=> "postgres" \in needs /\ e = Load("postgres")
  BY <1>3
<1> HIDE DEF a, b, c, d
<1>5. a \o b \in Seq(S) /\ (a \o b) \o c \in Seq(S) /\ ((a \o b) \o c) \o d \in Seq(S)
  BY <1>1
<1>6. \A e : Contains(((a \o b) \o c) \o d, e) <=>
               Contains(a, e) \/ Contains(b, e) \/ Contains(c, e) \/ Contains(d, e)
  <2>1. \A s, t \in Seq(S) : \A e : Contains(s \o t, e) <=> Contains(s, e) \/ Contains(t, e)
    BY ConcatHas
  <2> QED BY <1>1, <1>5, <2>1, Zenon
<1> QED BY <1>2, <1>4, <1>5, <1>6

(* The loads and the secret of an object store. *)
LEMMA ObjectStoreStepsHave ==
    ASSUME NEW S, NEW kind \in {"none", "s3", "gcs"}, Loads \subseteq S, StoreSecrets \subseteq S
    PROVE  /\ ObjectStoreSteps(kind) \in Seq(S)
           /\ \A e : Contains(ObjectStoreSteps(kind), e) <=>
                       \/ kind # "none" /\ (e = Load("httpfs") \/ e = Secret(kind))
                       \/ kind = "s3" /\ e = Load("aws")
<1>1. CASE kind = "none"
  BY <1>1 DEF ObjectStoreSteps, Contains
<1>2. CASE kind # "none"
  <2> DEFINE a == << Load("httpfs") >>
             b == LoadIf(kind = "s3", "aws")
             c == << Secret(kind) >>
  <2>1. a \in Seq(S) /\ b \in Seq(S) /\ c \in Seq(S)
    BY <1>2 DEF LoadIf, Loads, StoreSecrets
  <2>2. ObjectStoreSteps(kind) = (a \o b) \o c
    BY <1>2 DEF ObjectStoreSteps
  <2>3. \A e : /\ Contains(a, e) <=> e = Load("httpfs")
               /\ Contains(b, e) <=> kind = "s3" /\ e = Load("aws")
               /\ Contains(c, e) <=> e = Secret(kind)
    BY DEF LoadIf, Contains
  <2> HIDE DEF a, b, c
  <2>4. a \o b \in Seq(S) /\ (a \o b) \o c \in Seq(S)
    BY <2>1
  <2>5. \A e : Contains((a \o b) \o c, e) <=> Contains(a, e) \/ Contains(b, e) \/ Contains(c, e)
    BY <2>1, <2>4, ConcatHas
  <2> QED BY <1>2, <2>2, <2>3, <2>4, <2>5
<1> QED BY <1>1, <1>2

(* The statements of a plan: secrets, then ATTACH and USE. *)
LEMMA PlanSql ==
    ASSUME NEW c, NEW plan, plan = build_ducklake_attach_plan(c), plan.error = "none"
    PROVE  \E before, uri, path :
             /\ plan.sql = before \o << Attach(uri, path), Use >>
             /\ before \in {<<>>, <<Secret("quack")>>, <<Secret("http"), Secret("quack")>>}
             /\ "quack" \in plan.needs => before # <<>>
             /\ plan.needs \subseteq {"md", "ducklake", "quack", "postgres"}
             /\ plan.object_store \in {"none", "s3", "gcs"}
             /\ (/\ IsSome(c.ducklake_attach_uri)
                 /\ IsPrefix(<<"ducklake:", "quack:">>, Trim(Value(c.ducklake_attach_uri)))
                 /\ c.ducklake_quack_insecure_tls) => before = <<Secret("http"), Secret("quack")>>
<1>1. \A path : object_store_kind(path) \in {"none", "s3", "gcs"}
  BY DEF object_store_kind
<1>2. CASE IsSome(c.ducklake_attach_uri)
  <2>0. plan = UriPlan(c)
    BY <1>2 DEF build_ducklake_attach_plan, Refused
  <2> DEFINE uri == Trim(Value(c.ducklake_attach_uri))
             path == PathOf(c.ducklake_data_path)
             is_motherduck == uri[1] = "md:"
             is_ducklake == uri[1] = "ducklake:"
             is_quack == IsPrefix(<<"ducklake:", "quack:">>, uri)
             secrets == IF is_quack THEN QuackSecrets(c) ELSE <<>>
             needs == (IF is_ducklake THEN {"ducklake"} ELSE {})
                      \cup (IF is_motherduck THEN {"md"} ELSE {})
                      \cup (IF is_quack THEN {"quack"} ELSE {})
             store == IF path = None THEN "none" ELSE object_store_kind(Value(path))
  <2>1. plan = Plan(IF is_motherduck THEN "ducklake_motherduck_remote" ELSE "ducklake_custom_uri",
                    secrets \o << Attach(uri, path), Use >>, needs, store)
    BY <2>0 DEF UriPlan, Refused, Plan
  <2>2. plan.sql = secrets \o << Attach(uri, path), Use >> /\ plan.needs = needs /\ plan.object_store = store
    BY <2>1 DEF Plan
  <2>3. store \in {"none", "s3", "gcs"}
    BY <1>1
  <2>4. needs \subseteq {"md", "ducklake", "quack", "postgres"} /\ ("quack" \in needs => is_quack)
    OBVIOUS
  <2>5. /\ QuackSecrets(c) = IF c.ducklake_quack_insecure_tls THEN <<Secret("http"), Secret("quack")>>
                              ELSE <<Secret("quack")>>
    <3>1. \A x, y : <<x>> \o <<y>> = <<x, y>>
      BY ConcatPair
    <3>2. \A x : <<>> \o <<x>> = <<x>>
      <4>1. ASSUME NEW x PROVE <<x>> \in Seq({x})
        OBVIOUS
      <4> QED BY <4>1, ConcatEmptySeq
    <3> QED BY <3>1, <3>2, Zenon DEF QuackSecrets
  <2>6. /\ secrets \in {<<>>, <<Secret("quack")>>, <<Secret("http"), Secret("quack")>>}
        /\ is_quack => secrets # <<>>
        /\ is_quack /\ c.ducklake_quack_insecure_tls => secrets = <<Secret("http"), Secret("quack")>>
    BY <2>5
  <2> HIDE DEF secrets, needs, store, path, uri
  <2> QED BY <2>2, <2>3, <2>4, <2>6 DEF uri
<1>3. CASE ~IsSome(c.ducklake_attach_uri)
  <2>0. plan = CatalogPlan(c)
    BY <1>3 DEF build_ducklake_attach_plan, Refused
  <2> DEFINE path == UnwrapOr(PathOf(c.ducklake_data_path), LocalStorageDir)
             postgres == IsSome(c.postgres_dsn)
             catalog == IF postgres THEN <<"ducklake:", "postgres:">> \o Value(c.postgres_dsn)
                   ELSE <<"ducklake:">> \o UnwrapOr(c.ducklake_catalog_path, <<"canardstack.ducklake">>)
             needs == {"ducklake"} \cup (IF postgres THEN {"postgres"} ELSE {})
  <2>1. plan.sql = << Attach(catalog, Some(path)), Use >> /\ plan.needs = needs
        /\ plan.object_store = object_store_kind(path)
    BY <2>0 DEF CatalogPlan, Plan
  <2>2. needs \subseteq {"md", "ducklake", "quack", "postgres"} /\ "quack" \notin needs
    OBVIOUS
  <2>3. \A x, y : << x, y >> = <<>> \o << x, y >>
    OBVIOUS
  <2> HIDE DEF catalog, path, needs
  <2>4. object_store_kind(path) \in {"none", "s3", "gcs"}
    BY <1>1
  <2> HIDE <1>1
  <2>5. plan.sql = <<>> \o << Attach(catalog, Some(path)), Use >>
    BY <2>1, <2>3, Zenon
  <2>6. plan.needs \subseteq {"md", "ducklake", "quack", "postgres"} /\ "quack" \notin plan.needs
        /\ plan.object_store \in {"none", "s3", "gcs"}
    BY <2>1, <2>2, <2>4
  <2> QED BY <2>5, <2>6, <1>3, Zenon
<1> QED BY <1>2, <1>3

(* f is D, M, B and L, one after the other. *)
Placed(f, D, M, B, L) ==
    LET d == Len(D)
        m == Len(M)
        b == Len(B)
    IN  /\ \A i \in 1 .. d : f[i] = D[i]
        /\ \A i \in 1 .. m : f[d + i] = M[i]
        /\ \A i \in 1 .. b : f[d + m + i] = B[i]
        /\ \A i \in 1 .. 2 : f[d + m + b + i] = L[i]

(* Where the four parts of a concatenation lie. *)
LEMMA RunPlaces ==
    ASSUME NEW S, NEW f, NEW g, NEW h, NEW D, NEW M, NEW B, NEW L,
           Joined(S, g, B, L), Joined(S, h, M, g), Joined(S, f, D, h),
           Len(D) \in Nat, Len(M) \in Nat, Len(B) \in Nat, Len(L) = 2
    PROVE  /\ f \in Seq(S) /\ Len(f) = Len(D) + Len(M) + Len(B) + 2
           /\ Placed(f, D, M, B, L)
<1>0. PICK d \in Nat, m \in Nat, b \in Nat : d = Len(D) /\ m = Len(M) /\ b = Len(B)
  OBVIOUS
<1>1. Len(g) = b + 2 /\ Len(h) = m + b + 2 /\ Len(f) = d + m + b + 2 /\ f \in Seq(S)
  BY <1>0 DEF Joined
<1>2. /\ \A i \in 1 .. d : f[i] = D[i]
      /\ \A i \in 1 .. m + b + 2 : f[d + i] = h[i]
      /\ \A i \in 1 .. m : h[i] = M[i]
      /\ \A i \in 1 .. b + 2 : h[m + i] = g[i]
      /\ \A i \in 1 .. b : g[i] = B[i]
      /\ \A i \in 1 .. 2 : g[b + i] = L[i]
  BY <1>0, <1>1 DEF Joined
<1>3. \A i \in 1 .. m : f[d + i] = M[i]
  <2>1. \A i \in 1 .. m : i \in 1 .. m + b + 2
    OBVIOUS
  <2> QED BY <2>1, <1>2
<1>4. \A i \in 1 .. b + 2 : f[d + m + i] = g[i]
  <2> TAKE i \in 1 .. b + 2
  <2>1. m + i \in 1 .. m + b + 2 /\ d + (m + i) = d + m + i
    OBVIOUS
  <2>2. f[d + (m + i)] = h[m + i] /\ h[m + i] = g[i]
    BY <2>1, <1>2
  <2> QED BY <2>1, <2>2
<1>5. \A i \in 1 .. b : f[d + m + i] = B[i]
  <2>1. \A i \in 1 .. b : i \in 1 .. b + 2
    OBVIOUS
  <2> QED BY <2>1, <1>2, <1>4
<1>6. \A i \in 1 .. 2 : f[d + m + b + i] = L[i]
  <2> TAKE i \in 1 .. 2
  <2>1. b + i \in 1 .. b + 2 /\ d + m + (b + i) = d + m + b + i
    OBVIOUS
  <2>2. f[d + m + (b + i)] = g[b + i] /\ g[b + i] = L[i]
    BY <2>1, <1>2, <1>4
  <2> QED BY <2>1, <2>2
<1> QED BY <1>0, <1>1, <1>2, <1>3, <1>5, <1>6 DEF Placed

(* The parts of a run: the directory, loads and credentials of the object  *)
(* store, quack's secrets, ATTACH and USE.                                 *)
Parts(D, M, B, L, extensions) ==
    /\ Len(D) \in Nat /\ Len(M) \in Nat /\ Len(B) \in Nat
    /\ \A i \in 1 .. Len(D) : D[i].do = "DIRECTORY"
    /\ \A i \in 1 .. Len(M) : /\ M[i].do \in {"LOAD", "SECRET"}
                              /\ M[i].do = "LOAD" => M[i].extension \in extensions
    /\ \A i \in 1 .. Len(B) : B[i].do = "SECRET"
    /\ L[1].do = "ATTACH" /\ L[2] = Use

(* The one ATTACH of a run f is at place a. *)
AttachesAt(f, a, D, M, B, extensions) ==
    /\ a \in Nat /\ Len(D) + Len(M) + Len(B) + 2 = a + 1
    /\ \A i \in 1 .. a + 1 : f[i].do = "ATTACH" => i = a
    /\ f[a + 1] = Use
    /\ \A i \in 1 .. a + 1 : f[i].do = "LOAD" => f[i].extension \in extensions
    /\ \A k \in 1 .. Len(M) : \E j \in 1 .. a - 1 : f[j] = M[k]
    /\ \A k \in 1 .. Len(B) : \E j \in 1 .. a - 1 : f[j] = B[k]

(* In a run of such parts ATTACH comes once, after all but USE. *)
LEMMA RunFacts ==
    ASSUME NEW f, NEW D, NEW M, NEW B, NEW L, NEW extensions,
           Placed(f, D, M, B, L), Parts(D, M, B, L, extensions)
    PROVE  \E a : AttachesAt(f, a, D, M, B, extensions)
<1> USE DEF Parts
<1>0. PICK d \in Nat, m \in Nat, b \in Nat : d = Len(D) /\ m = Len(M) /\ b = Len(B)
  OBVIOUS
<1>1. /\ \A i \in 1 .. d : f[i] = D[i]
      /\ \A i \in 1 .. m : f[d + i] = M[i]
      /\ \A i \in 1 .. b : f[d + m + i] = B[i]
      /\ f[d + m + b + 1] = L[1] /\ f[d + m + b + 2] = L[2]
  BY <1>0 DEF Placed
<1>2. PICK a \in Nat : a = d + m + b + 1
  OBVIOUS
<1>3. ASSUME NEW i \in 1 .. a + 1
      PROVE  /\ f[i].do = "ATTACH" => i = a
             /\ f[i].do = "LOAD" => f[i].extension \in extensions
  <2>0. Use.do = "USE"
    BY DEF Use
  <2>1. CASE i <= d
    BY <2>1, <1>0, <1>1
  <2>2. CASE d < i /\ i <= d + m
    <3>1. PICK k \in 1 .. m : i = d + k
      BY <2>2
    <3> QED BY <3>1, <1>0, <1>1
  <2>3. CASE d + m < i /\ i <= d + m + b
    <3>1. PICK k \in 1 .. b : i = d + m + k
      <4>1. i - d - m \in 1 .. b /\ i = d + m + (i - d - m)
        BY <2>3
      <4> QED BY <4>1
    <3> QED BY <3>1, <1>0, <1>1
  <2>4. CASE i = d + m + b + 1
    BY <2>4, <1>1, <1>2
  <2>5. CASE i = d + m + b + 2
    BY <2>0, <2>5, <1>1
  <2> QED BY <2>1, <2>2, <2>3, <2>4, <2>5, <1>2
<1>4. \A k \in 1 .. m : \E j \in 1 .. a - 1 : f[j] = M[k]
  <2> TAKE k \in 1 .. m
  <2>1. d + k \in 1 .. a - 1
    BY <1>2
  <2> QED BY <2>1, <1>1
<1>5. \A k \in 1 .. b : \E j \in 1 .. a - 1 : f[j] = B[k]
  <2> TAKE k \in 1 .. b
  <2>1. d + m + k \in 1 .. a - 1
    BY <1>2
  <2> QED BY <2>1, <1>1
<1>6. d + m + b + 2 = a + 1 /\ f[a + 1] = Use
  BY <1>1, <1>2
<1> QED BY <1>0, <1>2, <1>3, <1>4, <1>5, <1>6 DEF AttachesAt

(* What runs when the catalog is attached: the directory, loads and        *)
(* credentials up to place a, ATTACH there, and USE after it.              *)
SetUp(S, full, a, c, plan) ==
    /\ a \in Nat /\ full \in Seq(S) /\ a < Len(full)
    /\ \A i \in 1 .. Len(full) : full[i].do = "ATTACH" => i = a
    /\ \A i \in 1 .. Len(full) : i > a => full[i] = Use
    /\ IsSome(c.duckdb_extension_dir) => full[1].do = "DIRECTORY"
    /\ \A i \in 1 .. Len(full) : full[i].do = "LOAD" => full[i].extension \in Required(plan)
    /\ \A e \in plan.needs : \E j \in 1 .. a - 1 : full[j] = Load(e)
    /\ plan.object_store # "none" => \E j \in 1 .. a - 1 : full[j] = Secret(plan.object_store)
    /\ "quack" \in plan.needs => \E j \in 1 .. a - 1 : full[j] = Secret("quack")

(* The statements of every plan that is no error are set up that way. *)
LEMMA FullRun ==
    ASSUME NEW c, NEW plan, plan = build_ducklake_attach_plan(c), plan.error = "none",
           NEW full, full = DirectorySteps(c) \o AttachSteps(plan)
    PROVE  \E S, a : SetUp(S, full, a, c, plan)
<1>1. PICK before, uri, path :
         /\ plan.sql = before \o << Attach(uri, path), Use >>
         /\ before \in {<<>>, <<Secret("quack")>>, <<Secret("http"), Secret("quack")>>}
         /\ "quack" \in plan.needs => before # <<>>
         /\ plan.needs \subseteq {"md", "ducklake", "quack", "postgres"}
         /\ plan.object_store \in {"none", "s3", "gcs"}
         /\ (/\ IsSome(c.ducklake_attach_uri)
             /\ IsPrefix(<<"ducklake:", "quack:">>, Trim(Value(c.ducklake_attach_uri)))
             /\ c.ducklake_quack_insecure_tls) => before = <<Secret("http"), Secret("quack")>>
  BY PlanSql
<1> DEFINE S == Loads \cup StoreSecrets \cup {Secret("http"), Secret("quack"), Attach(uri, path), Use,
                                              [do |-> "DIRECTORY"]}
           directory == DirectorySteps(c)
           setup == ExtensionSteps(plan.needs) \o ObjectStoreSteps(plan.object_store)
           last == << Attach(uri, path), Use >>
<1>0. /\ Loads \subseteq S /\ StoreSecrets \subseteq S /\ [do |-> "DIRECTORY"] \in S
      /\ Secret("http") \in S /\ Secret("quack") \in S /\ Attach(uri, path) \in S /\ Use \in S
  OBVIOUS
<1> HIDE DEF S
<1>2. /\ directory \in Seq(S) /\ Len(directory) \in Nat
      /\ \A i \in 1 .. Len(directory) : directory[i].do = "DIRECTORY"
      /\ IsSome(c.duckdb_extension_dir) => Len(directory) = 1
  <2>1. CASE IsSome(c.duckdb_extension_dir)
    <3>1. directory = << [do |-> "DIRECTORY"] >>
      BY <2>1 DEF DirectorySteps
    <3> HIDE DEF directory
    <3>2. directory \in Seq(S) /\ Len(directory) = 1 /\ directory[1].do = "DIRECTORY"
      BY <3>1, <1>0
    <3> QED BY <3>2
  <2>2. CASE ~IsSome(c.duckdb_extension_dir)
    <3>1. directory = <<>>
      BY <2>2 DEF DirectorySteps
    <3> HIDE DEF directory
    <3>2. directory \in Seq(S) /\ Len(directory) = 0
      BY <3>1
    <3> QED BY <3>2, <2>2
  <2> QED BY <2>1, <2>2
<1>4. /\ before \in Seq(S) /\ Len(before) \in Nat
      /\ \A i \in 1 .. Len(before) : before[i].do = "SECRET"
      /\ "quack" \in plan.needs => Len(before) > 0 /\ before[Len(before)] = Secret("quack")
  <2>0. Secret("http").do = "SECRET" /\ Secret("quack").do = "SECRET"
    BY DEF Secret
  <2>1. CASE before = <<>>
    <3>1. before \in Seq(S) /\ Len(before) = 0
      BY <2>1
    <3> QED BY <2>1, <3>1, <1>1
  <2>2. CASE before = <<Secret("quack")>>
    <3>1. before \in Seq(S) /\ Len(before) = 1 /\ before[1] = Secret("quack")
      BY <2>2, <1>0
    <3> QED BY <3>1, <2>0
  <2>3. CASE before = <<Secret("http"), Secret("quack")>>
    <3>1. before \in Seq(S) /\ Len(before) = 2 /\ before[1] = Secret("http") /\ before[2] = Secret("quack")
      BY <2>3, <1>0
    <3> QED BY <3>1, <2>0
  <2> QED BY <2>1, <2>2, <2>3, <1>1
<1>6. last \in Seq(S) /\ Len(last) = 2 /\ last[1] = Attach(uri, path) /\ last[2] = Use
  BY <1>0
<1> HIDE DEF directory, last
<1>8. /\ ExtensionSteps(plan.needs) \in Seq(S)
      /\ \A e : Contains(ExtensionSteps(plan.needs), e) <=>
                   \E x \in {"md", "ducklake", "quack", "postgres"} \cap plan.needs : e = Load(x)
  BY <1>0, ExtensionStepsHave
<1>9. /\ ObjectStoreSteps(plan.object_store) \in Seq(S)
      /\ \A e : Contains(ObjectStoreSteps(plan.object_store), e) <=>
                   \/ plan.object_store # "none" /\ (e = Load("httpfs") \/ e = Secret(plan.object_store))
                   \/ plan.object_store = "s3" /\ e = Load("aws")
  BY <1>0, <1>1, ObjectStoreStepsHave
<1>10. setup \in Seq(S) /\ \A e : Contains(setup, e) <=>
         \/ \E x \in {"md", "ducklake", "quack", "postgres"} \cap plan.needs : e = Load(x)
         \/ plan.object_store # "none" /\ (e = Load("httpfs") \/ e = Secret(plan.object_store))
         \/ plan.object_store = "s3" /\ e = Load("aws")
  <2>1. \A e : Contains(setup, e) <=>
          Contains(ExtensionSteps(plan.needs), e) \/ Contains(ObjectStoreSteps(plan.object_store), e)
    BY <1>8, <1>9, ConcatHas
  <2>2. setup \in Seq(S)
    BY <1>8, <1>9
  <2> QED BY <2>1, <2>2, <1>8, <1>9, Zenon
<1> HIDE DEF setup
<1>7. Len(setup) \in Nat
  BY <1>10
<1>11. ASSUME NEW i \in 1 .. Len(setup)
       PROVE  /\ setup[i].do \in {"LOAD", "SECRET"}
              /\ setup[i].do = "LOAD" => setup[i].extension \in Required(plan)
  <2>1. Contains(setup, setup[i])
    BY DEF Contains
  <2>2. \/ \E x \in {"md", "ducklake", "quack", "postgres"} \cap plan.needs : setup[i] = Load(x)
        \/ plan.object_store # "none" /\ (setup[i] = Load("httpfs") \/ setup[i] = Secret(plan.object_store))
        \/ plan.object_store = "s3" /\ setup[i] = Load("aws")
    BY <2>1, <1>10, Zenon
  <2>3. plan.object_store # "none" => "httpfs" \in Required(plan)
    BY <1>1 DEF Required
  <2>4. plan.object_store = "s3" => "aws" \in Required(plan)
    BY DEF Required
  <2>5. plan.needs \subseteq Required(plan)
    BY DEF Required
  <2>6. \A x : Load(x).do = "LOAD" /\ Load(x).extension = x /\ Secret(x).do = "SECRET"
    BY DEF Load, Secret
  <2>7. "LOAD" # "SECRET"
    OBVIOUS
  <2>8. PICK step : step = setup[i]
    OBVIOUS
  <2>9. step.do \in {"LOAD", "SECRET"} /\ (step.do = "LOAD" => step.extension \in Required(plan))
    BY <2>2, <2>3, <2>4, <2>5, <2>6, <2>7, <2>8
  <2> QED BY <2>8, <2>9
<1>12. PICK g, h, f : /\ Joined(S, g, before, last) /\ Joined(S, h, setup, g) /\ Joined(S, f, directory, h)
                      /\ f = directory \o (setup \o (before \o last))
  <2>1. PICK g : g = before \o last /\ Joined(S, g, before, last)
    BY <1>4, <1>6, ConcatJoins, Zenon
  <2>2. PICK h : h = setup \o g /\ Joined(S, h, setup, g)
    <3>1. g \in Seq(S)
      BY <2>1 DEF Joined
    <3> QED BY <3>1, <1>10, ConcatJoins, Zenon
  <2>3. PICK f : f = directory \o h /\ Joined(S, f, directory, h)
    <3>1. h \in Seq(S)
      BY <2>2 DEF Joined
    <3> QED BY <3>1, <1>2, ConcatJoins, Zenon
  <2> QED BY <2>1, <2>2, <2>3, Zenon
<1>13. full = f
  <2>1. full = directory \o (setup \o (before \o last))
    BY <1>1 DEF AttachSteps, directory, setup, last
  <2> QED BY <2>1, <1>12, Zenon
<1>14. f \in Seq(S) /\ Len(f) = Len(directory) + Len(setup) + Len(before) + 2
       /\ Placed(f, directory, setup, before, last)
  <2>1. Joined(S, g, before, last) /\ Joined(S, h, setup, g) /\ Joined(S, f, directory, h)
    BY <1>12
  <2>2. Len(directory) \in Nat /\ Len(setup) \in Nat /\ Len(before) \in Nat /\ Len(last) = 2
    BY <1>2, <1>4, <1>6, <1>7
  <2> QED BY <2>1, <2>2, RunPlaces
<1>15. PICK a \in Nat :
         /\ Len(directory) + Len(setup) + Len(before) + 2 = a + 1
         /\ \A i \in 1 .. a + 1 : f[i].do = "ATTACH" => i = a
         /\ f[a + 1] = Use
         /\ \A i \in 1 .. a + 1 : f[i].do = "LOAD" => f[i].extension \in Required(plan)
         /\ \A k \in 1 .. Len(setup) : \E j \in 1 .. a - 1 : f[j] = setup[k]
         /\ \A k \in 1 .. Len(before) : \E j \in 1 .. a - 1 : f[j] = before[k]
  <2>1. last[1].do = "ATTACH" /\ last[2] = Use
    BY <1>6 DEF Attach
  <2>2. Parts(directory, setup, before, last, Required(plan))
    BY <1>2, <1>4, <1>7, <1>11, <2>1, Zenon DEF Parts
  <2>3. Placed(f, directory, setup, before, last)
    BY <1>14
  <2>4. PICK a : AttachesAt(f, a, directory, setup, before, Required(plan))
    BY <2>2, <2>3, RunFacts, Zenon
  <2> QED BY <2>4, Zenon DEF AttachesAt
<1>16. Len(f) = a + 1
  BY <1>14, <1>15
<1>17. \A i \in 1 .. Len(f) : i > a => f[i] = Use
  <2>1. \A i \in 1 .. a + 1 : i > a => i = a + 1
    OBVIOUS
  <2> QED BY <2>1, <1>15, <1>16, Zenon
<1>18. a < Len(f)
  BY <1>16
<1>19. IsSome(c.duckdb_extension_dir) => f[1].do = "DIRECTORY"
  <2> SUFFICES ASSUME IsSome(c.duckdb_extension_dir) PROVE f[1].do = "DIRECTORY"
    OBVIOUS
  <2>1. 1 \in 1 .. Len(directory)
    <3>1. Len(directory) = 1 /\ 1 \in 1 .. 1
      BY <1>2
    <3> QED BY <3>1, Zenon
  <2>2. f[1] = directory[1]
    BY <2>1, <1>14 DEF Placed
  <2> QED BY <2>1, <2>2, <1>2
<1>20. \A e : Contains(setup, e) => \E j \in 1 .. a - 1 : f[j] = e
  BY <1>15, Zenon DEF Contains
<1>21. \A e \in plan.needs : \E j \in 1 .. a - 1 : f[j] = Load(e)
  <2>1. \A e \in plan.needs : Contains(setup, Load(e))
    BY <1>1, <1>10
  <2> QED BY <2>1, <1>20, Zenon
<1>22. plan.object_store # "none" => \E j \in 1 .. a - 1 : f[j] = Secret(plan.object_store)
  <2>1. plan.object_store # "none" => Contains(setup, Secret(plan.object_store))
    BY <1>10, Zenon
  <2> QED BY <2>1, <1>20, Zenon
<1>23. "quack" \in plan.needs => \E j \in 1 .. a - 1 : f[j] = Secret("quack")
  <2> SUFFICES ASSUME "quack" \in plan.needs PROVE \E j \in 1 .. a - 1 : f[j] = Secret("quack")
    OBVIOUS
  <2>1. Len(before) \in 1 .. Len(before) /\ before[Len(before)] = Secret("quack")
    BY <1>4
  <2> QED BY <2>1, <1>15, Zenon
<1>25. /\ f \in Seq(S) /\ a < Len(f)
       /\ \A i \in 1 .. Len(f) : f[i].do = "ATTACH" => i = a
       /\ \A i \in 1 .. Len(f) : i > a => f[i] = Use
       /\ \A i \in 1 .. Len(f) : f[i].do = "LOAD" => f[i].extension \in Required(plan)
  BY <1>14, <1>15, <1>16, <1>17, <1>18
<1>26. SetUp(S, f, a, c, plan)
  BY <1>15, <1>19, <1>21, <1>22, <1>23, <1>25, Zenon DEF SetUp
<1> QED BY <1>13, <1>26, Zenon

(* Before has every earlier statement. *)
LEMMA BeforeHas ==
    ASSUME NEW S, NEW steps \in Seq(S), NEW i \in 1 .. Len(steps), NEW j \in 1 .. i - 1
    PROVE  Contains(Before(steps, i), steps[j])
<1>1. PICK s : s = Before(steps, i)
  OBVIOUS
<1>2. Len(s) = i - 1 /\ s[j] = steps[j]
  BY <1>1 DEF Before
<1>3. j \in 1 .. Len(s)
  BY <1>2
<1> QED BY <1>1, <1>2, <1>3 DEF Contains

(* attach_ducklake_connection runs a prefix of its statements. *)
Ran(S, run, full, image, network) ==
    /\ (\A i \in 1 .. Len(full) : Succeeds(full[i], image, network)) => run.ok
    /\ run.executed \in Seq(S) /\ Len(run.executed) <= Len(full)
    /\ \A i \in 1 .. Len(run.executed) : run.executed[i] = full[i]

(* A run stops at the first statement that fails, and nowhere else. *)
LEMMA RunIsPrefix ==
    ASSUME NEW S, NEW full \in Seq(S), NEW image, NEW network
    PROVE  Ran(S, RunSteps(full, image, network), full, image, network)
<1> DEFINE failed == {i \in DOMAIN full : ~Succeeds(full[i], image, network)}
           first == CHOOSE i \in failed : \A j \in failed : i <= j
<1>1. DOMAIN full = 1 .. Len(full) /\ Len(full) \in Nat
  OBVIOUS
<1>2. failed \subseteq 1 .. Len(full)
  BY <1>1
<1>3. CASE failed = {}
  <2>1. RunSteps(full, image, network) = [ok |-> TRUE, executed |-> full]
    BY <1>3 DEF RunSteps
  <2>2. PICK run : run = RunSteps(full, image, network)
    OBVIOUS
  <2>3. run.ok /\ run.executed = full
    BY <2>1, <2>2
  <2>4. Ran(S, run, full, image, network)
    BY <2>3, <1>1 DEF Ran
  <2> QED BY <2>2, <2>4, Zenon
<1>4. CASE failed # {}
  <2>1. RunSteps(full, image, network) = [ok |-> FALSE, executed |-> SubSeq(full, 1, first - 1)]
    BY <1>4, Zenon DEF RunSteps
  <2>2. PICK run : run = RunSteps(full, image, network)
    OBVIOUS
  <2>3. first \in failed
    <3>1. failed \in SUBSET Nat
      BY <1>2
    <3> HIDE DEF failed
    <3>2. \E i \in failed : \A j \in failed : i <= j
      BY <3>1, <1>4, NatMin
    <3> QED BY <3>2
  <2>4. first \in 1 .. Len(full)
    BY <2>3, <1>2
  <2>5. ~\A i \in 1 .. Len(full) : Succeeds(full[i], image, network)
    BY <2>3, <1>1
  <2> HIDE DEF first
  <2>6. PICK n \in Nat : n = first - 1 /\ n <= Len(full)
    BY <2>4, <1>1
  <2>7. run.executed = SubSeq(full, 1, n)
    BY <2>1, <2>2, <2>6
  <2>8. PICK s : s = SubSeq(full, 1, n)
    OBVIOUS
  <2>9. s \in Seq(S) /\ Len(s) = n /\ \A i \in 1 .. n : s[i] = full[i]
    BY <2>6, <2>8
  <2>10. run.executed = s
    BY <2>7, <2>8
  <2>11. Ran(S, run, full, image, network)
    BY <2>5, <2>6, <2>9, <2>10 DEF Ran
  <2> QED BY <2>2, <2>11, Zenon
<1> QED BY <1>3, <1>4

(* attach_ducklake_connection. *)
LEMMA AttachStep ==
    ASSUME AttachCatalog
    PROVE  InsecureTakesEffect' /\ AttachAfterSetup' /\ OfflineStart'
<1>1. PICK layers \in Layers, image \in Images, network \in BOOLEAN :
        LET config == serve(layers, None)
        IN  /\ IsSome(config)
            /\ call' = [of |-> "attach", in |-> [config |-> Value(config), image |-> image],
                        out |-> [plan |-> build_ducklake_attach_plan(Value(config)),
                                 run |-> attach_ducklake_connection(Value(config), image, network)]]
  BY DEF AttachCatalog, Call
<1>2. PICK c : c = Value(serve(layers, None))
  OBVIOUS
<1>3. PICK plan : plan = build_ducklake_attach_plan(c)
  OBVIOUS
<1>4. PICK run : run = attach_ducklake_connection(c, image, network)
  OBVIOUS
<1>5. /\ call'.in.config = c /\ call'.in.image = image
      /\ call'.out.plan = plan /\ call'.out.run = run
  BY <1>1, <1>2, <1>3, <1>4
<1>6. validate(c)
  BY <1>1, <1>2, ServeConfig
<1>7. InsecureTakesEffect'
  <2>1. plan.error # "quack_token"
    <3>1. UsesQuack(c.ducklake_attach_uri) => PathOf(c.ducklake_quack_token) # None
      BY <1>6 DEF validate, QuackValid, PathOf, Blank, trimmed_non_empty, IsSome, None, Some
    <3>2. IsSome(c.ducklake_attach_uri) => UriPlan(c).error # "quack_token"
      BY <3>1 DEF UriPlan, UsesQuack, Refused, Plan
    <3>3. CatalogPlan(c).error # "quack_token"
      BY DEF CatalogPlan, Plan
    <3> QED BY <1>3, <3>2, <3>3 DEF build_ducklake_attach_plan, Refused
  <2>2. ASSUME c.ducklake_quack_insecure_tls, plan.error = "none"
        PROVE  Contains(plan.sql, Secret("http"))
    <3>1. /\ IsSome(c.ducklake_attach_uri)
          /\ IsPrefix(<<"ducklake:", "quack:">>, Trim(Value(c.ducklake_attach_uri)))
      BY <1>6, <2>2, Zenon DEF validate, QuackValid, UsesQuack
    <3>2. PICK uri, path : plan.sql = <<Secret("http"), Secret("quack")>> \o << Attach(uri, path), Use >>
      BY <3>1, <2>2, <1>3, PlanSql, Zenon
    <3>3. PICK x, y, z, w : plan.sql = <<x, y>> \o <<z, w>> /\ x = Secret("http")
      BY <3>2, Zenon
    <3>4. <<x, y>> \in Seq({x, y, z, w}) /\ <<z, w>> \in Seq({x, y, z, w})
      OBVIOUS
    <3>5. Contains(<<x, y>>, x)
      BY DEF Contains
    <3>6. Contains(<<x, y>> \o <<z, w>>, x)
      BY <3>4, <3>5, ConcatHas, Zenon
    <3> QED BY <3>3, <3>6, Zenon
  <2> QED BY <2>1, <2>2, <1>5 DEF InsecureTakesEffect
<1>8. CASE plan.error # "none"
  <2>1. run.executed = DirectorySteps(c)
    BY <1>3, <1>4, <1>8 DEF attach_ducklake_connection
  <2>2. \A i \in DOMAIN DirectorySteps(c) : DirectorySteps(c)[i].do = "DIRECTORY"
    BY DEF DirectorySteps
  <2>3. AttachAfterSetup'
    BY <2>1, <2>2, <1>5 DEF AttachAfterSetup
  <2>4. OfflineStart'
    BY <1>5, <1>8 DEF OfflineStart
  <2> QED BY <2>3, <2>4, <1>7
<1>9. CASE plan.error = "none"
  <2>0. PICK full : full = DirectorySteps(c) \o AttachSteps(plan)
    OBVIOUS
  <2>8. PICK S, a : SetUp(S, full, a, c, plan)
    BY <2>0, <1>3, <1>9, FullRun, Zenon
  <2>1. /\ a \in Nat /\ full \in Seq(S) /\ a < Len(full)
        /\ \A i \in 1 .. Len(full) : full[i].do = "ATTACH" => i = a
        /\ \A i \in 1 .. Len(full) : i > a => full[i] = Use
        /\ IsSome(c.duckdb_extension_dir) => full[1].do = "DIRECTORY"
        /\ \A i \in 1 .. Len(full) : full[i].do = "LOAD" => full[i].extension \in Required(plan)
        /\ \A e \in plan.needs : \E j \in 1 .. a - 1 : full[j] = Load(e)
        /\ plan.object_store # "none" => \E j \in 1 .. a - 1 : full[j] = Secret(plan.object_store)
        /\ "quack" \in plan.needs => \E j \in 1 .. a - 1 : full[j] = Secret("quack")
    BY <2>8 DEF SetUp
  <2>9. run = RunSteps(full, image, network)
    BY <2>0, <1>3, <1>4, <1>9, Zenon DEF attach_ducklake_connection, RunSteps
  <2>10. Ran(S, run, full, image, network)
    BY <2>1, <2>9, RunIsPrefix, Zenon
  <2>2. /\ (\A i \in 1 .. Len(full) : Succeeds(full[i], image, network)) => run.ok
        /\ run.executed \in Seq(S) /\ Len(run.executed) <= Len(full)
        /\ \A i \in 1 .. Len(run.executed) : run.executed[i] = full[i]
    BY <2>10 DEF Ran
  <2>3. PICK steps \in Seq(S) : steps = run.executed
    BY <2>2
  <2>4. OfflineStart'
    <3>1. Required(plan) \subseteq image => run.ok
      BY <2>1, <2>2 DEF Succeeds
    <3> QED BY <3>1, <1>5 DEF OfflineStart
  <2>5. ASSUME NEW i \in DOMAIN steps, steps[i].do = "LOAD", IsSome(c.duckdb_extension_dir)
        PROVE  \E j \in 1 .. i - 1 : steps[j].do = "DIRECTORY"
    <3>1. i \in 1 .. Len(steps) /\ Len(steps) \in Nat
      BY <2>3
    <3>2. steps[1].do = "DIRECTORY"
      BY <2>1, <2>2, <2>3, <2>5, <3>1
    <3>3. 1 \in 1 .. i - 1
      BY <3>1, <3>2, <2>5
    <3> QED BY <3>2, <3>3
  <2>6. ASSUME NEW i \in DOMAIN steps, steps[i].do = "ATTACH"
        PROVE  /\ \A e \in plan.needs : Contains(Before(steps, i), Load(e))
               /\ plan.object_store # "none" => Contains(Before(steps, i), Secret(plan.object_store))
               /\ "quack" \in plan.needs => Contains(Before(steps, i), Secret("quack"))
               /\ \A j \in DOMAIN steps : j > i => steps[j] = Use
    <3>1. i \in 1 .. Len(steps) /\ Len(steps) \in Nat /\ DOMAIN steps = 1 .. Len(steps)
      BY <2>3
    <3>2. \A j \in 1 .. Len(steps) : steps[j] = full[j] /\ j \in 1 .. Len(full)
      BY <2>1, <2>2, <2>3, <3>1
    <3>3. i = a
      BY <2>1, <2>6, <3>1, <3>2
    <3>4. \A e : (\E j \in 1 .. a - 1 : full[j] = e) => Contains(Before(steps, i), e)
      <4> TAKE e
      <4> SUFFICES ASSUME NEW j \in 1 .. a - 1, full[j] = e PROVE Contains(Before(steps, i), e)
        OBVIOUS
      <4>1. j \in 1 .. i - 1 /\ j \in 1 .. Len(steps)
        BY <3>1, <3>3
      <4>2. steps[j] = e
        BY <4>1, <3>2
      <4>3. Contains(Before(steps, i), steps[j])
        BY <4>1, <3>1, BeforeHas
      <4> QED BY <4>2, <4>3
    <3>5. \A j \in DOMAIN steps : j > i => steps[j] = Use
      BY <2>1, <3>1, <3>2, <3>3
    <3> QED BY <2>1, <3>4, <3>5, Zenon
  <2>7. AttachAfterSetup'
    BY <2>3, <2>5, <2>6, <1>5 DEF AttachAfterSetup
  <2> QED BY <2>4, <2>7, <1>7
<1> QED BY <1>7, <1>8, <1>9

(* What validate accepts is what runs, for all settings in both layers,    *)
(* all --listen addresses and all images: two keys that open different     *)
(* endpoints, the configured admission capacities, listeners that do not   *)
(* collide, a wait that the environment decides, an insecure flag that     *)
(* takes effect, and an attach that finds what it needs (OperatorConfig,   *)
(* build_ducklake_attach_plan, attach_ducklake_connection).                *)
THEOREM AlwaysStartsAsConfigured == Spec => []StartsAsConfigured
<1> DEFINE Config == KeysSeparate /\ AcceptedLimitsUnclamped /\ ListenersDistinct /\ EnvironmentDecidesWait
           Attached == InsecureTakesEffect /\ AttachAfterSetup /\ OfflineStart
<1>1. (~Made("config") => Config) /\ (~Made("attach") => Attached)
  BY DEF KeysSeparate, AcceptedLimitsUnclamped, ListenersDistinct, EnvironmentDecidesWait,
         InsecureTakesEffect, AttachAfterSetup, OfflineStart, Starts
<1>2. (~Made("config")' => Config') /\ (~Made("attach")' => Attached')
  BY DEF KeysSeparate, AcceptedLimitsUnclamped, ListenersDistinct, EnvironmentDecidesWait,
         InsecureTakesEffect, AttachAfterSetup, OfflineStart, Starts
<1>3. Init => StartsAsConfigured
  <2>1. Init => ~Made("config") /\ ~Made("attach")
    BY DEF Init, Idle, Made
  <2> QED BY <1>1, <2>1, Zenon DEF StartsAsConfigured
<1>4. StartsAsConfigured /\ [Next]_call => StartsAsConfigured'
  <2> SUFFICES ASSUME StartsAsConfigured, [Next]_call PROVE StartsAsConfigured'
    OBVIOUS
  <2>1. CASE UNCHANGED call
    <3>1. KeysSeparate' /\ AcceptedLimitsUnclamped' /\ ListenersDistinct' /\ EnvironmentDecidesWait'
      BY <2>1 DEF StartsAsConfigured, KeysSeparate, AcceptedLimitsUnclamped, ListenersDistinct,
                  EnvironmentDecidesWait, Starts, Made
    <3>2. InsecureTakesEffect' /\ AttachAfterSetup' /\ OfflineStart'
      BY <2>1 DEF StartsAsConfigured, InsecureTakesEffect, AttachAfterSetup, OfflineStart, Made
    <3> QED BY <3>1, <3>2 DEF StartsAsConfigured
  <2>2. CASE ~UNCHANGED call
    <3>1. (Made("config")' => LoadConfig) /\ (Made("attach")' => AttachCatalog)
      BY <2>2, MadeBy DEF Idle, Made
    <3> QED BY <3>1, <1>2, ConfigStep, AttachStep, Zenon DEF StartsAsConfigured
  <2> QED BY <2>1, <2>2
<1> QED BY <1>3, <1>4, PTL DEF Spec

-----------------------------------------------------------------------------
(***************************************************************************)
(* Rows and responses.                                                     *)
(***************************************************************************)
(* A finite set that is not empty has an element with the least key. *)
LEMMA KeyMin ==
    ASSUME NEW S, IsFiniteSet(S), S # {}, NEW key \in [S -> Int]
    PROVE  \E x \in S : \A y \in S : key[x] <= key[y]
<1> DEFINE Below(x) == {y \in S : key[y] < key[x]}
           U == {Below(x) : x \in S}
<1>1. U \in SUBSET (SUBSET S) /\ U # {}
  <2>1. \A x \in S : Below(x) \in SUBSET S
    BY Zenon
  <2>2. PICK x : x \in S
    OBVIOUS
  <2> HIDE DEF Below
  <2>3. \A u \in U : u \in SUBSET S
    BY <2>1
  <2>4. Below(x) \in U
    BY <2>2
  <2> HIDE DEF U
  <2> QED BY <2>3, <2>4
<1>2. IsWellFoundedOn(StrictSubsetOrdering(S), SUBSET S)
  BY FS_StrictSubsetOrderingWellFounded, FS_FiniteSubsetsOfFinite
<1>3. PICK u \in U : \A v \in U : <<v, u>> \notin StrictSubsetOrdering(S)
  BY <1>1, <1>2, WFMin
<1>4. PICK x \in S : u = Below(x)
  BY <1>3
<1>5. ASSUME NEW y \in S, key[y] < key[x] PROVE FALSE
  <2>1. y \in Below(x) /\ y \notin Below(y)
    BY <1>5
  <2>2. Below(y) \subseteq Below(x) /\ Below(y) # Below(x)
    BY <2>1, <1>5
  <2>3. Below(y) \in U /\ Below(y) \in SUBSET S /\ Below(x) \in SUBSET S
    OBVIOUS
  <2> HIDE DEF Below
  <2>4. <<Below(y), Below(x)>> \in StrictSubsetOrdering(S)
    BY <2>2, <2>3 DEF StrictSubsetOrdering
  <2> QED BY <2>3, <2>4, <1>3, <1>4
<1> QED BY <1>4, <1>5

(* The sequences that list a set in the order of a key. *)
Listings(S, key) ==
    {s \in [1 .. Cardinality(S) -> S] :
        /\ IsInjective(s)
        /\ \A i, j \in 1 .. Cardinality(S) : i < j => key[s[i]] <= key[s[j]]}

(* A finite set can be listed in the order of any key: of the subsets that *)
(* cannot there would be a least one, but its greatest element can be put  *)
(* at the end of a listing of the others.                                  *)
LEMMA ListingExists ==
    ASSUME NEW S, IsFiniteSet(S), NEW key \in [S -> Int]
    PROVE  Listings(S, key) # {}
<1> DEFINE Bad == {T \in SUBSET S : Listings(T, key) = {}}
<1>1. SUFFICES ASSUME S \in Bad PROVE FALSE
  OBVIOUS
<1>2. Bad \in SUBSET (SUBSET S) /\ Bad # {}
  BY <1>1
<1>3. IsWellFoundedOn(StrictSubsetOrdering(S), SUBSET S)
  BY FS_StrictSubsetOrderingWellFounded, FS_FiniteSubsetsOfFinite
<1>4. PICK T \in Bad : \A U \in Bad : <<U, T>> \notin StrictSubsetOrdering(S)
  BY <1>2, <1>3, WFMin
<1>5. T \in SUBSET S /\ IsFiniteSet(T) /\ Listings(T, key) = {}
  BY <1>4, FS_Subset
<1>6. CASE T = {}
  <2>1. Cardinality(T) = 0
    BY <1>6, FS_EmptySet
  <2> DEFINE s == [i \in 1 .. 0 |-> i]
  <2>2. s \in [1 .. 0 -> T] /\ IsInjective(s)
    BY DEF IsInjective
  <2>3. s \in Listings(T, key)
    BY <2>1, <2>2 DEF Listings
  <2> QED BY <2>3, <1>5
<1>7. CASE T # {}
  <2> DEFINE minus == [y \in T |-> -key[y]]
  <2>1. minus \in [T -> Int]
    BY <1>5
  <2>2. PICK x \in T : \A y \in T : minus[x] <= minus[y]
    BY <2>1, <1>5, <1>7, KeyMin
  <2>3. \A y \in T : key[y] <= key[x]
    <3> TAKE y \in T
    <3>1. minus[x] = -key[x] /\ minus[y] = -key[y] /\ key[x] \in Int /\ key[y] \in Int
      BY <1>5
    <3> QED BY <3>1, <2>2
  <2> DEFINE Rest == T \ {x}
             n == Cardinality(Rest)
  <2>4. IsFiniteSet(Rest) /\ n \in Nat /\ Cardinality(T) = n + 1
    <3>1. IsFiniteSet(Rest) /\ Cardinality(Rest) = Cardinality(T) - 1
      BY <1>5, FS_RemoveElement
    <3>2. Cardinality(Rest) \in Nat /\ Cardinality(T) \in Nat
      BY <3>1, <1>5, FS_CardinalityType
    <3> QED BY <3>1, <3>2
  <2>5. Rest \notin Bad
    <3>1. Rest \in SUBSET S /\ Rest \subseteq T /\ Rest # T
      BY <1>5
    <3> HIDE DEF Rest
    <3> QED BY <3>1, <1>4, <1>5 DEF StrictSubsetOrdering
  <2>6. PICK r : r \in Listings(Rest, key)
    BY <2>5, <1>5
  <2>7. /\ r \in [1 .. n -> Rest]
        /\ \A i, j \in 1 .. n : r[i] = r[j] => i = j
        /\ \A i, j \in 1 .. n : i < j => key[r[i]] <= key[r[j]]
    BY <2>6 DEF Listings, IsInjective
  <2> HIDE DEF n
  <2> DEFINE s == [i \in 1 .. n + 1 |-> IF i = n + 1 THEN x ELSE r[i]]
  <2>8. s \in [1 .. n + 1 -> T]
    BY <2>4, <2>7
  <2>9. IsInjective(s)
    <3>1. \A i, j \in 1 .. n + 1 : s[i] = s[j] => i = j
      BY <2>4, <2>7
    <3> QED BY <3>1, <2>8 DEF IsInjective
  <2>10. ASSUME NEW i \in 1 .. n + 1, NEW j \in 1 .. n + 1, i < j
         PROVE  key[s[i]] <= key[s[j]]
    <3>1. i \in 1 .. n /\ s[i] = r[i] /\ r[i] \in T
      BY <2>4, <2>7, <2>10
    <3>2. CASE j = n + 1
      BY <3>1, <3>2, <2>3
    <3>3. CASE j # n + 1
      BY <3>1, <3>3, <2>4, <2>7, <2>10
    <3> QED BY <3>2, <3>3
  <2> HIDE DEF s
  <2>11. s \in Listings(T, key)
    BY <2>4, <2>8, <2>9, <2>10 DEF Listings
  <2> QED BY <2>11, <1>5
<1> QED BY <1>6, <1>7

(* A listing leaves nothing out. *)
LEMMA ListingOnto ==
    ASSUME NEW S, IsFiniteSet(S), NEW s \in [1 .. Cardinality(S) -> S], IsInjective(s)
    PROVE  \A x \in S : \E i \in 1 .. Cardinality(S) : s[i] = x
<1> DEFINE n == Cardinality(S)
<1>1. n \in Nat
  BY FS_CardinalityType
<1>2. IsFiniteSet(1 .. n) /\ Cardinality(1 .. n) = n
  BY <1>1, FS_Interval
<1>3. s \in Injection(1 .. n, S)
  BY DEF Injection
<1>4. s \in Surjection(1 .. n, S)
  BY <1>2, <1>3, FS_Injection
<1> QED BY <1>4 DEF Surjection

(* The rows that come before, in the direction of a query. *)
InOrder(forward, a, b) == IF forward THEN a.time <= b.time ELSE b.time <= a.time

(* s lists all rows of T in the direction of a query. *)
Lists(s, T, forward) ==
    /\ s \in Seq(T) /\ Len(s) = Cardinality(T)
    /\ \A i, j \in 1 .. Len(s) : s[i] = s[j] => i = j
    /\ \A i, j \in 1 .. Len(s) : i < j => InOrder(forward, s[i], s[j])
    /\ \A x \in T : \E i \in 1 .. Len(s) : s[i] = x

(* ORDER BY: InTime lists the rows of a table. *)
LEMMA InTimeLists ==
    ASSUME NEW T, IsTable(T), NEW forward \in BOOLEAN
    PROVE  Lists(InTime(T, forward), T, forward)
<1>0. IsFiniteSet(T) /\ \A row \in T : row.time \in Int
  BY DEF IsTable
<1> DEFINE n == Cardinality(T)
           Sorted(s) == /\ IsInjective(s)
                        /\ \A i, j \in DOMAIN s : i < j =>
                             IF forward THEN s[i].time <= s[j].time ELSE s[j].time <= s[i].time
           key == [row \in T |-> IF forward THEN row.time ELSE -row.time]
<1>1. n \in Nat
  BY <1>0, FS_CardinalityType
<1>2. key \in [T -> Int]
  BY <1>0
<1>3. PICK s : s \in Listings(T, key)
  BY <1>0, <1>2, ListingExists
<1>4. s \in [1 .. n -> T] /\ IsInjective(s) /\ \A i, j \in 1 .. n : i < j => key[s[i]] <= key[s[j]]
  BY <1>3 DEF Listings
<1> HIDE DEF n
<1>5. ASSUME NEW i \in 1 .. n, NEW j \in 1 .. n, i < j
      PROVE  IF forward THEN s[i].time <= s[j].time ELSE s[j].time <= s[i].time
  <2>1. s[i] \in T /\ s[j] \in T /\ key[s[i]] <= key[s[j]]
    BY <1>4, <1>5
  <2> QED BY <2>1, <1>0
<1>6. \E f \in [1 .. n -> T] : Sorted(f)
  BY <1>4, <1>5
<1>7. PICK r : r = InTime(T, forward)
  OBVIOUS
<1>8. r = CHOOSE f \in [1 .. n -> T] : Sorted(f)
  BY <1>7 DEF InTime, n
<1> HIDE DEF Sorted
<1>9. r \in [1 .. n -> T] /\ Sorted(r)
  BY <1>6, <1>8
<1>10. r \in Seq(T) /\ Len(r) = n
  BY <1>1, <1>9
<1>11. /\ IsInjective(r)
       /\ \A i, j \in 1 .. n : i < j => IF forward THEN r[i].time <= r[j].time ELSE r[j].time <= r[i].time
  BY <1>9 DEF Sorted
<1>12. \A x \in T : \E i \in 1 .. n : r[i] = x
  BY <1>0, <1>9, <1>11, ListingOnto DEF n
<1>13. \A i, j \in 1 .. n : r[i] = r[j] => i = j
  BY <1>9, <1>11 DEF IsInjective
<1> QED BY <1>7, <1>10, <1>11, <1>12, <1>13 DEF Lists, InOrder, n

(* wrap_rows of a listing: the first rows, and whether there are more. *)
FirstRows(r, T, forward, limit) ==
    /\ r.rows \in Seq(T) /\ Len(r.rows) <= limit
    /\ \A i, j \in 1 .. Len(r.rows) : r.rows[i] = r.rows[j] => i = j
    /\ \A i, j \in 1 .. Len(r.rows) : i < j => InOrder(forward, r.rows[i], r.rows[j])
    /\ \A x \in T : \/ \E i \in 1 .. Len(r.rows) : r.rows[i] = x
                    \/ r.truncated /\ \A i \in 1 .. Len(r.rows) : InOrder(forward, r.rows[i], x)
    /\ r.truncated \in BOOLEAN
    /\ r.truncated => \E x \in T : \A i \in 1 .. Len(r.rows) : r.rows[i] # x
    /\ Cardinality(T) <= limit => ~r.truncated
    /\ T # {} => r.rows # <<>>

(* The first rows of q, at most m of them. *)
Taken(t, q, m, T) ==
    /\ t \in Seq(T)
    /\ m < Len(q) => Len(t) = m
    /\ m >= Len(q) => Len(t) = Len(q)
    /\ \A i \in 1 .. Len(t) : t[i] = q[i]

(* Take keeps the first rows. *)
LEMMA TakeFirst ==
    ASSUME NEW T, NEW q \in Seq(T), NEW m \in Nat
    PROVE  Taken(Take(q, m), q, m, T)
<1>1. PICK k \in Nat : k = (IF m < Len(q) THEN m ELSE Len(q)) /\ k <= Len(q)
  OBVIOUS
<1>2. PICK t : t = SubSeq(q, 1, k)
  OBVIOUS
<1>3. t \in Seq(T) /\ Len(t) = k /\ \A i \in 1 .. k : t[i] = q[i]
  BY <1>1, <1>2
<1>4. Take(q, m) = t
  BY <1>1, <1>2 DEF Take
<1>5. (m < Len(q) => k = m) /\ (m >= Len(q) => k = Len(q))
  BY <1>1
<1>6. Taken(t, q, m, T)
  BY <1>3, <1>5 DEF Taken
<1> QED BY <1>4, <1>6

(* wrap_rows over the LIMIT limit + 1 of a statement. *)
LEMMA WrapRows ==
    ASSUME NEW T, NEW forward \in BOOLEAN, NEW limit \in Nat \ {0}, NEW s, Lists(s, T, forward)
    PROVE  FirstRows(wrap_rows(s, limit), T, forward, limit)
<1>1. PICK n \in Nat : n = Len(s) /\ n = Cardinality(T)
  BY DEF Lists
<1>2. /\ s \in Seq(T) /\ Len(s) = n
      /\ \A i, j \in 1 .. n : s[i] = s[j] => i = j
      /\ \A i, j \in 1 .. n : i < j => InOrder(forward, s[i], s[j])
      /\ \A x \in T : \E i \in 1 .. n : s[i] = x
  BY <1>1 DEF Lists
<1>3. PICK l \in Nat : l = limit + 1
  OBVIOUS
<1>4. PICK fetched : fetched = Take(s, limit + 1)
  OBVIOUS
<1>5. PICK rows : rows = Take(fetched, limit)
  OBVIOUS
<1>6. Taken(fetched, s, l, T)
  BY <1>2, <1>3, <1>4, TakeFirst
<1>7. fetched \in Seq(T)
  BY <1>6 DEF Taken
<1>8. Taken(rows, fetched, limit, T)
  BY <1>5, <1>7, TakeFirst
<1>9. PICK m \in Nat : m = Len(fetched)
  BY <1>7
<1> DEFINE more == m > limit
<1>w. PICK r : r = [rows |-> rows, truncated |-> Len(fetched) > limit]
  OBVIOUS
<1>r. r = wrap_rows(s, limit)
  BY <1>4, <1>5, <1>w DEF wrap_rows
<1>t. r.rows = rows /\ r.truncated = more
  BY <1>w, <1>9
<1>k. rows \in Seq(T)
  BY <1>8 DEF Taken
<1>10. PICK k \in Nat : k = Len(rows)
  BY <1>k
<1>f. /\ l < n => m = l
      /\ l >= n => m = n
      /\ \A i \in 1 .. m : fetched[i] = s[i]
  BY <1>2, <1>6, <1>9 DEF Taken
<1>g. /\ limit < m => k = limit
      /\ limit >= m => k = m
      /\ \A i \in 1 .. k : rows[i] = fetched[i]
  BY <1>8, <1>9, <1>10 DEF Taken
<1>11. /\ more => n > limit /\ k = limit
       /\ ~more => k = n
       /\ k <= n /\ k <= m /\ k <= limit
  BY <1>3, <1>f, <1>g
<1>12. \A i \in 1 .. k : rows[i] = s[i]
  <2> TAKE i \in 1 .. k
  <2>1. i \in 1 .. m
    BY <1>11
  <2> QED BY <2>1, <1>f, <1>g
<1>b. more \in BOOLEAN
  OBVIOUS
<1> HIDE DEF more
<1>13. \A i \in 1 .. k : i \in 1 .. n
  BY <1>11
<1>14. ASSUME NEW x \in T
       PROVE  \/ \E i \in 1 .. k : rows[i] = x
              \/ more /\ \A i \in 1 .. k : InOrder(forward, rows[i], x)
  <2>1. PICK j \in 1 .. n : s[j] = x
    BY <1>2
  <2>2. CASE j <= k
    BY <2>1, <2>2, <1>12
  <2>3. CASE j > k
    <3>1. more
      BY <2>3, <1>11
    <3>2. \A i \in 1 .. k : i < j
      BY <2>3
    <3>3. \A i \in 1 .. k : InOrder(forward, s[i], s[j])
      BY <3>2, <1>2, <1>13
    <3> QED BY <3>1, <3>3, <2>1, <1>12
  <2> QED BY <2>2, <2>3
<1>15. ASSUME more PROVE \E x \in T : \A i \in 1 .. k : rows[i] # x
  <2>1. k + 1 \in 1 .. n
    BY <1>11, <1>15
  <2>2. s[k + 1] \in T
    BY <2>1, <1>2
  <2>3. \A i \in 1 .. k : s[i] # s[k + 1]
    BY <2>1, <1>2, <1>13
  <2> QED BY <2>2, <2>3, <1>12
<1>16. Cardinality(T) <= limit => ~more
  BY <1>1, <1>11
<1>17. ASSUME T # {} PROVE rows # <<>>
  <2>1. n > 0
    BY <1>2, <1>17
  <2>2. k > 0
    BY <2>1, <1>11
  <2> QED BY <2>2, <1>10
<1>18. /\ \A i, j \in 1 .. k : rows[i] = rows[j] => i = j
       /\ \A i, j \in 1 .. k : i < j => InOrder(forward, rows[i], rows[j])
  BY <1>2, <1>12, <1>13
<1>19. FirstRows(r, T, forward, limit)
  BY <1>b, <1>t, <1>k, <1>10, <1>11, <1>14, <1>15, <1>16, <1>17, <1>18 DEF FirstRows
<1> QED BY <1>r, <1>19

(* Rounding down to a multiple: Milli and Bucket. *)
Floor(t, m) == t - (t % m)

(* A number lies within the multiple it is rounded down to. *)
LEMMA FloorFacts ==
    ASSUME NEW m \in Nat \ {0}, NEW t \in Int
    PROVE  Floor(t, m) \in Int /\ Floor(t, m) <= t /\ t < Floor(t, m) + m
<1>1. t % m \in 0 .. m - 1
  OBVIOUS
<1> QED BY <1>1 DEF Floor

(* Rounding down keeps the order. *)
LEMMA FloorMonotone ==
    ASSUME NEW m \in Nat \ {0}, NEW t \in Int, NEW u \in Int, t <= u
    PROVE  Floor(t, m) <= Floor(u, m)
<1>1. PICK q \in Int, r \in Int : q = t \div m /\ r = t % m
  OBVIOUS
<1>2. PICK p \in Int, s \in Int : p = u \div m /\ s = u % m
  OBVIOUS
<1>3. t = m * q + r /\ r \in 0 .. m - 1
  BY <1>1
<1>4. u = m * p + s /\ s \in 0 .. m - 1
  BY <1>2
<1>5. q <= p
  <2> SUFFICES ASSUME p + 1 <= q PROVE FALSE
    BY <1>1, <1>2
  <2>1. m * (p + 1) <= m * q
    OBVIOUS
  <2>2. m * (p + 1) = m * p + m
    OBVIOUS
  <2> QED BY <1>3, <1>4, <2>1, <2>2
<1>6. m * q <= m * p
  BY <1>5
<1>7. Floor(t, m) = m * q /\ Floor(u, m) = m * p
  BY <1>1, <1>2, <1>3, <1>4 DEF Floor
<1> QED BY <1>6, <1>7

(* time_predicate: windows with a common bound tile. *)
LEMMA WindowStep ==
    ASSUME SplitWindow
    PROVE  RangesTile'
<1>1. PICK from \in Instants, mid \in Instants, to \in Instants, t \in Instants :
        /\ from <= mid /\ mid <= to
        /\ Call("window", t, [whole |-> time_predicate(t, [from |-> from, to |-> to]),
                              left |-> time_predicate(t, [from |-> from, to |-> mid]),
                              right |-> time_predicate(t, [from |-> mid, to |-> to])])
  BY DEF SplitWindow
<1>2. from \in Int /\ mid \in Int /\ to \in Int /\ t \in Int /\ MilliTicks \in Nat \ {0}
  BY TimeAssumption, ScaleAssumption
<1>3. \A x \in Int : Milli(x) \in Int
  BY <1>2, FloorFacts DEF Milli, Floor
<1>4. Milli(from) <= Milli(mid) /\ Milli(mid) <= Milli(to)
  BY <1>1, <1>2, FloorMonotone DEF Milli, Floor
<1>5. PICK a \in Int, b \in Int, c \in Int : a = Milli(from) /\ b = Milli(mid) /\ c = Milli(to)
  BY <1>2, <1>3
<1>6. /\ call'.out.whole = (a <= t /\ t < c)
      /\ call'.out.left = (a <= t /\ t < b)
      /\ call'.out.right = (b <= t /\ t < c)
  BY <1>1, <1>5 DEF Call, time_predicate
<1>7. a <= b /\ b <= c
  BY <1>4, <1>5
<1>8. CASE t < a \/ c <= t
  <2>1. (a <= t /\ t < c) = FALSE /\ (a <= t /\ t < b) = FALSE /\ (b <= t /\ t < c) = FALSE
    BY <1>2, <1>7, <1>8
  <2> QED BY <2>1, <1>6, Zenon DEF RangesTile
<1>9. CASE a <= t /\ t < b
  <2>1. (a <= t /\ t < c) = TRUE /\ (a <= t /\ t < b) = TRUE /\ (b <= t /\ t < c) = FALSE
    BY <1>2, <1>7, <1>9
  <2> QED BY <2>1, <1>6, Zenon DEF RangesTile
<1>10. CASE b <= t /\ t < c
  <2>1. (a <= t /\ t < c) = TRUE /\ (a <= t /\ t < b) = FALSE /\ (b <= t /\ t < c) = TRUE
    BY <1>2, <1>7, <1>10
  <2> QED BY <2>1, <1>6, Zenon DEF RangesTile
<1> QED BY <1>2, <1>8, <1>9, <1>10

(* push_matcher: an operator and its negation. *)
LEMMA MatchStep ==
    ASSUME MatchRow
    PROVE  MatchersPartition'
<1>1. PICK column, value :
        call'.out = [op \in {"Eq", "NotEq", "Regex", "NotRegex"} |->
                        push_matcher(Matcher("service_name", op, value), column)]
  BY DEF MatchRow, Call
<1>2. \A op : Matcher("service_name", op, value).op = op /\ Matcher("service_name", op, value).value = value
  BY DEF Matcher
<1>3. {call'.out["Eq"], call'.out["NotEq"]} = {"TRUE", "FALSE"}
  <2> DEFINE x == UnwrapOr(column, <<>>)
  <2>1. call'.out["Eq"] = Sql(x = value) /\ call'.out["NotEq"] = Sql(x # value)
    BY <1>1, <1>2 DEF push_matcher, Applies
  <2> QED BY <2>1 DEF Sql
<1>4. {call'.out["Regex"], call'.out["NotRegex"]} = {"TRUE", "FALSE"}
  <2> DEFINE x == UnwrapOr(column, <<>>)
  <2>1. CASE value = <<".*">>
    BY <1>1, <1>2, <2>1 DEF push_matcher, Sql
  <2>2. CASE value # <<".*">>
    <3>1. ASSUME NEW op \in {"Regex", "NotRegex"}
          PROVE  call'.out[op] = Sql(Applies(op, x, value))
      <4>1. PICK m : m = Matcher("service_name", op, value) /\ m.op = op /\ m.value = value
        BY <1>2
      <4>2. call'.out[op] = push_matcher(m, column)
        BY <1>1, <4>1
      <4>3. push_matcher(m, column) = Sql(Applies(m.op, x, m.value))
        BY <4>1, <2>2 DEF push_matcher
      <4> QED BY <4>1, <4>2, <4>3
    <3>2. Applies("Regex", x, value) <=> ~Applies("NotRegex", x, value)
      BY DEF Applies
    <3> QED BY <3>1, <3>2 DEF Sql
  <2> QED BY <2>1, <2>2
<1> QED BY <1>3, <1>4 DEF MatchersPartition

(* tempo_span and tempo_proto_span. *)
LEMMA SpanStep ==
    ASSUME RenderSpan
    PROVE  RenderingsAgree'
<1>0. PICK table \in SpanTables : \E s \in table :
        Call("span", s, [json |-> tempo_span(s), proto |-> tempo_proto_span(s)])
  BY DEF RenderSpan
<1>1. PICK s \in table : Call("span", s, [json |-> tempo_span(s), proto |-> tempo_proto_span(s)])
  BY <1>0
<1>2. s.time \in Int /\ s.duration \in Int /\ s.status \in Int
  BY TableAssumption DEF IsTable
<1>3. PICK json, proto : json = tempo_span(s) /\ proto = tempo_proto_span(s)
  OBVIOUS
<1>4. call'.in = s /\ call'.out.json = json /\ call'.out.proto = proto
  BY <1>1, <1>3 DEF Call
<1>5. json.start = s.time /\ json.end = s.time + s.duration /\ json.status = s.status
  BY <1>3 DEF tempo_span
<1>6. /\ proto.start = s.time
      /\ proto.end = s.time + (IF s.duration < 0 THEN 0 ELSE s.duration)
      /\ proto.status = IF s.status \in {1, 2} THEN s.status ELSE 0
  BY <1>3 DEF tempo_proto_span
<1>7. json.service = UnwrapOr(proto.service, <<>>)
  <2> DEFINE label == s.labels["service_name"]
  <2>1. /\ json.service = UnwrapOr(label, <<>>)
        /\ proto.service = IF label = Some(<<>>) THEN None ELSE label
    BY <1>3 DEF tempo_span, tempo_proto_span
  <2> HIDE DEF label
  <2>2. CASE label = Some(<<>>)
    BY <2>1, <2>2 DEF Some, None, UnwrapOr
  <2>3. CASE label # Some(<<>>)
    BY <2>1, <2>3
  <2> QED BY <2>2, <2>3
<1>8. proto.start <= proto.end
  BY <1>2, <1>6
<1>9. s.duration >= 0 /\ s.status \in 0 .. 2 =>
        json.start = proto.start /\ json.end = proto.end /\ json.status = proto.status
  BY <1>2, <1>5, <1>6
<1> QED BY <1>4, <1>7, <1>8, <1>9 DEF RenderingsAgree

(* A text filter of one word looks for that word. *)
LEMMA WordTerms ==
    ASSUME NEW text \in Seq(STRING), Len(text) = 1, NEW op, text[1] # op
    PROVE  SplitTerms(text, op) = {text}
<1> DEFINE cuts == {0, Len(text) + 1} \cup {i \in DOMAIN text : text[i] = op}
           next == {p \in cuts \X cuts : p[1] < p[2] /\ \A c \in cuts : c <= p[1] \/ p[2] <= c}
<1>1. cuts = {0, 2}
  OBVIOUS
<1>2. next = {<<0, 2>>}
  <2> HIDE DEF cuts
  <2>1. \A p \in next : p = <<0, 2>>
    BY <1>1
  <2>2. <<0, 2>> \in next
    BY <1>1
  <2> QED BY <2>1, <2>2
<1>3. PICK t : t = SubSeq(text, 1, 1)
  OBVIOUS
<1>4. t = text /\ t # <<>>
  <2>1. t \in Seq(STRING) /\ Len(t) = 1 /\ t[1] = text[1]
    BY <1>3
  <2> QED BY <2>1
<1> DEFINE Part(p) == SubSeq(text, p[1] + 1, p[2] - 1)
<1>5. SplitTerms(text, op) = {Part(p) : p \in next} \ {<<>>}
  BY DEF SplitTerms
<1>6. PICK p : p = <<0, 2>> /\ Part(p) = t
  <2>1. PICK p : p = <<0, 2>>
    OBVIOUS
  <2>2. p[1] + 1 = 1 /\ p[2] - 1 = 1
    BY <2>1
  <2>3. Part(p) = t
    BY <2>2, <1>3, Zenon
  <2> QED BY <2>1, <2>3, Zenon
<1> HIDE DEF next, Part
<1>7. {Part(q) : q \in next} = {t}
  BY <1>2, <1>6
<1> QED BY <1>4, <1>5, <1>7

(* log_where_sql of such a filter. *)
LEMMA WordHolds ==
    ASSUME NEW plan \in LogPlans, NEW i \in DOMAIN plan.text_filters, NEW body
    PROVE  Value(TextHolds(plan.text_filters[i], body)) <=>
           FindText(body, plan.text_filters[i].term) # 0
<1>1. PICK filter : filter = plan.text_filters[i]
  OBVIOUS
<1>2. /\ filter.kind = "BodyContains"
      /\ filter.term \in Seq(STRING) /\ Len(filter.term) = 1
      /\ filter.term[1] \notin {"OR", "or", "AND", "(", ")"}
  BY <1>1, PlanAssumption
<1>3. PICK text : text = filter.term
  OBVIOUS
<1>4. /\ ~\E k \in DOMAIN text : text[k] \in {"OR", "or"}
      /\ ~\E k \in DOMAIN text : text[k] \in {"(", ")"}
  BY <1>2, <1>3
<1>5. SplitTerms(text, "AND") = {text}
  BY <1>2, <1>3, WordTerms
<1>6. text_terms(text, body) = <<\A t \in {text} : FindText(body, t) # 0>>
  BY <1>4, <1>5 DEF text_terms, Some
<1>7. TextHolds(filter, body) = text_terms(text, body)
  BY <1>2, <1>3 DEF TextHolds
<1> QED BY <1>1, <1>3, <1>6, <1>7 DEF Value

(* A limit that is no 400 is a positive number. *)
LEMMA LimitsPositive ==
    ASSUME NEW limit \in Limits
    PROVE  Value(limit) \in Nat \ {0}
<1>1. PICK p \in LimitParams : limit = V!ParseLimit(p, DefaultLimit, MaxLimit) /\ limit # None
  BY DEF Limits
<1>2. IsOption(p, Nat) /\ DefaultLimit \in Nat
  BY LimitAssumption
<1>3. PICK n : n = UnwrapOr(p, DefaultLimit)
  OBVIOUS
<1>4. n \in Nat
  <2>1. CASE p = <<>>
    BY <1>2, <1>3, <2>1 DEF UnwrapOr
  <2>2. CASE p # <<>>
    BY <1>2, <1>3, <2>2 DEF UnwrapOr, IsOption
  <2> QED BY <2>1, <2>2
<1>5. limit = <<n>> /\ n # 0
  BY <1>1, <1>3 DEF V!ParseLimit, V!UnwrapOr, V!None, V!Some, UnwrapOr, None
<1> QED BY <1>4, <1>5 DEF Value

(* A part of a table is one. *)
LEMMA SubTable ==
    ASSUME NEW T, IsTable(T), NEW S \in SUBSET T
    PROVE  IsTable(S)
BY FS_Subset DEF IsTable

(* The rows a log query asks for. *)
Wanted(table, plan, bounds) ==
    {row \in table :
        /\ Selected(row, plan.matchers, bounds)
        /\ \A i \in DOMAIN plan.text_filters : FindText(row.body, plan.text_filters[i].term) # 0}

(* execute_logs returns the first of them. *)
LEMMA LogResult ==
    ASSUME NEW table \in LogTables, NEW plan \in LogPlans, NEW bounds, NEW limit \in Limits
    PROVE  FirstRows(execute_logs(table, plan, bounds, Value(limit)),
                     Wanted(table, plan, bounds), plan.forward, Value(limit))
<1> DEFINE S == {row \in table :
                   /\ Selected(row, plan.matchers, bounds)
                   /\ \A i \in DOMAIN plan.text_filters :
                          Value(TextHolds(plan.text_filters[i], row.body))}
<1>1. S = Wanted(table, plan, bounds)
  BY WordHolds DEF Wanted
<1>2. S \in SUBSET table
  OBVIOUS
<1>3. execute_logs(table, plan, bounds, Value(limit)) =
        wrap_rows(InTime(S, plan.forward), Value(limit))
  BY DEF execute_logs
<1> HIDE DEF S
<1>4. IsTable(S) /\ plan.forward \in BOOLEAN /\ Value(limit) \in Nat \ {0}
  BY <1>2, SubTable, TableAssumption, PlanAssumption, LimitsPositive
<1>5. Lists(InTime(S, plan.forward), S, plan.forward)
  BY <1>4, InTimeLists
<1>6. FirstRows(wrap_rows(InTime(S, plan.forward), Value(limit)), S, plan.forward, Value(limit))
  BY <1>4, <1>5, WrapRows
<1> QED BY <1>1, <1>3, <1>6

(* What a log query has computed. *)
LEMMA LogsCalled ==
    ASSUME QueryLogs
    PROVE  \E table, plan, bounds, limit, result :
             /\ table \in LogTables /\ plan \in LogPlans /\ limit \in Limits
             /\ FirstRows(result, Wanted(table, plan, bounds), plan.forward, Value(limit))
             /\ call'.in = [table |-> table, plan |-> plan, bounds |-> bounds]
             /\ call'.out = [result |-> result,
                             streams |-> loki_streams(result.rows, {"service_name"}, plan.forward)]
<1>0. PICK table \in LogTables, plan \in LogPlans, limit \in Limits,
           from \in Instants, to \in Instants, range \in BOOLEAN :
        Call("logs", [table |-> table, plan |-> plan, bounds |-> LokiBounds(from, to, range)],
             [result |-> execute_logs(table, plan, LokiBounds(from, to, range), Value(limit)),
              streams |-> loki_streams(execute_logs(table, plan, LokiBounds(from, to, range), Value(limit)).rows,
                                       {"service_name"}, plan.forward)])
  BY DEF QueryLogs
<1>1. PICK bounds :
        Call("logs", [table |-> table, plan |-> plan, bounds |-> bounds],
             [result |-> execute_logs(table, plan, bounds, Value(limit)),
              streams |-> loki_streams(execute_logs(table, plan, bounds, Value(limit)).rows,
                                       {"service_name"}, plan.forward)])
  BY <1>0, Zenon
<1>2. PICK result : result = execute_logs(table, plan, bounds, Value(limit))
  OBVIOUS
<1>3. FirstRows(result, Wanted(table, plan, bounds), plan.forward, Value(limit))
  BY <1>2, LogResult
<1>4. /\ call'.in = [table |-> table, plan |-> plan, bounds |-> bounds]
      /\ call'.out = [result |-> result,
                      streams |-> loki_streams(result.rows, {"service_name"}, plan.forward)]
  BY <1>1, <1>2 DEF Call
<1> QED BY <1>3, <1>4, Zenon

(* execute_logs: the truncated flag and the rows left out. *)
LEMMA TruncatedStep ==
    ASSUME QueryLogs
    PROVE  TruncatedIsExact'
<1>1. PICK table, plan, bounds, limit, result :
        /\ table \in LogTables /\ plan \in LogPlans /\ limit \in Limits
        /\ FirstRows(result, Wanted(table, plan, bounds), plan.forward, Value(limit))
        /\ call'.in = [table |-> table, plan |-> plan, bounds |-> bounds]
        /\ call'.out = [result |-> result,
                        streams |-> loki_streams(result.rows, {"service_name"}, plan.forward)]
  BY LogsCalled
<1>2. PICK rows : rows = result.rows
  OBVIOUS
<1>3. PICK wanted : wanted = Wanted(table, plan, bounds)
  OBVIOUS
<1> DEFINE missing == wanted \ ToSet(rows)
           forward == plan.forward
<1>4. /\ call'.out.result.rows = rows /\ call'.out.result.truncated = result.truncated
      /\ call'.in.table = table /\ call'.in.plan = plan /\ call'.in.bounds = bounds
  BY <1>1, <1>2
<1>5. /\ rows \in Seq(wanted)
      /\ \A x \in wanted : \/ \E i \in 1 .. Len(rows) : rows[i] = x
                           \/ result.truncated /\ \A i \in 1 .. Len(rows) : InOrder(forward, rows[i], x)
      /\ result.truncated \in BOOLEAN
      /\ result.truncated => \E x \in wanted : \A i \in 1 .. Len(rows) : rows[i] # x
      /\ wanted # {} => rows # <<>>
  BY <1>1, <1>2, <1>3 DEF FirstRows
<1>6. /\ DOMAIN rows = 1 .. Len(rows)
      /\ \A x : x \in ToSet(rows) <=> \E i \in 1 .. Len(rows) : rows[i] = x
  BY <1>5 DEF ToSet
<1>7. ToSet(rows) \subseteq wanted
  BY <1>5, <1>6
<1>8. result.truncated = (missing # {})
  <2>1. result.truncated => missing # {}
    BY <1>5, <1>6
  <2>2. missing # {} => result.truncated
    BY <1>5, <1>6
  <2> QED BY <2>1, <2>2, <1>5
<1>9. \A row \in ToSet(rows), lost \in missing : InOrder(forward, row, lost)
  BY <1>5, <1>6
<1>10. wanted = {row \in call'.in.table :
                   /\ Selected(row, call'.in.plan.matchers, call'.in.bounds)
                   /\ \A i \in DOMAIN call'.in.plan.text_filters :
                          FindText(row.body, call'.in.plan.text_filters[i].term) # 0}
  BY <1>3, <1>4 DEF Wanted
<1> HIDE DEF missing
<1>11. missing = wanted \ ToSet(call'.out.result.rows) /\ forward = call'.in.plan.forward
  BY <1>4 DEF missing
<1> QED BY <1>4, <1>5, <1>7, <1>8, <1>9, <1>10, <1>11 DEF TruncatedIsExact, InOrder

(* lines are the rows at the positions P, in their order. *)
Picked(lines, rows, P) ==
    \E n \in Nat : \E at \in [1 .. n -> P] :
        /\ lines = [k \in 1 .. n |-> rows[at[k]]]
        /\ \A k, l \in 1 .. n : k < l => at[k] < at[l]
        /\ \A p \in P : \E k \in 1 .. n : at[k] = p

(* RowsAt keeps the order of the positions. *)
LEMMA RowsAtPicked ==
    ASSUME NEW P, IsFiniteSet(P), P \subseteq Int, NEW rows
    PROVE  Picked(RowsAt(rows, P), rows, P)
<1> DEFINE n == Cardinality(P)
           key == [p \in P |-> p]
           Rising(f) == \A k, l \in DOMAIN f : k < l => f[k] < f[l]
<1>1. n \in Nat
  BY FS_CardinalityType
<1>2. key \in [P -> Int]
  OBVIOUS
<1>3. PICK s : s \in Listings(P, key)
  BY <1>2, ListingExists
<1>4. /\ s \in [1 .. n -> P]
      /\ \A i, j \in 1 .. n : s[i] = s[j] => i = j
      /\ \A i, j \in 1 .. n : i < j => s[i] <= s[j]
  BY <1>3 DEF Listings, IsInjective
<1> HIDE DEF n
<1>5. \A k, l \in 1 .. n : k < l => s[k] < s[l]
  <2> SUFFICES ASSUME NEW k \in 1 .. n, NEW l \in 1 .. n, k < l PROVE s[k] < s[l]
    OBVIOUS
  <2>1. k # l
    BY <1>1
  <2>2. s[k] # s[l] /\ s[k] <= s[l]
    BY <2>1, <1>4
  <2>3. s[k] \in Int /\ s[l] \in Int
    BY <1>4
  <2> QED BY <2>2, <2>3
<1>6. \E f \in [1 .. n -> P] : Rising(f)
  BY <1>4, <1>5
<1>7. PICK at : at = CHOOSE f \in [1 .. n -> P] : Rising(f)
  OBVIOUS
<1> HIDE DEF Rising
<1>8. at \in [1 .. n -> P] /\ Rising(at)
  BY <1>6, <1>7
<1>9. \A k, l \in 1 .. n : k < l => at[k] < at[l]
  BY <1>8 DEF Rising
<1>10. \A k, l \in 1 .. n : at[k] = at[l] => k = l
  <2> TAKE k, l \in 1 .. n
  <2>1. at[k] \in Int /\ at[l] \in Int
    BY <1>8
  <2>2. k < l => at[k] < at[l]
    BY <1>9
  <2>3. l < k => at[l] < at[k]
    BY <1>9
  <2> QED BY <1>1, <2>1, <2>2, <2>3
<1>11. IsInjective(at)
  BY <1>8, <1>10 DEF IsInjective
<1>12. \A p \in P : \E k \in 1 .. n : at[k] = p
  BY <1>8, <1>11, ListingOnto DEF n
<1>13. Ascending(P) = at
  BY <1>7 DEF Ascending, Rising, n
<1>14. RowsAt(rows, P) = [k \in 1 .. n |-> rows[at[k]]]
  BY <1>8, <1>13 DEF RowsAt
<1> QED BY <1>1, <1>8, <1>9, <1>12, <1>14 DEF Picked

(* keys lists the set S, each element once. *)
Enumerates(keys, S) ==
    \E n \in Nat :
        /\ keys \in [1 .. n -> S]
        /\ \A i, j \in 1 .. n : keys[i] = keys[j] => i = j
        /\ \A x \in S : \E i \in 1 .. n : keys[i] = x

(* SetToSeq lists each key once, *)
LEMMA SetToSeqEnumerates ==
    ASSUME NEW S, IsFiniteSet(S)
    PROVE  Enumerates(SetToSeq(S), S)
<1> DEFINE n == Cardinality(S)
           key == [x \in S |-> 0]
<1>1. n \in Nat
  BY FS_CardinalityType
<1>2. key \in [S -> Int]
  OBVIOUS
<1>3. PICK s : s \in Listings(S, key)
  BY <1>2, ListingExists
<1>4. s \in [1 .. n -> S] /\ IsInjective(s)
  BY <1>3 DEF Listings
<1>5. PICK f : f = SetToSeq(S)
  OBVIOUS
<1>6. f \in [1 .. n -> S] /\ IsInjective(f)
  BY <1>4, <1>5 DEF SetToSeq
<1>7. \A x \in S : \E i \in 1 .. n : f[i] = x
  BY <1>6, ListingOnto
<1> HIDE DEF n
<1>8. \A i, j \in 1 .. n : f[i] = f[j] => i = j
  BY <1>6 DEF IsInjective
<1>9. Enumerates(f, S)
  BY <1>1, <1>6, <1>7, <1>8 DEF Enumerates
<1> QED BY <1>5, <1>9

(* and so does its reverse. *)
LEMMA ReverseEnumerates ==
    ASSUME NEW S, NEW keys, Enumerates(keys, S)
    PROVE  Enumerates(Reverse(keys), S)
<1>1. PICK n \in Nat :
        /\ keys \in [1 .. n -> S]
        /\ \A i, j \in 1 .. n : keys[i] = keys[j] => i = j
        /\ \A x \in S : \E i \in 1 .. n : keys[i] = x
  BY DEF Enumerates
<1>2. keys \in Seq(S) /\ Len(keys) = n
  BY <1>1
<1>3. PICK r : r = [i \in 1 .. n |-> keys[(n - i) + 1]]
  OBVIOUS
<1>4. Reverse(keys) = r
  BY <1>2, <1>3 DEF Reverse
<1>5. \A i \in 1 .. n : (n - i) + 1 \in 1 .. n /\ (n - ((n - i) + 1)) + 1 = i
  OBVIOUS
<1>6. r \in [1 .. n -> S]
  BY <1>1, <1>3, <1>5
<1>7. \A i, j \in 1 .. n : r[i] = r[j] => i = j
  <2> TAKE i, j \in 1 .. n
  <2> HAVE r[i] = r[j]
  <2>1. (n - i) + 1 = (n - j) + 1
    BY <1>1, <1>3, <1>5
  <2> QED BY <2>1
<1>8. \A x \in S : \E i \in 1 .. n : r[i] = x
  <2> TAKE x \in S
  <2>1. PICK j \in 1 .. n : keys[j] = x
    BY <1>1
  <2>2. PICK i \in 1 .. n : i = (n - j) + 1 /\ (n - i) + 1 = j
    BY <1>5
  <2>3. r[i] = keys[(n - i) + 1]
    BY <1>3
  <2> QED BY <2>1, <2>2, <2>3
<1>9. Enumerates(r, S)
  BY <1>6, <1>7, <1>8 DEF Enumerates
<1> QED BY <1>4, <1>9

(* g splits the rows by their shown labels. *)
Groups(g, rows, labels) ==
    /\ DOMAIN g = {Shown(rows[i], labels) : i \in 1 .. Len(rows)}
    /\ \A key \in DOMAIN g :
           Picked(g[key], rows, {i \in 1 .. Len(rows) : Shown(rows[i], labels) = key})

(* GroupRows splits the rows. *)
LEMMA GroupRowsGroups ==
    ASSUME NEW T, NEW rows \in Seq(T), NEW labels
    PROVE  /\ Groups(GroupRows(rows, labels), rows, labels)
           /\ IsFiniteSet(DOMAIN GroupRows(rows, labels))
<1>1. PICK n \in Nat : n = Len(rows) /\ DOMAIN rows = 1 .. n
  OBVIOUS
<1> DEFINE Key(i) == Shown(rows[i], labels)
           P(key) == {i \in 1 .. n : Key(i) = key}
           keys == {Key(i) : i \in 1 .. n}
<1>2. PICK g : g = GroupRows(rows, labels)
  OBVIOUS
<1>3. g = [key \in keys |-> RowsAt(rows, P(key))]
  BY <1>1, <1>2 DEF GroupRows
<1> HIDE DEF Key
<1>4. IsFiniteSet(1 .. n)
  BY FS_Interval
<1>5. \A key : IsFiniteSet(P(key)) /\ P(key) \subseteq Int
  <2> TAKE key
  <2>1. P(key) \in SUBSET (1 .. n) /\ P(key) \subseteq Int
    OBVIOUS
  <2> QED BY <2>1, <1>4, FS_Subset
<1> HIDE DEF P
<1>6. \A key \in keys : Picked(g[key], rows, P(key))
  BY <1>3, <1>5, RowsAtPicked
<1>7. IsFiniteSet(keys)
  <2> DEFINE f == [i \in 1 .. n |-> Key(i)]
  <2>1. f \in Surjection(1 .. n, keys)
    BY DEF Surjection
  <2> HIDE DEF f
  <2> QED BY <2>1, <1>4, FS_Surjection
<1>8. Groups(g, rows, labels)
  BY <1>1, <1>3, <1>6 DEF Groups, P, Key
<1> QED BY <1>2, <1>3, <1>7, <1>8

(* The streams of a Loki answer: one for each group. *)
Streams(streams, g) ==
    \E n \in Nat : \E keys \in [1 .. n -> DOMAIN g] :
        /\ \A i, j \in 1 .. n : keys[i] = keys[j] => i = j
        /\ \A key \in DOMAIN g : \E i \in 1 .. n : keys[i] = key
        /\ streams = [i \in 1 .. n |-> [stream |-> keys[i], values |-> g[keys[i]]]]

(* loki_streams makes one stream of each group. *)
LEMMA LokiStreams ==
    ASSUME NEW T, NEW rows \in Seq(T), NEW labels, NEW forward \in BOOLEAN
    PROVE  \E g : /\ Groups(g, rows, labels)
                  /\ Streams(loki_streams(rows, labels, forward), g)
<1>1. PICK g : g = GroupRows(rows, labels)
  OBVIOUS
<1>2. Groups(g, rows, labels) /\ IsFiniteSet(DOMAIN g)
  BY <1>1, GroupRowsGroups
<1>3. PICK ordered : ordered = IF forward THEN Reverse(SetToSeq(DOMAIN g)) ELSE SetToSeq(DOMAIN g)
  OBVIOUS
<1>4. Enumerates(ordered, DOMAIN g)
  BY <1>2, <1>3, SetToSeqEnumerates, ReverseEnumerates
<1>5. loki_streams(rows, labels, forward) =
        [i \in DOMAIN ordered |-> [stream |-> ordered[i], values |-> g[ordered[i]]]]
  BY <1>1, <1>3 DEF loki_streams
<1>6. Streams(loki_streams(rows, labels, forward), g)
  BY <1>4, <1>5 DEF Streams, Enumerates
<1> QED BY <1>2, <1>6

(* loki_query_inner: the lines of the streams. *)
LEMMA LinesStep ==
    ASSUME QueryLogs
    PROVE  LinesInOrder'
<1>1. PICK table, plan, bounds, limit, result :
        /\ table \in LogTables /\ plan \in LogPlans /\ limit \in Limits
        /\ FirstRows(result, Wanted(table, plan, bounds), plan.forward, Value(limit))
        /\ call'.in = [table |-> table, plan |-> plan, bounds |-> bounds]
        /\ call'.out = [result |-> result,
                        streams |-> loki_streams(result.rows, {"service_name"}, plan.forward)]
  BY LogsCalled
<1>2. PICK rows : rows = result.rows
  OBVIOUS
<1>3. PICK forward \in BOOLEAN : forward = plan.forward
  BY <1>1, PlanAssumption
<1>4. PICK streams : streams = loki_streams(rows, {"service_name"}, forward)
  OBVIOUS
<1>5. /\ call'.out.result.rows = rows /\ call'.out.streams = streams
      /\ call'.in.plan.forward = forward
  BY <1>1, <1>2, <1>3, <1>4
<1>6. PICK T : rows \in Seq(T)
  BY <1>1, <1>2 DEF FirstRows
<1>7. \A i, j \in 1 .. Len(rows) : i < j => InOrder(forward, rows[i], rows[j])
  BY <1>1, <1>2, <1>3 DEF FirstRows
<1>8. PICK g : Groups(g, rows, {"service_name"}) /\ Streams(streams, g)
  BY <1>4, <1>6, LokiStreams
<1>9. PICK m \in Nat : m = Len(rows) /\ DOMAIN rows = 1 .. m
  BY <1>6
<1> DEFINE Key(row) == Shown(row, {"service_name"})
           P(key) == {i \in 1 .. m : Key(rows[i]) = key}
<1>10. /\ DOMAIN g = {Key(rows[i]) : i \in 1 .. m}
       /\ \A key \in DOMAIN g : Picked(g[key], rows, P(key))
  BY <1>8, <1>9 DEF Groups
<1>n. PICK n \in Nat : \E keys \in [1 .. n -> DOMAIN g] :
        /\ \A i, j \in 1 .. n : keys[i] = keys[j] => i = j
        /\ \A key \in DOMAIN g : \E i \in 1 .. n : keys[i] = key
        /\ streams = [i \in 1 .. n |-> [stream |-> keys[i], values |-> g[keys[i]]]]
  BY <1>8 DEF Streams
<1>11. PICK keys \in [1 .. n -> DOMAIN g] :
         /\ \A i, j \in 1 .. n : keys[i] = keys[j] => i = j
         /\ \A key \in DOMAIN g : \E i \in 1 .. n : keys[i] = key
         /\ streams = [i \in 1 .. n |-> [stream |-> keys[i], values |-> g[keys[i]]]]
  BY <1>n
<1>12. \A i \in 1 .. n : streams[i].stream = keys[i] /\ streams[i].values = g[keys[i]]
  BY <1>11
<1> HIDE DEF Key
(* What a group holds. *)
<1>13. ASSUME NEW key \in DOMAIN g
       PROVE  /\ \A row : Contains(g[key], row) <=> \E i \in P(key) : rows[i] = row
              /\ \A j \in DOMAIN g[key] : Key(g[key][j]) = key
              /\ \A j, k \in DOMAIN g[key] : j < k => InOrder(forward, g[key][j], g[key][k])
  <2>1. PICK c \in Nat : \E at \in [1 .. c -> P(key)] :
          /\ g[key] = [k \in 1 .. c |-> rows[at[k]]]
          /\ \A k, l \in 1 .. c : k < l => at[k] < at[l]
          /\ \A p \in P(key) : \E k \in 1 .. c : at[k] = p
    BY <1>10 DEF Picked
  <2>2. PICK at \in [1 .. c -> P(key)] :
          /\ g[key] = [k \in 1 .. c |-> rows[at[k]]]
          /\ \A k, l \in 1 .. c : k < l => at[k] < at[l]
          /\ \A p \in P(key) : \E k \in 1 .. c : at[k] = p
    BY <2>1
  <2>3. PICK lines : lines = g[key]
    OBVIOUS
  <2>4. DOMAIN lines = 1 .. c /\ Len(lines) = c /\ \A k \in 1 .. c : lines[k] = rows[at[k]]
    BY <2>2, <2>3
  <2>5. \A k \in 1 .. c : at[k] \in P(key) /\ at[k] \in 1 .. m /\ Key(rows[at[k]]) = key
    BY <2>2
  <2> HIDE DEF P
  <2>6. \A row : Contains(lines, row) <=> \E i \in P(key) : rows[i] = row
    <3> TAKE row
    <3>1. ASSUME NEW k \in 1 .. c, lines[k] = row PROVE \E i \in P(key) : rows[i] = row
      BY <3>1, <2>4, <2>5
    <3>2. ASSUME NEW i \in P(key), rows[i] = row PROVE \E k \in 1 .. c : lines[k] = row
      <4>1. PICK k \in 1 .. c : at[k] = i
        BY <2>2
      <4> QED BY <4>1, <3>2, <2>4
    <3>3. Contains(lines, row) <=> \E k \in 1 .. c : lines[k] = row
      BY <2>4 DEF Contains
    <3> QED BY <3>1, <3>2, <3>3
  <2>7. \A j \in DOMAIN lines : Key(lines[j]) = key
    BY <2>4, <2>5
  <2>8. \A j, k \in DOMAIN lines : j < k => InOrder(forward, lines[j], lines[k])
    BY <2>2, <2>4, <2>5, <1>7, <1>9
  <2> QED BY <2>3, <2>6, <2>7, <2>8
<1>14. ASSUME NEW row \in ToSet(rows)
       PROVE  Cardinality({i \in DOMAIN streams : Contains(streams[i].values, row)}) = 1
  <2>1. PICK p \in 1 .. m : rows[p] = row
    BY <1>9 DEF ToSet
  <2>2. Key(row) \in DOMAIN g
    BY <1>10, <2>1
  <2>3. PICK i \in 1 .. n : keys[i] = Key(row)
    BY <1>11, <2>2
  <2>4. \A j \in 1 .. n : Contains(g[keys[j]], row) <=> \E q \in P(keys[j]) : rows[q] = row
    BY <1>13
  <2>5. \A j \in 1 .. n : (\E q \in P(keys[j]) : rows[q] = row) <=> keys[j] = Key(row)
    BY <2>1
  <2>6. \A j \in 1 .. n : Contains(streams[j].values, row) <=> j = i
    BY <2>3, <2>4, <2>5, <1>11, <1>12
  <2>7. DOMAIN streams = 1 .. n
    BY <1>11
  <2>8. {j \in DOMAIN streams : Contains(streams[j].values, row)} = {i}
    BY <2>6, <2>7
  <2> QED BY <2>8, FS_Singleton
<1>15. ASSUME NEW i \in DOMAIN streams
       PROVE  LET lines == streams[i].values
              IN  /\ \A j \in DOMAIN lines : Key(lines[j]) = streams[i].stream
                  /\ \A j, k \in DOMAIN lines : j < k => InOrder(forward, lines[j], lines[k])
  <2>1. i \in 1 .. n /\ keys[i] \in DOMAIN g
    BY <1>11
  <2> QED BY <2>1, <1>12, <1>13
<1> QED BY <1>5, <1>14, <1>15 DEF LinesInOrder, Key, InOrder

(* The values of a function on a finite set. *)
LEMMA ImageFinite ==
    ASSUME NEW S, IsFiniteSet(S), NEW f, DOMAIN f = S
    PROVE  IsFiniteSet({f[x] : x \in S}) /\ Cardinality({f[x] : x \in S}) <= Cardinality(S)
<1> DEFINE T == {f[x] : x \in S}
           h == [x \in S |-> f[x]]
<1>1. h \in Surjection(S, T)
  BY DEF Surjection
<1> HIDE DEF h, T
<1>2. IsFiniteSet(T) /\ Cardinality(T) <= Cardinality(S)
  BY <1>1, FS_Surjection
<1> QED BY <1>2 DEF T

(* MAX of values that are there, *)
LEMMA MaxOfIs ==
    ASSUME NEW S, IsFiniteSet(S), S # {}, S \subseteq Int
    PROVE  MaxOf(S) \in S /\ \A v \in S : v <= MaxOf(S)
<1> DEFINE key == [v \in S |-> -v]
<1>1. key \in [S -> Int]
  OBVIOUS
<1>2. PICK x \in S : \A y \in S : key[x] <= key[y]
  BY <1>1, KeyMin
<1>3. \A y \in S : y <= x
  <2> TAKE y \in S
  <2>1. key[x] = -x /\ key[y] = -y /\ x \in Int /\ y \in Int
    OBVIOUS
  <2> QED BY <2>1, <1>2
<1> QED BY <1>3 DEF MaxOf

(* and MIN. *)
LEMMA MinOfIs ==
    ASSUME NEW S, IsFiniteSet(S), S # {}, S \subseteq Int
    PROVE  MinOf(S) \in S /\ \A v \in S : MinOf(S) <= v
<1> DEFINE key == [v \in S |-> v]
<1>1. key \in [S -> Int]
  OBVIOUS
<1>2. PICK x \in S : \A y \in S : key[x] <= key[y]
  BY <1>1, KeyMin
<1>3. \A y \in S : x <= y
  BY <1>2
<1> QED BY <1>3 DEF MinOf

(* The row of a trace reports the spans it is made from. *)
LEMMA TraceRowReports ==
    ASSUME NEW table \in SpanTables, NEW spans \in SUBSET table, spans # {}, NEW id,
           \A s \in spans : s.trace_id = id
    PROVE  /\ TraceRow(spans).trace_id = id /\ TraceRow(spans).time \in Int
           /\ TraceRow(spans).matched = Cardinality(spans)
           /\ \A s \in spans : /\ s.duration <= TraceRow(spans).duration
                               /\ TraceRow(spans).start <= s.time
<1>1. IsFiniteSet(spans) /\ \A s \in spans : s.time \in Int /\ s.duration \in Int
  BY TableAssumption, FS_Subset DEF IsTable
<1> DEFINE times == {s.time : s \in spans}
           durations == {s.duration : s \in spans}
           t == [s \in spans |-> s.time]
           d == [s \in spans |-> s.duration]
<1>2. times = {t[s] : s \in spans} /\ durations = {d[s] : s \in spans}
  OBVIOUS
<1>3. DOMAIN t = spans /\ DOMAIN d = spans
  OBVIOUS
<1>4. times # {} /\ times \subseteq Int /\ durations # {} /\ durations \subseteq Int
  BY <1>1
<1>5. \A s \in spans : s.time \in times /\ s.duration \in durations
  OBVIOUS
<1> HIDE DEF t, d, times, durations
<1>6. IsFiniteSet(times) /\ IsFiniteSet(durations)
  BY <1>1, <1>2, <1>3, ImageFinite
<1>7. /\ MinOf(times) \in times /\ \A v \in times : MinOf(times) <= v
      /\ MaxOf(times) \in times
      /\ \A v \in durations : v <= MaxOf(durations)
  BY <1>4, <1>6, MinOfIs, MaxOfIs
<1>8. PICK s \in spans : s = CHOOSE x \in spans : TRUE
  OBVIOUS
<1>9. PICK row : row = TraceRow(spans)
  OBVIOUS
<1>10. /\ row.trace_id = s.trace_id /\ row.start = MinOf(times) /\ row.time = MaxOf(times)
       /\ row.matched = Cardinality(spans) /\ row.duration = MaxOf(durations)
  BY <1>8, <1>9 DEF TraceRow, times, durations
<1> QED BY <1>4, <1>5, <1>7, <1>9, <1>10

(* execute_trace_search: a row counts all spans of its trace. *)
LEMMA SearchStep ==
    ASSUME SearchTraces
    PROVE  SearchCountsSpans'
<1>0. PICK table \in SpanTables, from \in Instants, to \in Instants, limit \in Limits :
        Call("search", [table |-> table, bounds |-> [from |-> from, to |-> to]],
             execute_trace_search(table, <<>>, [from |-> from, to |-> to], Value(limit)))
  BY DEF SearchTraces
<1>1. PICK bounds :
        Call("search", [table |-> table, bounds |-> bounds],
             execute_trace_search(table, <<>>, bounds, Value(limit)))
  BY <1>0, Zenon
<1> DEFINE spans == {s \in table : Selected(s, <<>>, bounds)}
           Of(id) == {s \in spans : s.trace_id = id}
           ids == {s.trace_id : s \in spans}
           T == {TraceRow(Of(id)) : id \in ids}
<1>2. PICK result : result = wrap_rows(InTime(T, FALSE), Value(limit))
  OBVIOUS
<1>3. call'.in.table = table /\ call'.in.bounds = bounds /\ call'.out = result
  BY <1>1, <1>2 DEF Call, execute_trace_search
<1>4. spans = {s \in table : time_predicate(s.time, bounds)}
  BY DEF Selected
<1>5. \A id \in ids : Of(id) # {} /\ Of(id) \in SUBSET table /\ \A s \in Of(id) : s.trace_id = id
  OBVIOUS
<1>6. IsFiniteSet(spans)
  BY TableAssumption, FS_Subset DEF IsTable
<1>7. IsFiniteSet(ids)
  <2> DEFINE f == [s \in spans |-> s.trace_id]
  <2>1. ids = {f[s] : s \in spans} /\ DOMAIN f = spans
    OBVIOUS
  <2> HIDE DEF f, spans, ids
  <2> QED BY <2>1, <1>6, ImageFinite
<1> HIDE DEF spans, Of, ids
<1>8. IsFiniteSet(T)
  <2> DEFINE f == [id \in ids |-> TraceRow(Of(id))]
  <2>1. T = {f[id] : id \in ids} /\ DOMAIN f = ids
    OBVIOUS
  <2> HIDE DEF f, T
  <2> QED BY <2>1, <1>7, ImageFinite
<1>9. ASSUME NEW id \in ids
      PROVE  /\ TraceRow(Of(id)).trace_id = id /\ TraceRow(Of(id)).time \in Int
             /\ TraceRow(Of(id)).matched = Cardinality(Of(id))
             /\ \A s \in Of(id) : /\ s.duration <= TraceRow(Of(id)).duration
                                  /\ TraceRow(Of(id)).start <= s.time
  BY <1>5, TraceRowReports
<1>10. IsTable(T)
  BY <1>8, <1>9 DEF IsTable
<1>11. \A row \in T : \E id \in ids : row = TraceRow(Of(id))
  OBVIOUS
<1> HIDE DEF T
<1>12. Value(limit) \in Nat \ {0}
  BY LimitsPositive
<1>13. FirstRows(result, T, FALSE, Value(limit))
  <2>1. Lists(InTime(T, FALSE), T, FALSE)
    BY <1>10, InTimeLists
  <2> QED BY <2>1, <1>2, <1>12, WrapRows
<1>14. \A row \in ToSet(result.rows) : row \in T
  BY <1>13 DEF FirstRows, ToSet
<1>15. ASSUME NEW row \in ToSet(result.rows)
       PROVE  LET of == {s \in table : s.trace_id = row.trace_id /\ time_predicate(s.time, bounds)}
              IN  /\ row.matched = Cardinality(of)
                  /\ \A s \in of : s.duration <= row.duration /\ row.start <= s.time
  <2>1. PICK id \in ids : row = TraceRow(Of(id))
    BY <1>11, <1>14
  <2>2. row.trace_id = id
    BY <2>1, <1>9
  <2>3. {s \in table : s.trace_id = row.trace_id /\ time_predicate(s.time, bounds)} = Of(id)
    BY <2>2, <1>4 DEF Of
  <2> QED BY <2>1, <2>3, <1>9
<1> QED BY <1>3, <1>15 DEF SearchCountsSpans

(* The buckets of a step. *)
Ticks(step) == Clamp(step, 1, MaxStepSecs) * SecondTicks

(* A clamped step is at least one second. *)
LEMMA TicksPositive ==
    ASSUME NEW step \in Int
    PROVE  Ticks(step) \in Nat \ {0}
<1>1. MaxStepSecs \in Nat \ {0} /\ SecondTicks \in Nat \ {0}
  BY ScaleAssumption
<1>2. PICK c \in Nat \ {0} : c = Clamp(step, 1, MaxStepSecs)
  BY <1>1 DEF Clamp
<1>3. c * SecondTicks \in Nat \ {0}
  BY <1>1
<1> QED BY <1>2, <1>3 DEF Ticks

(* time_bucket: a time lies in its bucket, and buckets keep the order. *)
LEMMA BucketFacts ==
    ASSUME NEW step \in Int, NEW t \in Int
    PROVE  /\ Bucket(t, step) \in Int
           /\ Bucket(t, step) <= t /\ t < Bucket(t, step) + Ticks(step)
           /\ \A u \in Int : t <= u => Bucket(t, step) <= Bucket(u, step)
<1>1. PICK m \in Nat \ {0} : m = Ticks(step)
  BY TicksPositive
<1>2. \A u : Bucket(u, step) = Floor(u, m)
  BY <1>1 DEF Bucket, Ticks, Floor
<1>3. Floor(t, m) \in Int /\ Floor(t, m) <= t /\ t < Floor(t, m) + m
  BY FloorFacts
<1>4. \A u \in Int : t <= u => Floor(t, m) <= Floor(u, m)
  BY FloorMonotone
<1> QED BY <1>1, <1>2, <1>3, <1>4

(* The rows T of a metric statement over the samples: one per bucket and   *)
(* group, and each sample in one of them.                                  *)
Bucketed(T, samples, plan) ==
    /\ IsTable(T) /\ IsTable(samples)
    /\ Cardinality(T) <= Cardinality(samples)
    /\ \A row \in T :
         /\ row.of \subseteq samples /\ row.of # {}
         /\ \A s \in row.of : row.time = Bucket(s.time, plan.step) /\ row.labels = GroupOf(s, plan.group_by)
    /\ \A s \in samples : \E row \in T : s \in row.of
    /\ \A row, other \in T : row.time = other.time /\ row.labels = other.labels => row = other

(* GROUP BY bucket and labels. *)
LEMMA MetricRowsBucketed ==
    ASSUME NEW samples, IsTable(samples), NEW plan, plan.step \in Int
    PROVE  Bucketed(MetricRows(samples, plan), samples, plan)
<1> DEFINE B(s) == Bucket(s.time, plan.step)
           G(s) == GroupOf(s, plan.group_by)
           Of(s) == {t \in samples : B(s) = B(t) /\ G(s) = G(t)}
           f == [s \in samples |-> [time |-> B(s), labels |-> G(s), of |-> Of(s)]]
           T == {f[s] : s \in samples}
<1>1. MetricRows(samples, plan) = T
  BY DEF MetricRows
<1>2. IsFiniteSet(samples) /\ \A s \in samples : s.time \in Int
  BY DEF IsTable
<1>3. \A s \in samples : B(s) \in Int
  BY <1>2, BucketFacts
<1> HIDE DEF B, G
<1>4. \A s \in samples : f[s].time = B(s) /\ f[s].labels = G(s) /\ f[s].of = Of(s)
  OBVIOUS
<1>5. DOMAIN f = samples
  OBVIOUS
<1>6. \A s \in samples : f[s] \in T
  OBVIOUS
<1>7. \A row \in T : \E s \in samples : row = f[s]
  OBVIOUS
<1>8. \A s, t \in samples : B(s) = B(t) /\ G(s) = G(t) => f[s] = f[t]
  OBVIOUS
<1> HIDE DEF f
<1>9. IsFiniteSet(T) /\ Cardinality(T) <= Cardinality(samples)
  BY <1>2, <1>5, ImageFinite
<1>10. \A s \in samples : s \in Of(s)
  OBVIOUS
<1>11. \A s \in samples : \A t \in Of(s) : t \in samples /\ B(t) = B(s) /\ G(t) = G(s)
  OBVIOUS
<1> HIDE DEF Of, T
<1>12. IsTable(T)
  BY <1>3, <1>4, <1>7, <1>9 DEF IsTable
<1>13. ASSUME NEW row \in T
       PROVE  /\ row.of \subseteq samples /\ row.of # {}
              /\ \A s \in row.of : row.time = B(s) /\ row.labels = G(s)
  <2>1. PICK s \in samples : row = f[s]
    BY <1>7
  <2> QED BY <2>1, <1>4, <1>10, <1>11
<1>14. \A s \in samples : \E row \in T : s \in row.of
  BY <1>4, <1>6, <1>10
<1>15. ASSUME NEW row \in T, NEW other \in T, row.time = other.time, row.labels = other.labels
       PROVE  row = other
  <2>1. PICK s \in samples : row = f[s]
    BY <1>7
  <2>2. PICK t \in samples : other = f[t]
    BY <1>7
  <2>3. B(s) = B(t) /\ G(s) = G(t)
    BY <2>1, <2>2, <1>4, <1>15
  <2> QED BY <2>1, <2>2, <2>3, <1>8
<1>16. Bucketed(T, samples, plan)
  BY <1>9, <1>12, <1>13, <1>14, <1>15 DEF Bucketed, B, G
<1> QED BY <1>1, <1>16

(* A plan the metric statements are made for. *)
IsPlan(plan) ==
    /\ plan.signal \in {"gauge", "sum"} /\ plan.step \in Int
    /\ plan.forward \in BOOLEAN /\ plan.limit \in Nat \ {0}

(* execute_metric: the first rows of one table. *)
LEMMA MetricResult ==
    ASSUME NEW tables \in MetricTables, NEW plan, IsPlan(plan), NEW signal \in {"gauge", "sum"}
    PROVE  LET samples == Matching(tables[signal], plan, plan.bounds)
               result == execute_metric(tables, plan, signal)
           IN  /\ IsTable(samples)
               /\ plan.aggregation = "rate" /\ signal # "sum" => result = None
               /\ ~(plan.aggregation = "rate" /\ signal # "sum") =>
                     /\ IsSome(result)
                     /\ FirstRows(Value(result), MetricRows(samples, plan), plan.forward, plan.limit)
<1> DEFINE samples == Matching(tables[signal], plan, plan.bounds)
           T == MetricRows(samples, plan)
<1>1. IsTable(tables[signal])
  BY TableAssumption
<1>2. samples \in SUBSET tables[signal]
  BY DEF Matching
<1>3. samples = {s \in tables[signal] :
                   s.name = plan.metric_name /\ Selected(s, plan.filters, plan.bounds)}
  BY DEF Matching
<1> HIDE DEF samples
<1>4. IsTable(samples)
  BY <1>1, <1>2, SubTable
<1>5. IsTable(T)
  BY <1>4, MetricRowsBucketed DEF Bucketed, IsPlan
<1> HIDE DEF T
<1>6. plan.forward \in BOOLEAN /\ plan.limit \in Nat \ {0}
  BY DEF IsPlan
<1>7. PICK first : first = wrap_rows(InTime(T, plan.forward), plan.limit)
  OBVIOUS
<1>8. FirstRows(first, T, plan.forward, plan.limit)
  <2>1. Lists(InTime(T, plan.forward), T, plan.forward)
    BY <1>5, <1>6, InTimeLists
  <2> QED BY <2>1, <1>6, <1>7, WrapRows
<1>9. execute_metric(tables, plan, signal) =
        IF plan.aggregation = "rate" /\ signal # "sum" THEN None ELSE <<first>>
  BY <1>3, <1>7 DEF execute_metric, T, Some
<1> QED BY <1>4, <1>8, <1>9 DEF samples, T, IsSome, Value, None

(* rows are the first of one row per bucket and group of the samples. *)
Answered(rows, samples, plan) ==
    \E result, T : /\ rows = result.rows
                   /\ Bucketed(T, samples, plan)
                   /\ FirstRows(result, T, plan.forward, plan.limit)

(* execute_metric_rows_with_sum_fallback: an answer is made from the       *)
(* samples of the table asked for, or from the sums if it has none.        *)
LEMMA AnswerFromSource ==
    ASSUME NEW tables \in MetricTables, NEW plan, IsPlan(plan),
           IsSome(MetricAnswer(tables, plan))
    PROVE  Answered(Value(MetricAnswer(tables, plan)), Source(tables, plan, plan.bounds), plan)
<1> DEFINE Samples(signal) == Matching(tables[signal], plan, plan.bounds)
           Rows(signal) == MetricRows(Samples(signal), plan)
           Asked(signal) == execute_metric(tables, plan, signal)
<1>1. plan.signal \in {"gauge", "sum"} /\ plan.step \in Int
  BY DEF IsPlan
<1>2. \A signal \in {"gauge", "sum"} :
        /\ IsTable(Samples(signal))
        /\ plan.aggregation = "rate" /\ signal # "sum" => Asked(signal) = None
        /\ ~(plan.aggregation = "rate" /\ signal # "sum") =>
             /\ IsSome(Asked(signal))
             /\ FirstRows(Value(Asked(signal)), Rows(signal), plan.forward, plan.limit)
  BY MetricResult
<1>3. PICK source : source = Source(tables, plan, plan.bounds)
  OBVIOUS
<1>4. /\ Samples(plan.signal) # {} => source = Samples(plan.signal)
      /\ Samples(plan.signal) = {} => source = Samples("sum")
  BY <1>3 DEF Source
<1>5. PICK answer : answer = MetricAnswer(tables, plan)
  OBVIOUS
<1>6. answer =
        IF Asked(plan.signal) = None THEN None
        ELSE IF Value(Asked(plan.signal)).rows # <<>> \/ plan.signal # "gauge" \/ plan.aggregation = "rate"
        THEN <<Value(Asked(plan.signal)).rows>>
        ELSE <<Value(Asked("sum")).rows>>
  BY <1>5 DEF MetricAnswer, Some
<1> HIDE DEF Samples, Asked, Rows
<1>7. \A signal \in {"gauge", "sum"} : Bucketed(Rows(signal), Samples(signal), plan)
  BY <1>1, <1>2, MetricRowsBucketed DEF Rows
<1>8. Asked(plan.signal) # None /\ ~(plan.aggregation = "rate" /\ plan.signal # "sum")
  BY <1>1, <1>2, <1>5, <1>6 DEF IsSome, None
<1>9. PICK result : result = Value(Asked(plan.signal))
  OBVIOUS
<1>10. FirstRows(result, Rows(plan.signal), plan.forward, plan.limit)
  BY <1>1, <1>2, <1>8, <1>9
<1>11. ASSUME result.rows = <<>> PROVE Samples(plan.signal) = {}
  <2>1. Rows(plan.signal) = {}
    BY <1>10, <1>11 DEF FirstRows
  <2> QED BY <2>1, <1>1, <1>7 DEF Bucketed
<1>12. ASSUME NEW signal \in {"gauge", "sum"}, NEW r, answer = <<r.rows>>, source = Samples(signal),
              FirstRows(r, Rows(signal), plan.forward, plan.limit)
       PROVE  Answered(Value(answer), source, plan)
  <2>1. Value(answer) = r.rows
    BY <1>12 DEF Value
  <2>2. Bucketed(Rows(signal), source, plan)
    BY <1>7, <1>12
  <2> QED BY <2>1, <2>2, <1>12 DEF Answered
<1>13. CASE result.rows # <<>>
  <2>1. answer = <<result.rows>>
    BY <1>6, <1>8, <1>9, <1>13
  <2>2. Samples(plan.signal) # {}
    <3> SUFFICES ASSUME Samples(plan.signal) = {} PROVE FALSE
      OBVIOUS
    <3>1. \A row \in Rows(plan.signal) : FALSE
      BY <1>1, <1>7 DEF Bucketed
    <3>2. result.rows \in Seq(Rows(plan.signal))
      BY <1>10 DEF FirstRows
    <3> QED BY <3>1, <3>2, <1>13
  <2> QED BY <2>1, <2>2, <1>1, <1>3, <1>4, <1>5, <1>10, <1>12
<1>14. CASE result.rows = <<>> /\ plan.signal # "gauge"
  <2>1. answer = <<result.rows>> /\ plan.signal = "sum"
    BY <1>1, <1>6, <1>8, <1>9, <1>14
  <2>2. source = Samples("sum")
    BY <2>1, <1>4
  <2> QED BY <2>1, <2>2, <1>3, <1>5, <1>10, <1>12
<1>15. CASE result.rows = <<>> /\ plan.signal = "gauge"
  <2>1. plan.aggregation # "rate" /\ source = Samples("sum")
    BY <1>4, <1>8, <1>11, <1>15
  <2>2. PICK sums : sums = Value(Asked("sum"))
    OBVIOUS
  <2>3. answer = <<sums.rows>>
    BY <1>6, <1>8, <1>9, <1>15, <2>1, <2>2
  <2>4. FirstRows(sums, Rows("sum"), plan.forward, plan.limit)
    BY <1>2, <2>2
  <2> QED BY <2>1, <2>3, <2>4, <1>3, <1>5, <1>12
<1> QED BY <1>13, <1>14, <1>15

(* What a range query with an answer has computed. *)
SeriesOf(tables, prom, bounds, plan, rows, series) ==
    /\ tables \in MetricTables /\ prom \in MetricPlans
    /\ plan.step \in Int /\ plan.forward = TRUE /\ plan.limit = SeriesLimit
    /\ plan.group_by = RangeGroupBy(prom)
    /\ Answered(rows, Source(tables, prom, bounds), plan)
    /\ Groups(series, rows, ToSet(RangeGroupBy(prom)))
    /\ call'.in = [tables |-> tables, plan |-> prom, step |-> plan.step, bounds |-> bounds]
    /\ call'.out = <<series>>

(* A plan reads from the source of the query it is made for. *)
LEMMA SameSource ==
    ASSUME NEW tables, NEW prom, NEW plan, NEW bounds,
           plan.metric_name = prom.metric_name, plan.filters = prom.filters, plan.signal = prom.signal
    PROVE  Source(tables, plan, bounds) = Source(tables, prom, bounds)
BY DEF Source, Matching

(* prometheus_query_range. *)
LEMMA SeriesCalled ==
    ASSUME QueryMetricRange, IsSome(call'.out)
    PROVE  \E tables, prom, bounds, plan, rows, series :
               SeriesOf(tables, prom, bounds, plan, rows, series)
<1>1. PICK tables \in MetricTables, prom \in MetricPlans, from \in Instants, to \in Instants,
           step \in Steps :
        Call("series", [tables |-> tables, plan |-> prom, step |-> step,
                        bounds |-> [from |-> from, to |-> to]],
             prometheus_query_range(tables, prom, from, to, step, SeriesLimit))
  BY DEF QueryMetricRange
<1>2. PICK bounds : bounds = [from |-> from, to |-> to]
  OBVIOUS
<1>3. PICK plan : plan = RangePlan(prom, from, to, step, SeriesLimit)
  OBVIOUS
<1>4. /\ plan.metric_name = prom.metric_name /\ plan.filters = prom.filters
      /\ plan.signal = prom.signal /\ plan.bounds = bounds /\ plan.step = step
      /\ plan.forward = TRUE /\ plan.limit = SeriesLimit /\ plan.group_by = RangeGroupBy(prom)
  BY <1>2, <1>3 DEF RangePlan, MetricPlan
<1>5. IsPlan(plan)
  BY <1>4, PlanAssumption, TimeAssumption, LimitAssumption DEF IsPlan
<1>6. PICK answer : answer = MetricAnswer(tables, plan)
  OBVIOUS
<1>7. call'.out = IF answer = None THEN None
                  ELSE Some(GroupRows(Value(answer), ToSet(RangeGroupBy(prom))))
  BY <1>1, <1>3, <1>6 DEF Call, prometheus_query_range
<1>8. IsSome(answer)
  BY <1>7 DEF IsSome, None
<1>9. PICK rows, series : rows = Value(answer) /\ series = GroupRows(rows, ToSet(RangeGroupBy(prom)))
  OBVIOUS
<1>10. call'.out = <<series>>
  BY <1>7, <1>8, <1>9 DEF IsSome, None, Some
<1>11. Answered(rows, Source(tables, plan, bounds), plan)
  BY <1>4, <1>5, <1>6, <1>8, <1>9, AnswerFromSource
<1>12. Source(tables, plan, bounds) = Source(tables, prom, bounds)
  BY <1>4, SameSource
<1>13. \E T : rows \in Seq(T)
  BY <1>11 DEF Answered, FirstRows
<1>14. Groups(series, rows, ToSet(RangeGroupBy(prom)))
  BY <1>9, <1>13, GroupRowsGroups
<1>15. call'.in = [tables |-> tables, plan |-> prom, step |-> plan.step, bounds |-> bounds]
  BY <1>1, <1>2, <1>4 DEF Call
<1>16. plan.step \in Int
  BY <1>4, TimeAssumption
<1>17. SeriesOf(tables, prom, bounds, plan, rows, series)
  BY <1>4, <1>10, <1>11, <1>12, <1>14, <1>15, <1>16 DEF SeriesOf
<1> QED BY <1>17, Zenon

(* The points of all series are the rows. *)
LEMMA PointsAreRows ==
    ASSUME NEW S, NEW rows \in Seq(S), NEW labels, NEW series, Groups(series, rows, labels)
    PROVE  Points(series) = ToSet(rows)
<1>1. PICK m \in Nat : m = Len(rows) /\ DOMAIN rows = 1 .. m
  OBVIOUS
<1> DEFINE P(key) == {i \in 1 .. m : Shown(rows[i], labels) = key}
<1>2. /\ DOMAIN series = {Shown(rows[i], labels) : i \in 1 .. m}
      /\ \A key \in DOMAIN series : Picked(series[key], rows, P(key))
  BY <1>1 DEF Groups
<1>3. ASSUME NEW key \in DOMAIN series
      PROVE  ToSet(series[key]) = {rows[i] : i \in P(key)}
  <2>1. PICK c \in Nat : \E at \in [1 .. c -> P(key)] :
          /\ series[key] = [k \in 1 .. c |-> rows[at[k]]]
          /\ \A p \in P(key) : \E k \in 1 .. c : at[k] = p
    BY <1>2 DEF Picked
  <2>2. PICK at \in [1 .. c -> P(key)] :
          /\ series[key] = [k \in 1 .. c |-> rows[at[k]]]
          /\ \A p \in P(key) : \E k \in 1 .. c : at[k] = p
    BY <2>1
  <2> HIDE DEF P
  <2>3. ToSet(series[key]) = {rows[at[k]] : k \in 1 .. c}
    BY <2>2 DEF ToSet
  <2>4. {rows[at[k]] : k \in 1 .. c} \subseteq {rows[i] : i \in P(key)}
    BY <2>2
  <2>5. {rows[i] : i \in P(key)} \subseteq {rows[at[k]] : k \in 1 .. c}
    BY <2>2
  <2> QED BY <2>3, <2>4, <2>5
<1>4. ToSet(rows) = {rows[i] : i \in 1 .. m}
  BY <1>1 DEF ToSet
<1>5. \A i \in 1 .. m : Shown(rows[i], labels) \in DOMAIN series /\ i \in P(Shown(rows[i], labels))
  BY <1>2
<1>6. \A key : P(key) \subseteq 1 .. m
  OBVIOUS
<1> HIDE DEF P
<1>7. Points(series) \subseteq ToSet(rows)
  BY <1>3, <1>4, <1>6 DEF Points
<1>8. ToSet(rows) \subseteq Points(series)
  BY <1>3, <1>4, <1>5 DEF Points
<1> QED BY <1>7, <1>8

(* execute_metric_rows_with_sum_fallback: one table, whole. *)
LEMMA FallbackStep ==
    ASSUME QueryMetricRange
    PROVE  FallbackNeverMixes'
<1>0. SUFFICES ASSUME IsSome(call'.out)
               PROVE  LET used == Used(Value(call'.out))
                          source == Source(call'.in.tables, call'.in.plan, call'.in.bounds)
                      IN  /\ used \subseteq source
                          /\ source # {} => used # {}
                          /\ Cardinality(source) <= SeriesLimit => used = source
  BY DEF FallbackNeverMixes
<1>1. PICK tables, prom, bounds, plan, rows, series : SeriesOf(tables, prom, bounds, plan, rows, series)
  BY <1>0, SeriesCalled
<1>2. PICK source : source = Source(tables, prom, bounds)
  OBVIOUS
<1>3. /\ Answered(rows, source, plan) /\ plan.limit = SeriesLimit
      /\ Groups(series, rows, ToSet(RangeGroupBy(prom)))
      /\ call'.in.tables = tables /\ call'.in.plan = prom /\ call'.in.bounds = bounds
      /\ Value(call'.out) = series
  BY <1>1, <1>2 DEF SeriesOf, Value
<1>4. PICK result, T : /\ rows = result.rows
                       /\ Bucketed(T, source, plan)
                       /\ FirstRows(result, T, plan.forward, plan.limit)
  BY <1>3 DEF Answered
<1>5. /\ rows \in Seq(T)
      /\ \A x \in T : (\E i \in 1 .. Len(rows) : rows[i] = x) \/ result.truncated
      /\ Cardinality(T) <= SeriesLimit => ~result.truncated
      /\ T # {} => rows # <<>>
  BY <1>3, <1>4 DEF FirstRows
<1>6. Points(series) = ToSet(rows)
  BY <1>3, <1>5, PointsAreRows
<1>7. \A x : x \in ToSet(rows) <=> \E i \in 1 .. Len(rows) : rows[i] = x
  BY <1>5 DEF ToSet
<1>8. ToSet(rows) \subseteq T
  BY <1>5, <1>7
<1>9. PICK used : used = Used(series)
  OBVIOUS
<1>10. \A s : s \in used <=> \E row \in ToSet(rows) : s \in row.of
  BY <1>6, <1>9 DEF Used
<1>11. /\ \A row \in T : row.of \subseteq source /\ row.of # {}
       /\ \A s \in source : \E row \in T : s \in row.of
       /\ Cardinality(T) <= Cardinality(source)
       /\ IsTable(T)
  BY <1>4 DEF Bucketed
<1>12. used \subseteq source
  BY <1>8, <1>10, <1>11
<1>13. ASSUME source # {} PROVE used # {}
  <2>1. T # {}
    BY <1>11, <1>13
  <2>2. rows[1] \in ToSet(rows)
    BY <2>1, <1>5, <1>7
  <2> QED BY <2>2, <1>8, <1>10, <1>11
<1>14. ASSUME Cardinality(source) <= SeriesLimit PROVE used = source
  <2>1. Cardinality(T) <= SeriesLimit
    <3>1. Cardinality(T) \in Nat /\ SeriesLimit \in Nat
      BY <1>11, FS_CardinalityType, LimitAssumption DEF IsTable
    <3>2. Cardinality(source) \in Nat
      BY <1>4, FS_CardinalityType DEF Bucketed, IsTable
    <3> QED BY <3>1, <3>2, <1>11, <1>14
  <2>2. T \subseteq ToSet(rows)
    BY <2>1, <1>5, <1>7
  <2>3. source \subseteq used
    BY <2>2, <1>10, <1>11
  <2> QED BY <2>3, <1>12
<1> QED BY <1>2, <1>3, <1>9, <1>12, <1>13, <1>14

(* Two groups that are shown alike differ in a label that is NULL in one   *)
(* and empty in the other.                                                 *)
NullAndEmpty(x, y) == {x, y} = {None, Some(<<>>)}

(* Labels that differ and are shown alike are NULL and empty. *)
LEMMA ShownAlike ==
    ASSUME NEW labels, NEW a, NEW b,
           NEW l \in labels, IsOption(a.labels[l], Seq(STRING)), IsOption(b.labels[l], Seq(STRING)),
           a.labels[l] # b.labels[l],
           Shown(a, labels) = Shown(b, labels)
    PROVE  NullAndEmpty(a.labels[l], b.labels[l])
<1> DEFINE Here(row) == {x \in labels : row.labels[x] \notin {None, Some(<<>>)}}
<1>1. \A row : DOMAIN Shown(row, labels) = Here(row) /\ \A x \in Here(row) : Shown(row, labels)[x] = Value(row.labels[x])
  BY DEF Shown
<1>2. PICK x, y : x = a.labels[l] /\ y = b.labels[l] /\ x # y
  OBVIOUS
<1>3. (x \notin {None, Some(<<>>)}) <=> (y \notin {None, Some(<<>>)})
  BY <1>1, <1>2
<1>4. x \notin {None, Some(<<>>)} => Value(x) = Value(y)
  <2> SUFFICES ASSUME x \notin {None, Some(<<>>)} PROVE Value(x) = Value(y)
    OBVIOUS
  <2>1. l \in Here(a) /\ l \in Here(b)
    BY <1>2, <1>3
  <2> HIDE DEF Here
  <2> QED BY <2>1, <1>1, <1>2
<1>5. IsOption(x, Seq(STRING)) /\ IsOption(y, Seq(STRING))
  BY <1>2
<1> HIDE DEF Here
<1>6. ASSUME NEW v, IsOption(v, Seq(STRING)) PROVE v = <<>> \/ v = <<v[1]>>
  <2>1. v \in Seq(Seq(STRING)) /\ Len(v) <= 1
    BY <1>6 DEF IsOption
  <2>2. \A n \in Nat : n <= 1 => n = 0 \/ n = 1
    OBVIOUS
  <2>3. Len(v) = 0 \/ Len(v) = 1
    <3>1. PICK n \in Nat : n = Len(v) /\ n <= 1
      BY <2>1
    <3> QED BY <3>1, <2>2
  <2>4. Len(v) = 0 => v = <<>>
    BY <2>1
  <2>5. Len(v) = 1 => v = <<v[1]>>
    BY <2>1
  <2> QED BY <2>3, <2>4, <2>5
<1>7. x \in {None, Some(<<>>)}
  <2> SUFFICES ASSUME x \notin {None, Some(<<>>)} PROVE FALSE
    OBVIOUS
  <2>1. x # <<>> /\ y # <<>>
    BY <1>3 DEF None
  <2>2. x = <<x[1]>> /\ y = <<y[1]>>
    BY <2>1, <1>5, <1>6
  <2>3. x[1] = y[1]
    BY <1>4 DEF Value
  <2> QED BY <2>2, <2>3, <1>2, Zenon
<1>8. y \in {None, Some(<<>>)}
  BY <1>3, <1>7
<1>9. NullAndEmpty(x, y)
  BY <1>2, <1>7, <1>8, Zenon DEF NullAndEmpty
<1> QED BY <1>2, <1>9

(* Two points of a series, the first before the second. *)
Apart(a, b) ==
    \/ a.time < b.time
    \/ a.time = b.time /\ \E l \in DOMAIN a.labels : NullAndEmpty(a.labels[l], b.labels[l])

(* What RangePartition says of a response and the ticks of its buckets. *)
Partitioned(series, ticks) ==
    /\ \A s \in Used(series) : Cardinality({row \in Points(series) : s \in row.of}) = 1
    /\ \A row \in Points(series) : \A s \in row.of :
           row.time <= s.time /\ s.time < row.time + ticks
    /\ \A key \in DOMAIN series : \A i, j \in DOMAIN series[key] : i < j =>
           LET a == series[key][i]
               b == series[key][j]
           IN  \/ a.time < b.time
               \/ a.time = b.time /\ \E l \in DOMAIN a.labels :
                      {a.labels[l], b.labels[l]} = {None, Some(<<>>)}

(* execute_metric: a sample counts once, in its bucket. *)
LEMMA PartitionStep ==
    ASSUME QueryMetricRange
    PROVE  RangePartition'
<1>0. SUFFICES ASSUME IsSome(call'.out) PROVE Partitioned(Value(call'.out), Ticks(call'.in.step))
  BY Zenon DEF RangePartition, Partitioned, Ticks
<1>1. PICK tables, prom, bounds, plan, rows, series : SeriesOf(tables, prom, bounds, plan, rows, series)
  BY <1>0, SeriesCalled
<1>2. PICK source : source = Source(tables, prom, bounds)
  OBVIOUS
<1>3. PICK labels : labels = ToSet(RangeGroupBy(prom))
  OBVIOUS
<1>4. /\ tables \in MetricTables /\ prom \in MetricPlans /\ plan.step \in Int
      /\ Answered(rows, source, plan) /\ plan.forward = TRUE /\ plan.group_by = RangeGroupBy(prom)
      /\ Groups(series, rows, labels)
      /\ call'.in.step = plan.step /\ Value(call'.out) = series
  BY <1>1, <1>2, <1>3 DEF SeriesOf, Value
<1>5. PICK result, T : /\ rows = result.rows
                       /\ Bucketed(T, source, plan)
                       /\ FirstRows(result, T, plan.forward, plan.limit)
  BY <1>4 DEF Answered
<1>6. /\ rows \in Seq(T)
      /\ \A i, j \in 1 .. Len(rows) : rows[i] = rows[j] => i = j
      /\ \A i, j \in 1 .. Len(rows) : i < j => rows[i].time <= rows[j].time
  BY <1>4, <1>5 DEF FirstRows, InOrder
<1>7. Points(series) = ToSet(rows) /\ ToSet(rows) \subseteq T
  <2>1. Points(series) = ToSet(rows)
    BY <1>4, <1>6, PointsAreRows
  <2>2. ToSet(rows) \subseteq T
    BY <1>6 DEF ToSet
  <2> QED BY <2>1, <2>2
<1>8. /\ \A row \in T : row.time \in Int
      /\ \A row \in T : /\ row.of \subseteq source /\ row.of # {}
                        /\ \A s \in row.of : row.time = Bucket(s.time, plan.step) /\ row.labels = GroupOf(s, plan.group_by)
      /\ \A row, other \in T : row.time = other.time /\ row.labels = other.labels => row = other
      /\ \A s \in source : s.time \in Int
  BY <1>5 DEF Bucketed, IsTable
<1>9. ASSUME NEW s \in Used(series)
      PROVE  Cardinality({row \in Points(series) : s \in row.of}) = 1
  <2>1. PICK row \in Points(series) : s \in row.of
    BY DEF Used
  <2>2. \A other \in Points(series) : s \in other.of => other = row
    BY <2>1, <1>7, <1>8
  <2>3. {other \in Points(series) : s \in other.of} = {row}
    BY <2>1, <2>2
  <2> QED BY <2>3, FS_Singleton
<1>10. ASSUME NEW row \in Points(series), NEW s \in row.of
       PROVE  row.time <= s.time /\ s.time < row.time + Ticks(plan.step)
  <2>1. row \in T /\ s.time \in Int /\ row.time = Bucket(s.time, plan.step)
    BY <1>7, <1>8
  <2> QED BY <2>1, <1>4, BucketFacts
<1>11. ASSUME NEW row \in T
       PROVE  /\ DOMAIN row.labels = labels
              /\ \A l \in labels : IsOption(row.labels[l], Seq(STRING))
  <2>1. PICK s \in source : row.labels = GroupOf(s, plan.group_by)
    BY <1>8
  <2>2. row.labels = [l \in labels |-> s.labels[l]]
    BY <2>1, <1>3, <1>4 DEF GroupOf
  <2>3. s \in tables.gauge \cup tables.sum
    BY <1>2, <1>4, PlanAssumption DEF Source, Matching
  <2>4. \A l \in labels : IsOption(s.labels[l], Seq(STRING))
    BY <2>3, <1>3, <1>4, PlanAssumption
  <2> QED BY <2>2, <2>4
<1>12. PICK m \in Nat : m = Len(rows)
  BY <1>6
<1> DEFINE P(key) == {i \in 1 .. m : Shown(rows[i], labels) = key}
<1>13. ASSUME NEW key \in DOMAIN series, NEW i \in DOMAIN series[key], NEW j \in DOMAIN series[key],
              i < j,
              NEW a, a = series[key][i], NEW b, b = series[key][j]
       PROVE  Apart(a, b)
  <2>1. PICK c \in Nat : \E at \in [1 .. c -> P(key)] :
          /\ series[key] = [k \in 1 .. c |-> rows[at[k]]]
          /\ \A k, l \in 1 .. c : k < l => at[k] < at[l]
    <3>1. Picked(series[key], rows, P(key))
      BY <1>4, <1>12 DEF Groups
    <3> HIDE DEF P
    <3> QED BY <3>1 DEF Picked
  <2>2. PICK at \in [1 .. c -> P(key)] :
          /\ series[key] = [k \in 1 .. c |-> rows[at[k]]]
          /\ \A k, l \in 1 .. c : k < l => at[k] < at[l]
    BY <2>1
  <2>3. i \in 1 .. c /\ j \in 1 .. c /\ a = rows[at[i]] /\ b = rows[at[j]] /\ at[i] < at[j]
    BY <2>2, <1>13
  <2>4. PICK p \in P(key), q \in P(key) : p = at[i] /\ q = at[j]
    BY <2>2, <2>3
  <2>5. p \in 1 .. m /\ q \in 1 .. m /\ p < q /\ a = rows[p] /\ b = rows[q]
    BY <2>3, <2>4
  <2>6. Shown(a, labels) = Shown(b, labels)
    BY <2>4, <2>5
  <2>7. a \in T /\ b \in T /\ a.time <= b.time
    BY <2>5, <1>6, <1>12
  <2>8. a # b
    <3>1. p # q
      BY <2>5
    <3> QED BY <3>1, <2>5, <1>6, <1>12
  <2>9. CASE a.time # b.time
    <3>1. a.time < b.time
      BY <2>7, <2>9, <1>8
    <3> QED BY <3>1 DEF Apart
  <2>10. CASE a.time = b.time
    <3>1. a.labels # b.labels
      BY <2>7, <2>8, <2>10, <1>8
    <3>2. /\ DOMAIN a.labels = labels /\ DOMAIN b.labels = labels
          /\ \A l \in labels : IsOption(a.labels[l], Seq(STRING)) /\ IsOption(b.labels[l], Seq(STRING))
      BY <2>7, <1>11
    <3>3. PICK l \in labels : a.labels[l] # b.labels[l]
      <4>1. PICK s, t : a.labels = GroupOf(s, plan.group_by) /\ b.labels = GroupOf(t, plan.group_by)
        BY <2>7, <1>8
      <4> QED BY <4>1, <3>1, <1>3, <1>4 DEF GroupOf
    <3>4. NullAndEmpty(a.labels[l], b.labels[l])
      BY <3>2, <3>3, <2>6, ShownAlike
    <3> QED BY <3>2, <3>4, <2>10 DEF Apart
  <2> QED BY <2>9, <2>10
<1> HIDE DEF P
<1>14. Partitioned(series, Ticks(plan.step))
  <2>1. \A s \in Used(series) : Cardinality({row \in Points(series) : s \in row.of}) = 1
    BY <1>9
  <2>2. \A row \in Points(series) : \A s \in row.of :
           row.time <= s.time /\ s.time < row.time + Ticks(plan.step)
    BY <1>10
  <2>3. \A key \in DOMAIN series : \A i, j \in DOMAIN series[key] : i < j =>
           LET a == series[key][i]
               b == series[key][j]
           IN  \/ a.time < b.time
               \/ a.time = b.time /\ \E l \in DOMAIN a.labels :
                      {a.labels[l], b.labels[l]} = {None, Some(<<>>)}
    <3>1. \A key \in DOMAIN series : \A i, j \in DOMAIN series[key] :
            i < j => Apart(series[key][i], series[key][j])
      BY <1>13
    <3> QED BY <3>1 DEF Apart, NullAndEmpty
  <2> QED BY <2>1, <2>2, <2>3, Zenon DEF Partitioned
<1> QED BY <1>4, <1>14

(* prometheus_query: the newest bucket. *)
LEMMA InstantStep ==
    ASSUME QueryMetrics
    PROVE  InstantNewest'
<1>0. SUFFICES ASSUME IsSome(call'.out)
               PROVE  LET source == Source(call'.in.tables, call'.in.plan, InstantBounds(call'.in.at))
                          used == Value(call'.out)[1].of
                          newest == MaxOf({s.time : s \in source})
                      IN  IF source = {} THEN Value(call'.out) = <<>>
                          ELSE /\ used # {} /\ used \subseteq source
                               /\ \A s \in used : Bucket(s.time, InstantSecs) = Bucket(newest, InstantSecs)
  BY DEF InstantNewest
<1>1. PICK tables \in MetricTables, prom \in MetricPlans, at \in Instants :
        Call("instant", [tables |-> tables, plan |-> prom, at |-> at], prometheus_query(tables, prom, at))
  BY DEF QueryMetrics
<1>2. PICK plan : plan = InstantPlan(prom, at)
  OBVIOUS
<1>3. /\ plan.metric_name = prom.metric_name /\ plan.filters = prom.filters
      /\ plan.signal = prom.signal /\ plan.bounds = InstantBounds(at) /\ plan.step = InstantSecs
      /\ plan.forward = FALSE /\ plan.limit = 1
  BY <1>2 DEF InstantPlan, MetricPlan
<1>4. IsPlan(plan)
  <2>1. prom.signal \in {"gauge", "sum"} /\ InstantSecs \in Int /\ 1 \in Nat \ {0}
    BY PlanAssumption, ScaleAssumption
  <2> QED BY <2>1, <1>3 DEF IsPlan
<1>5. PICK answer : answer = MetricAnswer(tables, plan)
  OBVIOUS
<1>6. PICK rows : rows = Value(answer)
  OBVIOUS
<1>7. PICK point : point = [metric |-> Shown(rows[Len(rows)], DOMAIN rows[Len(rows)].labels), at |-> at,
                            of |-> rows[Len(rows)].of,
                            zero |-> NullValue(rows[Len(rows)], prom.aggregation)]
  OBVIOUS
<1>8. call'.out = IF answer = None THEN None ELSE IF rows = <<>> THEN Some(<<>>) ELSE Some(<<point>>)
  BY <1>1, <1>2, <1>5, <1>6, <1>7 DEF Call, prometheus_query
<1>9. IsSome(answer)
  BY <1>0, <1>8 DEF IsSome, None
<1>10. PICK source : source = Source(tables, prom, InstantBounds(at))
  OBVIOUS
<1>11. Answered(rows, source, plan)
  <2>1. Answered(rows, Source(tables, plan, plan.bounds), plan)
    BY <1>4, <1>5, <1>6, <1>9, AnswerFromSource
  <2> QED BY <2>1, <1>3, <1>10, SameSource
<1>12. PICK result, T : /\ rows = result.rows
                        /\ Bucketed(T, source, plan)
                        /\ FirstRows(result, T, plan.forward, plan.limit)
  BY <1>11 DEF Answered
<1>13. /\ rows \in Seq(T) /\ Len(rows) <= 1
       /\ \A x \in T : (\E i \in 1 .. Len(rows) : rows[i] = x) \/ (\A i \in 1 .. Len(rows) : x.time <= rows[i].time)
       /\ T # {} => rows # <<>>
  BY <1>3, <1>12 DEF FirstRows, InOrder
<1>14. /\ IsTable(T) /\ IsTable(source)
       /\ \A row \in T : /\ row.of \subseteq source /\ row.of # {}
                         /\ \A s \in row.of : row.time = Bucket(s.time, InstantSecs)
       /\ \A s \in source : \E row \in T : s \in row.of
  BY <1>3, <1>12 DEF Bucketed
<1>15. source = Source(call'.in.tables, call'.in.plan, InstantBounds(call'.in.at))
  BY <1>1, <1>10 DEF Call
<1>16. CASE source = {}
  <2>1. \A row \in T : FALSE
    BY <1>14, <1>16
  <2>2. rows = <<>>
    BY <2>1, <1>13
  <2>3. Value(call'.out) = <<>>
    BY <2>2, <1>8, <1>9 DEF IsSome, None, Some, Value
  <2> QED BY <2>3, <1>15, <1>16
<1>17. CASE source # {}
  <2>1. T # {}
    BY <1>14, <1>17
  <2>2. rows # <<>> /\ Len(rows) = 1
    <3>1. \A n \in Nat : n <= 1 => n = 0 \/ n = 1
      OBVIOUS
    <3>2. PICK n \in Nat : n = Len(rows) /\ n <= 1
      BY <1>13
    <3>3. rows # <<>> /\ n # 0
      BY <2>1, <3>2, <1>13
    <3> QED BY <3>1, <3>2, <3>3
  <2>3. PICK row \in T : row = rows[1] /\ \A x \in T : x.time <= row.time
    <3>1. rows[1] \in T
      BY <2>2, <1>13
    <3>2. \A x \in T : x = rows[1] \/ x.time <= rows[1].time
      BY <2>2, <1>13
    <3>3. \A x \in T : x.time \in Int
      BY <1>14 DEF IsTable
    <3> QED BY <3>1, <3>2, <3>3
  <2>4. Value(call'.out)[1].of = row.of
    <3>1. call'.out = <<<<point>>>>
      BY <2>2, <1>8, <1>9 DEF IsSome, None, Some
    <3>2. point.of = row.of
      BY <2>2, <2>3, <1>7
    <3>3. Value(call'.out)[1] = point
      BY <3>1 DEF Value
    <3> QED BY <3>2, <3>3
  <2> DEFINE times == {s.time : s \in source}
  <2>5. IsFiniteSet(times) /\ times # {} /\ times \subseteq Int
    <3> DEFINE f == [s \in source |-> s.time]
    <3>1. times = {f[s] : s \in source} /\ DOMAIN f = source
      OBVIOUS
    <3>2. IsFiniteSet(source) /\ \A s \in source : s.time \in Int
      BY <1>14 DEF IsTable
    <3>3. times # {} /\ times \subseteq Int
      BY <3>2, <1>17
    <3> HIDE DEF f, times
    <3> QED BY <3>1, <3>2, <3>3, ImageFinite
  <2>6. PICK newest \in Int : newest = MaxOf(times) /\ newest \in times /\ \A v \in times : v <= newest
    <3> HIDE DEF times
    <3> QED BY <2>5, MaxOfIs
  <2>7. InstantSecs \in Int
    BY ScaleAssumption
  <2>8. PICK b \in Int : b = Bucket(newest, InstantSecs)
    BY <2>6, <2>7, BucketFacts
  <2>9. b <= row.time
    <3>1. PICK s \in source : s.time = newest
      BY <2>6
    <3>2. PICK x \in T : s \in x.of
      BY <1>14
    <3>3. x.time = b
      BY <3>1, <3>2, <2>8, <1>14
    <3> QED BY <3>3, <2>3
  <2>10. ASSUME NEW s \in row.of
         PROVE  Bucket(s.time, InstantSecs) = b
    <3>1. s \in source /\ row.time = Bucket(s.time, InstantSecs)
      BY <2>3, <1>14
    <3>2. s.time \in Int /\ s.time <= newest
      BY <3>1, <2>6, <1>14 DEF IsTable
    <3>3. Bucket(s.time, InstantSecs) \in Int /\ Bucket(s.time, InstantSecs) <= b
      BY <3>2, <2>6, <2>7, <2>8, BucketFacts
    <3> QED BY <3>1, <3>3, <2>8, <2>9
  <2>11. row.of # {} /\ row.of \subseteq source
    BY <2>3, <1>14
  <2> QED BY <2>4, <2>6, <2>8, <2>10, <2>11, <1>15, <1>17
<1> QED BY <1>16, <1>17

(* No row is lost, repeated, mixed in or out of place on its way from the  *)
(* tables to a response, for all finite tables, all windows, limits and    *)
(* steps: windows tile, a matcher and its negation partition the rows, the *)
(* truncated flag is exact, every log line is in its stream and in order,  *)
(* samples are counted once and never mixed across tables, an instant      *)
(* query answers from the newest bucket, and a trace row counts its spans  *)
(* (execute_logs, execute_metric, execute_trace_search, wrap_rows and the  *)
(* adapters of src/compat).                                                *)
THEOREM AlwaysAnswersExact == Spec => []AnswersExact
<1> DEFINE Logs == TruncatedIsExact /\ LinesInOrder
           Series == FallbackNeverMixes /\ RangePartition
<1>1. /\ ~Made("window") => RangesTile
      /\ ~Made("match") => MatchersPartition
      /\ ~Made("logs") => Logs
      /\ ~Made("series") => Series
      /\ ~Made("instant") => InstantNewest
      /\ ~Made("search") => SearchCountsSpans
      /\ ~Made("span") => RenderingsAgree
  BY Zenon DEF RangesTile, MatchersPartition, TruncatedIsExact, LinesInOrder, FallbackNeverMixes,
         RangePartition, InstantNewest, SearchCountsSpans, RenderingsAgree
<1>2. /\ ~Made("window")' => RangesTile'
      /\ ~Made("match")' => MatchersPartition'
      /\ ~Made("logs")' => Logs'
      /\ ~Made("series")' => Series'
      /\ ~Made("instant")' => InstantNewest'
      /\ ~Made("search")' => SearchCountsSpans'
      /\ ~Made("span")' => RenderingsAgree'
  BY Zenon DEF RangesTile, MatchersPartition, TruncatedIsExact, LinesInOrder, FallbackNeverMixes,
         RangePartition, InstantNewest, SearchCountsSpans, RenderingsAgree
<1>3. Init => AnswersExact
  <2>1. Init => /\ ~Made("window") /\ ~Made("match") /\ ~Made("logs") /\ ~Made("series")
                /\ ~Made("instant") /\ ~Made("search") /\ ~Made("span")
    BY DEF Init, Idle, Made
  <2> QED BY <1>1, <2>1, Zenon DEF AnswersExact
<1>4. AnswersExact /\ [Next]_call => AnswersExact'
  <2> SUFFICES ASSUME AnswersExact, [Next]_call PROVE AnswersExact'
    OBVIOUS
  <2>1. CASE UNCHANGED call
    <3>1. RangesTile' /\ MatchersPartition' /\ RenderingsAgree'
      BY <2>1 DEF AnswersExact, RangesTile, MatchersPartition, RenderingsAgree, Made
    <3>2. TruncatedIsExact'
      BY <2>1 DEF AnswersExact, TruncatedIsExact, Made
    <3>3. LinesInOrder'
      BY <2>1 DEF AnswersExact, LinesInOrder, Made
    <3>4. FallbackNeverMixes'
      BY <2>1 DEF AnswersExact, FallbackNeverMixes, Made
    <3>5. RangePartition'
      <4> DEFINE Holds(c) == c.of = "series" /\ IsSome(c.out) => Partitioned(Value(c.out), Ticks(c.in.step))
      <4>1. RangePartition => Holds(call)
        BY Zenon DEF RangePartition, Partitioned, Ticks, Made
      <4>2. Holds(call)' => RangePartition'
        BY Zenon DEF RangePartition, Partitioned, Ticks, Made
      <4>3. Holds(call)
        BY <4>1 DEF AnswersExact
      <4> QED BY <4>2, <4>3, <2>1
    <3>6. InstantNewest'
      BY <2>1 DEF AnswersExact, InstantNewest, Made
    <3>7. SearchCountsSpans'
      BY <2>1 DEF AnswersExact, SearchCountsSpans, Made
    <3> QED BY <3>1, <3>2, <3>3, <3>4, <3>5, <3>6, <3>7 DEF AnswersExact
  <2>2. CASE ~UNCHANGED call
    <3>1. /\ Made("window")' => SplitWindow
          /\ Made("match")' => MatchRow
          /\ Made("logs")' => QueryLogs
          /\ Made("series")' => QueryMetricRange
          /\ Made("instant")' => QueryMetrics
          /\ Made("search")' => SearchTraces
          /\ Made("span")' => RenderSpan
      BY <2>2, MadeBy DEF Idle, Made
    <3> QED BY <3>1, <1>2, WindowStep, MatchStep, TruncatedStep, LinesStep, FallbackStep,
               PartitionStep, InstantStep, SearchStep, SpanStep, Zenon DEF AnswersExact
  <2> QED BY <2>1, <2>2
<1> QED BY <1>3, <1>4, PTL DEF Spec

-----------------------------------------------------------------------------
(***************************************************************************)
(* Queries.                                                                *)
(***************************************************************************)
(* What normalize_matchers returns for one text never asks two values of a *)
(* label, whatever text it is called on.                                   *)
LEMMA NormalizedConsistent ==
    ASSUME NEW matchers, NEW scope, IsSome(normalize_matchers(matchers, scope))
    PROVE  \A m, n \in ToSet(Value(normalize_matchers(matchers, scope))) :
               m.field = n.field /\ m.op = "Eq" /\ n.op = "Eq" => m.value = n.value
<1>1. PICK c : c = Canonicalized(matchers, scope)
  OBVIOUS
<1>2. normalize_matchers(matchers, scope) = <<c>> /\ ~Conflicting(c)
  BY <1>1 DEF normalize_matchers, IsSome, None, Some
<1>3. \A m, n \in ToSet(c) : m.field = n.field /\ m.op = "Eq" /\ n.op = "Eq" => m.value = n.value
  <2> SUFFICES ASSUME NEW i \in DOMAIN c, NEW j \in DOMAIN c,
                      c[i].field = c[j].field, c[i].op = "Eq", c[j].op = "Eq"
               PROVE  c[i].value = c[j].value
    BY DEF ToSet
  <2> QED BY <1>2 DEF Conflicting
<1> QED BY <1>2, <1>3 DEF Value

(* parse_loki_query refuses what normalize_matchers refuses. *)
LEMMA LogqlStep ==
    ASSUME ParseLogQuery
    PROVE  NoContradiction'
<1>0. SUFFICES ASSUME IsSome(call'.out)
               PROVE  \A m, n \in ToSet(Value(call'.out).matchers) :
                        m.field = n.field /\ m.op = "Eq" /\ n.op = "Eq" => m.value = n.value
  BY DEF NoContradiction
<1>1. PICK text : call'.out = parse_loki_query(text, "forward")
  BY DEF ParseLogQuery, Call
<1>2. PICK matchers : matchers = normalize_matchers(
                        Value(parse_selector_matchers(parse_log_pipeline(text).selector)).matchers, "Logs")
  OBVIOUS
<1>3. PICK filters, forward : call'.out = IF matchers = None THEN None ELSE
                         Some([matchers |-> Value(matchers), text_filters |-> filters, forward |-> forward])
  <2>1. CASE parse_selector_matchers(parse_log_pipeline(text).selector) = None
    <3>1. call'.out = <<>>
      BY <1>1, <2>1 DEF parse_loki_query, None
    <3> QED BY <3>1, <1>0 DEF IsSome
  <2>2. CASE parse_selector_matchers(parse_log_pipeline(text).selector) # None
    BY <1>1, <1>2, <2>2 DEF parse_loki_query
  <2> QED BY <2>1, <2>2
<1>4. matchers # None
  BY <1>0, <1>3 DEF IsSome, None
<1>5. Value(call'.out).matchers = Value(matchers)
  BY <1>3, <1>4 DEF Some, Value
<1>6. \A m, n \in ToSet(Value(matchers)) :
         m.field = n.field /\ m.op = "Eq" /\ n.op = "Eq" => m.value = n.value
  BY <1>2, <1>4, NormalizedConsistent DEF IsSome, None
<1> QED BY <1>5, <1>6

(* A plan of parse_prom_query never asks a rate of the gauges, whatever    *)
(* text it is made from.                                                   *)
LEMMA RateReadsSums ==
    ASSUME NEW text, parse_prom_query(text) # <<>>
    PROVE  \E plan : /\ parse_prom_query(text) = <<plan>>
                     /\ plan.signal \in {"gauge", "sum"}
                     /\ plan.aggregation = "rate" => plan.signal = "sum"
<1>1. PICK query : query = strip_outer_parens(text)
  OBVIOUS
<1>2. PICK outer, aggregation, name, filters :
        parse_prom_query(text) = Some(PromPlan(outer, aggregation, name, filters))
  BY <1>1 DEF parse_prom_query, AndThen
<1>3. PICK plan : plan = PromPlan(outer, aggregation, name, filters)
  OBVIOUS
<1>4. plan.aggregation = aggregation /\ plan.signal = metric_signal(name, aggregation)
  BY <1>3 DEF PromPlan
<1>5. plan.signal \in {"gauge", "sum"} /\ (plan.aggregation = "rate" => plan.signal = "sum")
  BY <1>4 DEF metric_signal
<1> QED BY <1>2, <1>3, <1>5 DEF Some

(* execute_metric refuses nothing but a rate of the gauges. *)
LEMMA AnswersUnlessGaugeRate ==
    ASSUME NEW tables, NEW plan, NEW at, plan.signal \in {"gauge", "sum"},
           plan.aggregation = "rate" => plan.signal = "sum"
    PROVE  IsSome(prometheus_query(tables, plan, at))
<1>1. PICK p : p = InstantPlan(plan, at)
  OBVIOUS
<1>2. p.signal = plan.signal /\ p.aggregation = plan.aggregation
  BY <1>1 DEF InstantPlan, MetricPlan
<1>3. \E r : execute_metric(tables, p, p.signal) = <<r>>
  BY <1>2 DEF execute_metric, Some
<1>4. execute_metric(tables, p, p.signal) # <<>>
  BY <1>3
<1>5. \E rows : MetricAnswer(tables, p) = <<rows>>
  BY <1>4 DEF MetricAnswer, None, Some
<1>6. MetricAnswer(tables, p) # <<>>
  BY <1>5
<1>7. \E answer : prometheus_query(tables, plan, at) = <<answer>>
  BY <1>1, <1>6 DEF prometheus_query, None, Some
<1> QED BY <1>7 DEF IsSome

(* parse_prom_query and execute_metric. *)
LEMMA PromqlStep ==
    ASSUME ParsePromQuery
    PROVE  PromAnswerable'
<1>0. PICK query \in PromQueries :
        LET plan == parse_prom_query(PromText(query))
        IN  Call("promql", query,
                 [plan |-> plan,
                  answer |-> AndThen(plan, LAMBDA p : prometheus_query(NoSamples, p, 0))])
  BY DEF ParsePromQuery
<1>1. PICK text :
        /\ call'.out.plan = parse_prom_query(text)
        /\ call'.out.plan # <<>> =>
             call'.out.answer = prometheus_query(NoSamples, parse_prom_query(text)[1], 0)
  <2>1. PICK text : text = PromText(query)
    OBVIOUS
  <2> QED BY <1>0, <2>1 DEF Call, AndThen
<1>2. SUFFICES ASSUME parse_prom_query(text) # <<>>
               PROVE  IsSome(call'.out.answer)
  BY <1>1 DEF PromAnswerable, IsSome
<1>3. PICK plan : /\ parse_prom_query(text) = <<plan>>
                  /\ plan.signal \in {"gauge", "sum"}
                  /\ plan.aggregation = "rate" => plan.signal = "sum"
  BY <1>2, RateReadsSums
<1>4. call'.out.answer = prometheus_query(NoSamples, plan, 0)
  BY <1>1, <1>2, <1>3
<1> QED BY <1>3, <1>4, AnswersUnlessGaugeRate

(* Of every query text: an accepted LogQL selector never asks two values   *)
(* of one label, under whatever aliases (normalize_matchers), and an       *)
(* accepted PromQL query is one that execute_metric can answer             *)
(* (parse_prom_query, metric_signal).  What a text is parsed to is left to *)
(* the model checker.                                                      *)
THEOREM AcceptedQueriesSound == Spec => [](NoContradiction /\ PromAnswerable)
<1>1. /\ ~Made("logql") => NoContradiction
      /\ ~Made("promql") => PromAnswerable
  BY DEF NoContradiction, PromAnswerable
<1>2. /\ ~Made("logql")' => NoContradiction'
      /\ ~Made("promql")' => PromAnswerable'
  BY DEF NoContradiction, PromAnswerable
<1>3. Init => NoContradiction /\ PromAnswerable
  BY <1>1 DEF Init, Idle, Made
<1>4. NoContradiction /\ PromAnswerable /\ [Next]_call => NoContradiction' /\ PromAnswerable'
  <2> SUFFICES ASSUME NoContradiction, PromAnswerable, [Next]_call
               PROVE  NoContradiction' /\ PromAnswerable'
    OBVIOUS
  <2>1. CASE UNCHANGED call
    BY <2>1 DEF NoContradiction, PromAnswerable, Made
  <2>2. CASE ~UNCHANGED call
    <3>1. (Made("logql")' => ParseLogQuery) /\ (Made("promql")' => ParsePromQuery)
      BY <2>2, MadeBy DEF Idle, Made
    <3> QED BY <3>1, <1>2, LogqlStep, PromqlStep, Zenon
  <2> QED BY <2>1, <2>2
<1> QED BY <1>3, <1>4, PTL DEF Spec

-----------------------------------------------------------------------------
(***************************************************************************)
(* The registry of labels.                                                 *)
(***************************************************************************)
(* Where the three parts of the table stand. *)
LEMMA LabelTable ==
    /\ DOMAIN LABELS = 1 .. 37
    /\ \A i \in 1 .. 13 : LABELS[i] = ResourceLabels[i]
    /\ \A i \in 14 .. 29 : LABELS[i] = RecordLabels[i - 13]
    /\ \A i \in 30 .. 37 : LABELS[i] = AttributeLabels[i - 29]
<1>1. PICK S : S = ToSet(ResourceLabels) \cup ToSet(RecordLabels) \cup ToSet(AttributeLabels)
  OBVIOUS
<1>2. PICK a, b, c : a = ResourceLabels /\ b = RecordLabels /\ c = AttributeLabels
  OBVIOUS
<1>3. /\ a \in Seq(ToSet(a)) /\ Len(a) = 13
      /\ b \in Seq(ToSet(b)) /\ Len(b) = 16
      /\ c \in Seq(ToSet(c)) /\ Len(c) = 8
  BY <1>2 DEF ResourceLabels, RecordLabels, AttributeLabels, ToSet
<1>4. a \in Seq(S) /\ b \in Seq(S) /\ c \in Seq(S)
  BY <1>1, <1>2, <1>3
<1>5. PICK ab : ab = a \o b
  OBVIOUS
<1>6. Joined(S, ab, a, b)
  BY <1>4, <1>5, ConcatJoins
<1>7. PICK all : all = ab \o c
  OBVIOUS
<1>8. Joined(S, all, ab, c)
  <2>1. ab \in Seq(S)
    BY <1>6 DEF Joined
  <2> QED BY <2>1, <1>4, <1>7, ConcatJoins
<1>9. LABELS = all
  BY <1>2, <1>5, <1>7 DEF LABELS
<1>10. /\ DOMAIN all = 1 .. 37
       /\ \A i \in 1 .. 29 : all[i] = ab[i]
       /\ \A i \in 1 .. 8 : all[29 + i] = c[i]
  BY <1>3, <1>6, <1>8 DEF Joined
<1>11. /\ \A i \in 1 .. 13 : ab[i] = a[i]
       /\ \A i \in 1 .. 16 : ab[13 + i] = b[i]
  BY <1>3, <1>6 DEF Joined
<1>12. \A i \in 1 .. 13 : all[i] = a[i]
  BY <1>10, <1>11
<1>13. ASSUME NEW i \in 14 .. 29 PROVE all[i] = b[i - 13]
  <2>1. i - 13 \in 1 .. 16 /\ 13 + (i - 13) = i /\ i \in 1 .. 29
    OBVIOUS
  <2> QED BY <2>1, <1>10, <1>11
<1>14. ASSUME NEW i \in 30 .. 37 PROVE all[i] = c[i - 29]
  <2>1. i - 29 \in 1 .. 8 /\ 29 + (i - 29) = i
    OBVIOUS
  <2> QED BY <2>1, <1>10
<1> QED BY <1>2, <1>9, <1>10, <1>12, <1>13, <1>14

(* The position of the label that a name means in a scope.  One name has   *)
(* two meanings: http.response.status_code is an alias of label 16, which  *)
(* metrics do not have, and of label 17, which only metrics have.          *)
Owner(scope, name) ==
    CASE name \in {"service_name", "service.name", "resource.service.name", "serviceName",
                     "service-name"} -> 1
      [] name \in {"service_namespace", "service.namespace", "resource.service.namespace",
                     "service-namespace"} -> 2
      [] name \in {"service_instance_id", "service.instance.id",
                     "resource.service.instance.id", "service-instance-id"} -> 3
      [] name \in {"deployment_environment", "deployment.environment",
                     "deployment_environment_name", "deployment-environment"} -> 4
      [] name \in {"host_name", "host.name", "resource.host.name", "host-name"} -> 5
      [] name \in {"k8s_cluster_name", "k8s.cluster.name"} -> 6
      [] name \in {"k8s_node_name", "k8s.node.name"} -> 7
      [] name \in {"k8s_statefulset_name", "k8s.statefulset.name"} -> 8
      [] name \in {"k8s_deployment_name", "k8s.deployment.name"} -> 9
      [] name \in {"scope_name", "instrumentationScope.name", "instrumentation_scope_name"} -> 10
      [] name \in {"severity_text", "severity.text"} -> 11
      [] name \in {"trace_id", "traceID"} -> 12
      [] name \in {"span_id", "spanID"} -> 13
      [] name \in {"http_route", "http.route", "http-route"} -> 14
      [] name \in {"http_method", "http.method", "http.request.method", "http-method"} -> 15
      [] scope # "Metrics" /\ name \in {"http_status_code", "http.status_code",
                     "http.response.status_code", "http-status-code"} -> 16
      [] scope = "Metrics" /\ name \in {"http_response_status_code",
                     "http.response.status_code"} -> 17
      [] name \in {"span_name", "span.name", "span-name", "name"} -> 18
      [] name \in {"status_code", "status.code", "status"} -> 19
      [] name \in {"job"} -> 20
      [] name \in {"instance"} -> 21
      [] name \in {"state"} -> 22
      [] name \in {"type"} -> 23
      [] name \in {"cpu"} -> 24
      [] name \in {"exporter"} -> 25
      [] name \in {"receiver"} -> 26
      [] name \in {"processor"} -> 27
      [] name \in {"otel_signal"} -> 28
      [] name \in {"data_type"} -> 29
      [] name \in {"postgresql_database_name", "postgresql.database.name"} -> 30
      [] name \in {"rpc_service", "rpc.service"} -> 31
      [] name \in {"rpc_method", "rpc.method"} -> 32
      [] name \in {"rpc_grpc_status_code", "rpc.grpc.status_code"} -> 33
      [] name \in {"server_address", "server.address"} -> 34
      [] name \in {"url_template", "url.template"} -> 35
      [] name \in {"db_namespace", "db.namespace"} -> 36
      [] name \in {"exception_type", "exception.type"} -> 37

(* The columns of text that the expressions of a scope read, and, of the   *)
(* spans, the status.                                                      *)
ReadableColumns(scope) ==
    {"service_name", "service_namespace", "service_instance_id", "resource_attributes"} \cup
    (IF scope = "Logs" THEN {"scope_name", "severity_text", "trace_id", "span_id", "log_attributes"}
     ELSE IF scope = "Spans" THEN {"name", "trace_id", "span_id", "status_code", "span_attributes"}
     ELSE {"metric_attributes"})

(* An expression reads only those, and attributes only under the names. *)
ReadsOnly(scope, expr, names) ==
    \A r \in expr : r.column \in ReadableColumns(scope) /\ (r.key = "" \/ r.key \in names)

(* What is true of every label. *)
SoundLabel(i, l) ==
    /\ DOMAIN l.sources \subseteq Scopes
    /\ l.canonical # "" /\ Names(l) \cap {"q", "!", "="} = {}
    /\ \A scope \in DOMAIN l.sources : \A name \in Names(l) : Owner(scope, name) = i
    /\ \A scope \in DOMAIN l.sources : ReadsOnly(scope, l.sources[scope], Names(l))
    /\ "Metrics" \in DOMAIN l.sources => l.canonical # "http_status_code"
    /\ IsSome(l.tempo_tag) => Value(l.tempo_tag) \in Names(l) /\ "Spans" \in DOMAIN l.sources
    /\ "Logs" \in l.project => "Logs" \in DOMAIN l.sources

(* The columns of the scopes. *)
LEMMA ReadableHas ==
    /\ \A scope : {"service_name", "service_namespace", "service_instance_id",
                   "resource_attributes"} \subseteq ReadableColumns(scope)
    /\ {"scope_name", "severity_text", "trace_id", "span_id", "log_attributes"}
           \subseteq ReadableColumns("Logs")
    /\ {"name", "trace_id", "span_id", "status_code", "span_attributes"}
           \subseteq ReadableColumns("Spans")
    /\ "metric_attributes" \in ReadableColumns("Metrics")
BY DEF ReadableColumns

(* An expression that reads one column or one key of it. *)
LEMMA ReadsOne ==
    ASSUME NEW scope, NEW names, NEW column, NEW key
    PROVE  ReadsOnly(scope, {Json(column, key)}, names) <=>
               column \in ReadableColumns(scope) /\ (key = "" \/ key \in names)
<1>1. PICK r : r = Json(column, key)
  OBVIOUS
<1>2. r.column = column /\ r.key = key
  BY <1>1 DEF Json
<1> QED BY <1>1, <1>2 DEF ReadsOnly

(* LabelSource::expr and the expressions of src/db/sql.rs. *)
LEMMA SourceReads ==
    ASSUME NEW names
    PROVE  /\ \A scope : \A c \in ReadableColumns(scope) : ReadsOnly(scope, Column(c), names)
           /\ \A k \in names : /\ \A scope : ReadsOnly(scope, ResourceAttr(k), names)
                             /\ ReadsOnly("Logs", LogAttr(k), names)
                             /\ ReadsOnly("Spans", SpanAttr(k), names)
                             /\ ReadsOnly("Metrics", MetricAttr(k), names)
           /\ \A scope : ReadsOnly(scope, Missing, names)
           /\ \A scope, a, b : ReadsOnly(scope, a, names) /\ ReadsOnly(scope, b, names)
                                  => ReadsOnly(scope, a \cup b, names)
<1>1. \A scope : ReadsOnly(scope, Missing, names)
  BY DEF ReadsOnly, Missing
<1>2. \A scope, a, b : ReadsOnly(scope, a, names) /\ ReadsOnly(scope, b, names)
                         => ReadsOnly(scope, a \cup b, names)
  BY DEF ReadsOnly
<1>3. \A scope : \A c \in ReadableColumns(scope) : ReadsOnly(scope, Column(c), names)
  BY ReadsOne, Zenon DEF Column
<1>4. \A scope : \A k \in names : ReadsOnly(scope, ResourceAttr(k), names)
  BY ReadsOne, ReadableHas DEF ResourceAttr
<1>5. \A k \in names : /\ ReadsOnly("Logs", LogAttr(k), names)
                       /\ ReadsOnly("Spans", SpanAttr(k), names)
                       /\ ReadsOnly("Metrics", MetricAttr(k), names)
  BY ReadsOne, ReadableHas DEF LogAttr, SpanAttr, MetricAttr
<1> QED BY <1>1, <1>2, <1>3, <1>4, <1>5

(* Label by label, of the table's first part. *)
LEMMA ResourceLabelsSound == \A i \in 1 .. 13 : SoundLabel(i, LABELS[i])
<1>1. SoundLabel(1, LABELS[1])
  <2>1. PICK l : /\ l = LABELS[1]
                 /\ l.canonical = "service_name" /\ l.aliases = {"service.name",
                    "resource.service.name", "serviceName", "service-name"}
                 /\ l.sources = Everywhere(Column("service_name"))
                 /\ l.tempo_tag = Some("service.name") /\ l.project = {"Logs"}
    BY LabelTable DEF Label, ResourceLabels, SERVICE_NAME_SOURCES
  <2>2. /\ ReadsOnly("Logs", Column("service_name"), Names(l))
        /\ ReadsOnly("Spans", Column("service_name"), Names(l))
        /\ ReadsOnly("Metrics", Column("service_name"), Names(l))
    BY <2>1, SourceReads, ReadableHas DEF Names
  <2>3. \A scope \in DOMAIN l.sources : ReadsOnly(scope, l.sources[scope], Names(l))
    BY <2>1, <2>2 DEF Everywhere, Scopes
  <2> QED BY <2>1, <2>3
          DEF SoundLabel, Owner, Names, Scopes, Everywhere, IsSome, Some, None, Value
<1>2. SoundLabel(2, LABELS[2])
  <2>1. PICK l : /\ l = LABELS[2]
                 /\ l.canonical = "service_namespace" /\ l.aliases = {"service.namespace",
                    "resource.service.namespace", "service-namespace"}
                 /\ l.sources = Everywhere(Column("service_namespace"))
                 /\ l.tempo_tag = Some("service.namespace") /\ l.project = {"Logs"}
    BY LabelTable DEF Label, ResourceLabels, SERVICE_NAMESPACE_SOURCES
  <2>2. /\ ReadsOnly("Logs", Column("service_namespace"), Names(l))
        /\ ReadsOnly("Spans", Column("service_namespace"), Names(l))
        /\ ReadsOnly("Metrics", Column("service_namespace"), Names(l))
    BY <2>1, SourceReads, ReadableHas DEF Names
  <2>3. \A scope \in DOMAIN l.sources : ReadsOnly(scope, l.sources[scope], Names(l))
    BY <2>1, <2>2 DEF Everywhere, Scopes
  <2> QED BY <2>1, <2>3
          DEF SoundLabel, Owner, Names, Scopes, Everywhere, IsSome, Some, None, Value
<1>3. SoundLabel(3, LABELS[3])
  <2>1. PICK l : /\ l = LABELS[3]
                 /\ l.canonical = "service_instance_id" /\ l.aliases = {"service.instance.id",
                    "resource.service.instance.id", "service-instance-id"}
                 /\ l.sources = Everywhere(Column("service_instance_id"))
                 /\ l.tempo_tag = Some("service.instance.id") /\ l.project = {"Logs"}
    BY LabelTable DEF Label, ResourceLabels, SERVICE_INSTANCE_SOURCES
  <2>2. /\ ReadsOnly("Logs", Column("service_instance_id"), Names(l))
        /\ ReadsOnly("Spans", Column("service_instance_id"), Names(l))
        /\ ReadsOnly("Metrics", Column("service_instance_id"), Names(l))
    BY <2>1, SourceReads, ReadableHas DEF Names
  <2>3. \A scope \in DOMAIN l.sources : ReadsOnly(scope, l.sources[scope], Names(l))
    BY <2>1, <2>2 DEF Everywhere, Scopes
  <2> QED BY <2>1, <2>3
          DEF SoundLabel, Owner, Names, Scopes, Everywhere, IsSome, Some, None, Value
<1>4. SoundLabel(4, LABELS[4])
  <2>1. PICK l : /\ l = LABELS[4]
                 /\ l.canonical = "deployment_environment" /\ l.aliases =
                    {"deployment.environment", "deployment_environment_name",
                    "deployment-environment"}
                 /\ l.sources = Everywhere(DeploymentEnvironment)
                 /\ l.tempo_tag = Some("deployment.environment") /\ l.project = {"Logs"}
    BY LabelTable DEF Label, ResourceLabels, DEPLOYMENT_ENV_SOURCES
  <2>2. /\ ReadsOnly("Logs", DeploymentEnvironment, Names(l))
        /\ ReadsOnly("Spans", DeploymentEnvironment, Names(l))
        /\ ReadsOnly("Metrics", DeploymentEnvironment, Names(l))
    BY <2>1, SourceReads, ReadableHas DEF Names, DeploymentEnvironment
  <2>3. \A scope \in DOMAIN l.sources : ReadsOnly(scope, l.sources[scope], Names(l))
    BY <2>1, <2>2 DEF Everywhere, Scopes
  <2> QED BY <2>1, <2>3
          DEF SoundLabel, Owner, Names, Scopes, Everywhere, IsSome, Some, None, Value
<1>5. SoundLabel(5, LABELS[5])
  <2>1. PICK l : /\ l = LABELS[5]
                 /\ l.canonical = "host_name" /\ l.aliases = {"host.name", "resource.host.name",
                    "host-name"}
                 /\ l.sources = Everywhere(ResourceAttr("host.name"))
                 /\ l.tempo_tag = Some("host.name") /\ l.project = {"Logs"}
    BY LabelTable DEF Label, ResourceLabels, HOST_NAME_SOURCES
  <2>2. /\ ReadsOnly("Logs", ResourceAttr("host.name"), Names(l))
        /\ ReadsOnly("Spans", ResourceAttr("host.name"), Names(l))
        /\ ReadsOnly("Metrics", ResourceAttr("host.name"), Names(l))
    BY <2>1, SourceReads, ReadableHas DEF Names
  <2>3. \A scope \in DOMAIN l.sources : ReadsOnly(scope, l.sources[scope], Names(l))
    BY <2>1, <2>2 DEF Everywhere, Scopes
  <2> QED BY <2>1, <2>3
          DEF SoundLabel, Owner, Names, Scopes, Everywhere, IsSome, Some, None, Value
<1>6. SoundLabel(6, LABELS[6])
  <2>1. PICK l : /\ l = LABELS[6]
                 /\ l.canonical = "k8s_cluster_name" /\ l.aliases = {"k8s.cluster.name"}
                 /\ l.sources = Everywhere(ResourceAttr("k8s.cluster.name"))
                 /\ l.tempo_tag = None /\ l.project = {}
    BY LabelTable DEF Label, ResourceLabels, K8S_CLUSTER_SOURCES
  <2>2. /\ ReadsOnly("Logs", ResourceAttr("k8s.cluster.name"), Names(l))
        /\ ReadsOnly("Spans", ResourceAttr("k8s.cluster.name"), Names(l))
        /\ ReadsOnly("Metrics", ResourceAttr("k8s.cluster.name"), Names(l))
    BY <2>1, SourceReads, ReadableHas DEF Names
  <2>3. \A scope \in DOMAIN l.sources : ReadsOnly(scope, l.sources[scope], Names(l))
    BY <2>1, <2>2 DEF Everywhere, Scopes
  <2> QED BY <2>1, <2>3
          DEF SoundLabel, Owner, Names, Scopes, Everywhere, IsSome, Some, None, Value
<1>7. SoundLabel(7, LABELS[7])
  <2>1. PICK l : /\ l = LABELS[7]
                 /\ l.canonical = "k8s_node_name" /\ l.aliases = {"k8s.node.name"}
                 /\ l.sources = Everywhere(ResourceAttr("k8s.node.name"))
                 /\ l.tempo_tag = None /\ l.project = {}
    BY LabelTable DEF Label, ResourceLabels, K8S_NODE_SOURCES
  <2>2. /\ ReadsOnly("Logs", ResourceAttr("k8s.node.name"), Names(l))
        /\ ReadsOnly("Spans", ResourceAttr("k8s.node.name"), Names(l))
        /\ ReadsOnly("Metrics", ResourceAttr("k8s.node.name"), Names(l))
    BY <2>1, SourceReads, ReadableHas DEF Names
  <2>3. \A scope \in DOMAIN l.sources : ReadsOnly(scope, l.sources[scope], Names(l))
    BY <2>1, <2>2 DEF Everywhere, Scopes
  <2> QED BY <2>1, <2>3
          DEF SoundLabel, Owner, Names, Scopes, Everywhere, IsSome, Some, None, Value
<1>8. SoundLabel(8, LABELS[8])
  <2>1. PICK l : /\ l = LABELS[8]
                 /\ l.canonical = "k8s_statefulset_name" /\ l.aliases = {"k8s.statefulset.name"}
                 /\ l.sources = Everywhere(ResourceAttr("k8s.statefulset.name"))
                 /\ l.tempo_tag = None /\ l.project = {}
    BY LabelTable DEF Label, ResourceLabels, K8S_STATEFULSET_SOURCES
  <2>2. /\ ReadsOnly("Logs", ResourceAttr("k8s.statefulset.name"), Names(l))
        /\ ReadsOnly("Spans", ResourceAttr("k8s.statefulset.name"), Names(l))
        /\ ReadsOnly("Metrics", ResourceAttr("k8s.statefulset.name"), Names(l))
    BY <2>1, SourceReads, ReadableHas DEF Names
  <2>3. \A scope \in DOMAIN l.sources : ReadsOnly(scope, l.sources[scope], Names(l))
    BY <2>1, <2>2 DEF Everywhere, Scopes
  <2> QED BY <2>1, <2>3
          DEF SoundLabel, Owner, Names, Scopes, Everywhere, IsSome, Some, None, Value
<1>9. SoundLabel(9, LABELS[9])
  <2>1. PICK l : /\ l = LABELS[9]
                 /\ l.canonical = "k8s_deployment_name" /\ l.aliases = {"k8s.deployment.name"}
                 /\ l.sources = Everywhere(ResourceAttr("k8s.deployment.name"))
                 /\ l.tempo_tag = Some("k8s.deployment.name") /\ l.project = {}
    BY LabelTable DEF Label, ResourceLabels, K8S_DEPLOYMENT_SOURCES
  <2>2. /\ ReadsOnly("Logs", ResourceAttr("k8s.deployment.name"), Names(l))
        /\ ReadsOnly("Spans", ResourceAttr("k8s.deployment.name"), Names(l))
        /\ ReadsOnly("Metrics", ResourceAttr("k8s.deployment.name"), Names(l))
    BY <2>1, SourceReads, ReadableHas DEF Names
  <2>3. \A scope \in DOMAIN l.sources : ReadsOnly(scope, l.sources[scope], Names(l))
    BY <2>1, <2>2 DEF Everywhere, Scopes
  <2> QED BY <2>1, <2>3
          DEF SoundLabel, Owner, Names, Scopes, Everywhere, IsSome, Some, None, Value
<1>10. SoundLabel(10, LABELS[10])
  <2>1. PICK l : /\ l = LABELS[10]
                 /\ l.canonical = "scope_name" /\ l.aliases = {"instrumentationScope.name",
                    "instrumentation_scope_name"}
                 /\ l.sources = [Logs |-> Column("scope_name")]
                 /\ l.tempo_tag = None /\ l.project = {"Logs"}
    BY LabelTable DEF Label, ResourceLabels, LOG_SCOPE_SOURCES
  <2>2. /\ ReadsOnly("Logs", Column("scope_name"), Names(l))
    BY <2>1, SourceReads, ReadableHas DEF Names
  <2>3. \A scope \in DOMAIN l.sources : ReadsOnly(scope, l.sources[scope], Names(l))
    BY <2>1, <2>2 DEF Everywhere, Scopes
  <2> QED BY <2>1, <2>3
          DEF SoundLabel, Owner, Names, Scopes, Everywhere, IsSome, Some, None, Value
<1>11. SoundLabel(11, LABELS[11])
  <2>1. PICK l : /\ l = LABELS[11]
                 /\ l.canonical = "severity_text" /\ l.aliases = {"severity.text"}
                 /\ l.sources = [Logs |-> Column("severity_text")]
                 /\ l.tempo_tag = None /\ l.project = {"Logs"}
    BY LabelTable DEF Label, ResourceLabels, LOG_SEVERITY_SOURCES
  <2>2. /\ ReadsOnly("Logs", Column("severity_text"), Names(l))
    BY <2>1, SourceReads, ReadableHas DEF Names
  <2>3. \A scope \in DOMAIN l.sources : ReadsOnly(scope, l.sources[scope], Names(l))
    BY <2>1, <2>2 DEF Everywhere, Scopes
  <2> QED BY <2>1, <2>3
          DEF SoundLabel, Owner, Names, Scopes, Everywhere, IsSome, Some, None, Value
<1>12. SoundLabel(12, LABELS[12])
  <2>1. PICK l : /\ l = LABELS[12]
                 /\ l.canonical = "trace_id" /\ l.aliases = {"traceID"}
                 /\ l.sources = [Logs |-> TraceIdHex, Spans |-> TraceIdHex]
                 /\ l.tempo_tag = Some("traceID") /\ l.project = {"Logs"}
    BY LabelTable DEF Label, ResourceLabels, TRACE_ID_SOURCES
  <2>2. /\ ReadsOnly("Logs", TraceIdHex, Names(l))
        /\ ReadsOnly("Spans", TraceIdHex, Names(l))
    BY <2>1, SourceReads, ReadableHas DEF Names, TraceIdHex
  <2>3. \A scope \in DOMAIN l.sources : ReadsOnly(scope, l.sources[scope], Names(l))
    BY <2>1, <2>2 DEF Everywhere, Scopes
  <2> QED BY <2>1, <2>3
          DEF SoundLabel, Owner, Names, Scopes, Everywhere, IsSome, Some, None, Value
<1>13. SoundLabel(13, LABELS[13])
  <2>1. PICK l : /\ l = LABELS[13]
                 /\ l.canonical = "span_id" /\ l.aliases = {"spanID"}
                 /\ l.sources = [Logs |-> SpanIdHex, Spans |-> SpanIdHex]
                 /\ l.tempo_tag = Some("spanID") /\ l.project = {"Logs"}
    BY LabelTable DEF Label, ResourceLabels, SPAN_ID_SOURCES
  <2>2. /\ ReadsOnly("Logs", SpanIdHex, Names(l))
        /\ ReadsOnly("Spans", SpanIdHex, Names(l))
    BY <2>1, SourceReads, ReadableHas DEF Names, SpanIdHex
  <2>3. \A scope \in DOMAIN l.sources : ReadsOnly(scope, l.sources[scope], Names(l))
    BY <2>1, <2>2 DEF Everywhere, Scopes
  <2> QED BY <2>1, <2>3
          DEF SoundLabel, Owner, Names, Scopes, Everywhere, IsSome, Some, None, Value
<1> QED BY <1>1, <1>2, <1>3, <1>4, <1>5, <1>6, <1>7, <1>8, <1>9, <1>10, <1>11, <1>12, <1>13

(* Label by label, of the table's second part. *)
LEMMA RecordLabelsSound == \A i \in 14 .. 29 : SoundLabel(i, LABELS[i])
<1>1. SoundLabel(14, LABELS[14])
  <2>1. PICK l : /\ l = LABELS[14]
                 /\ l.canonical = "http_route" /\ l.aliases = {"http.route", "http-route"}
                 /\ l.sources = [Logs |-> LogsHttpRoute, Spans |-> SpansHttpRoute, Metrics |->
                    MetricAttr("http.route")]
                 /\ l.tempo_tag = Some("http.route") /\ l.project = {"Logs"}
    BY LabelTable DEF Label, RecordLabels, HTTP_ROUTE_SOURCES
  <2>2. /\ ReadsOnly("Logs", LogsHttpRoute, Names(l))
        /\ ReadsOnly("Spans", SpansHttpRoute, Names(l))
        /\ ReadsOnly("Metrics", MetricAttr("http.route"), Names(l))
    BY <2>1, SourceReads, ReadableHas DEF Names, LogsHttpRoute, SpansHttpRoute
  <2>3. \A scope \in DOMAIN l.sources : ReadsOnly(scope, l.sources[scope], Names(l))
    BY <2>1, <2>2 DEF Everywhere, Scopes
  <2> QED BY <2>1, <2>3
          DEF SoundLabel, Owner, Names, Scopes, Everywhere, IsSome, Some, None, Value
<1>2. SoundLabel(15, LABELS[15])
  <2>1. PICK l : /\ l = LABELS[15]
                 /\ l.canonical = "http_method" /\ l.aliases = {"http.method",
                    "http.request.method", "http-method"}
                 /\ l.sources = [Logs |-> LogsHttpMethod, Spans |-> SpansHttpMethod, Metrics |->
                    MetricAttr("http.request.method")]
                 /\ l.tempo_tag = Some("http.method") /\ l.project = {"Logs"}
    BY LabelTable DEF Label, RecordLabels, HTTP_METHOD_SOURCES
  <2>2. /\ ReadsOnly("Logs", LogsHttpMethod, Names(l))
        /\ ReadsOnly("Spans", SpansHttpMethod, Names(l))
        /\ ReadsOnly("Metrics", MetricAttr("http.request.method"), Names(l))
    BY <2>1, SourceReads, ReadableHas DEF Names, LogsHttpMethod, SpansHttpMethod
  <2>3. \A scope \in DOMAIN l.sources : ReadsOnly(scope, l.sources[scope], Names(l))
    BY <2>1, <2>2 DEF Everywhere, Scopes
  <2> QED BY <2>1, <2>3
          DEF SoundLabel, Owner, Names, Scopes, Everywhere, IsSome, Some, None, Value
<1>3. SoundLabel(16, LABELS[16])
  <2>1. PICK l : /\ l = LABELS[16]
                 /\ l.canonical = "http_status_code" /\ l.aliases = {"http.status_code",
                    "http.response.status_code", "http-status-code"}
                 /\ l.sources = [Logs |-> LogsHttpStatusCode, Spans |-> SpansHttpStatusCode]
                 /\ l.tempo_tag = Some("http.status_code") /\ l.project = {"Logs"}
    BY LabelTable DEF Label, RecordLabels, HTTP_STATUS_SOURCES
  <2>2. /\ ReadsOnly("Logs", LogsHttpStatusCode, Names(l))
        /\ ReadsOnly("Spans", SpansHttpStatusCode, Names(l))
    BY <2>1, SourceReads, ReadableHas DEF Names, LogsHttpStatusCode, SpansHttpStatusCode
  <2>3. \A scope \in DOMAIN l.sources : ReadsOnly(scope, l.sources[scope], Names(l))
    BY <2>1, <2>2 DEF Everywhere, Scopes
  <2> QED BY <2>1, <2>3
          DEF SoundLabel, Owner, Names, Scopes, Everywhere, IsSome, Some, None, Value
<1>4. SoundLabel(17, LABELS[17])
  <2>1. PICK l : /\ l = LABELS[17]
                 /\ l.canonical = "http_response_status_code" /\ l.aliases =
                    {"http.response.status_code"}
                 /\ l.sources = [Metrics |-> MetricAttr("http.response.status_code")]
                 /\ l.tempo_tag = None /\ l.project = {}
    BY LabelTable DEF Label, RecordLabels, HTTP_RESPONSE_STATUS_METRIC_SOURCES
  <2>2. /\ ReadsOnly("Metrics", MetricAttr("http.response.status_code"), Names(l))
    BY <2>1, SourceReads, ReadableHas DEF Names
  <2>3. \A scope \in DOMAIN l.sources : ReadsOnly(scope, l.sources[scope], Names(l))
    BY <2>1, <2>2 DEF Everywhere, Scopes
  <2> QED BY <2>1, <2>3
          DEF SoundLabel, Owner, Names, Scopes, Everywhere, IsSome, Some, None, Value
<1>5. SoundLabel(18, LABELS[18])
  <2>1. PICK l : /\ l = LABELS[18]
                 /\ l.canonical = "span_name" /\ l.aliases = {"span.name", "span-name", "name"}
                 /\ l.sources = [Spans |-> Column("name"), Metrics |-> MetricAttr("span.name")]
                 /\ l.tempo_tag = Some("span.name") /\ l.project = {}
    BY LabelTable DEF Label, RecordLabels, SPAN_NAME_SOURCES
  <2>2. /\ ReadsOnly("Spans", Column("name"), Names(l))
        /\ ReadsOnly("Metrics", MetricAttr("span.name"), Names(l))
    BY <2>1, SourceReads, ReadableHas DEF Names
  <2>3. \A scope \in DOMAIN l.sources : ReadsOnly(scope, l.sources[scope], Names(l))
    BY <2>1, <2>2 DEF Everywhere, Scopes
  <2> QED BY <2>1, <2>3
          DEF SoundLabel, Owner, Names, Scopes, Everywhere, IsSome, Some, None, Value
<1>6. SoundLabel(19, LABELS[19])
  <2>1. PICK l : /\ l = LABELS[19]
                 /\ l.canonical = "status_code" /\ l.aliases = {"status.code", "status"}
                 /\ l.sources = [Spans |-> Column("status_code"), Metrics |->
                    MetricAttr("status.code")]
                 /\ l.tempo_tag = Some("status.code") /\ l.project = {}
    BY LabelTable DEF Label, RecordLabels, STATUS_CODE_SOURCES
  <2>2. /\ ReadsOnly("Spans", Column("status_code"), Names(l))
        /\ ReadsOnly("Metrics", MetricAttr("status.code"), Names(l))
    BY <2>1, SourceReads, ReadableHas DEF Names
  <2>3. \A scope \in DOMAIN l.sources : ReadsOnly(scope, l.sources[scope], Names(l))
    BY <2>1, <2>2 DEF Everywhere, Scopes
  <2> QED BY <2>1, <2>3
          DEF SoundLabel, Owner, Names, Scopes, Everywhere, IsSome, Some, None, Value
<1>7. SoundLabel(20, LABELS[20])
  <2>1. PICK l : /\ l = LABELS[20]
                 /\ l.canonical = "job" /\ l.aliases = {}
                 /\ l.sources = [Metrics |-> Missing]
                 /\ l.tempo_tag = None /\ l.project = {}
    BY LabelTable DEF Label, RecordLabels, JOB_SOURCES
  <2>2. /\ ReadsOnly("Metrics", Missing, Names(l))
    BY <2>1, SourceReads, ReadableHas DEF Names
  <2>3. \A scope \in DOMAIN l.sources : ReadsOnly(scope, l.sources[scope], Names(l))
    BY <2>1, <2>2 DEF Everywhere, Scopes
  <2> QED BY <2>1, <2>3
          DEF SoundLabel, Owner, Names, Scopes, Everywhere, IsSome, Some, None, Value
<1>8. SoundLabel(21, LABELS[21])
  <2>1. PICK l : /\ l = LABELS[21]
                 /\ l.canonical = "instance" /\ l.aliases = {}
                 /\ l.sources = [Metrics |-> Missing]
                 /\ l.tempo_tag = None /\ l.project = {}
    BY LabelTable DEF Label, RecordLabels, INSTANCE_SOURCES
  <2>2. /\ ReadsOnly("Metrics", Missing, Names(l))
    BY <2>1, SourceReads, ReadableHas DEF Names
  <2>3. \A scope \in DOMAIN l.sources : ReadsOnly(scope, l.sources[scope], Names(l))
    BY <2>1, <2>2 DEF Everywhere, Scopes
  <2> QED BY <2>1, <2>3
          DEF SoundLabel, Owner, Names, Scopes, Everywhere, IsSome, Some, None, Value
<1>9. SoundLabel(22, LABELS[22])
  <2>1. PICK l : /\ l = LABELS[22]
                 /\ l.canonical = "state" /\ l.aliases = {}
                 /\ l.sources = [Metrics |-> MetricAttr("state")]
                 /\ l.tempo_tag = None /\ l.project = {}
    BY LabelTable DEF Label, RecordLabels, METRIC_STATE_SOURCES
  <2>2. /\ ReadsOnly("Metrics", MetricAttr("state"), Names(l))
    BY <2>1, SourceReads, ReadableHas DEF Names
  <2>3. \A scope \in DOMAIN l.sources : ReadsOnly(scope, l.sources[scope], Names(l))
    BY <2>1, <2>2 DEF Everywhere, Scopes
  <2> QED BY <2>1, <2>3
          DEF SoundLabel, Owner, Names, Scopes, Everywhere, IsSome, Some, None, Value
<1>10. SoundLabel(23, LABELS[23])
  <2>1. PICK l : /\ l = LABELS[23]
                 /\ l.canonical = "type" /\ l.aliases = {}
                 /\ l.sources = [Metrics |-> MetricAttr("type")]
                 /\ l.tempo_tag = None /\ l.project = {}
    BY LabelTable DEF Label, RecordLabels, METRIC_TYPE_SOURCES
  <2>2. /\ ReadsOnly("Metrics", MetricAttr("type"), Names(l))
    BY <2>1, SourceReads, ReadableHas DEF Names
  <2>3. \A scope \in DOMAIN l.sources : ReadsOnly(scope, l.sources[scope], Names(l))
    BY <2>1, <2>2 DEF Everywhere, Scopes
  <2> QED BY <2>1, <2>3
          DEF SoundLabel, Owner, Names, Scopes, Everywhere, IsSome, Some, None, Value
<1>11. SoundLabel(24, LABELS[24])
  <2>1. PICK l : /\ l = LABELS[24]
                 /\ l.canonical = "cpu" /\ l.aliases = {}
                 /\ l.sources = [Metrics |-> MetricAttr("cpu")]
                 /\ l.tempo_tag = None /\ l.project = {}
    BY LabelTable DEF Label, RecordLabels, METRIC_CPU_SOURCES
  <2>2. /\ ReadsOnly("Metrics", MetricAttr("cpu"), Names(l))
    BY <2>1, SourceReads, ReadableHas DEF Names
  <2>3. \A scope \in DOMAIN l.sources : ReadsOnly(scope, l.sources[scope], Names(l))
    BY <2>1, <2>2 DEF Everywhere, Scopes
  <2> QED BY <2>1, <2>3
          DEF SoundLabel, Owner, Names, Scopes, Everywhere, IsSome, Some, None, Value
<1>12. SoundLabel(25, LABELS[25])
  <2>1. PICK l : /\ l = LABELS[25]
                 /\ l.canonical = "exporter" /\ l.aliases = {}
                 /\ l.sources = [Metrics |-> MetricAttr("exporter")]
                 /\ l.tempo_tag = None /\ l.project = {}
    BY LabelTable DEF Label, RecordLabels, METRIC_EXPORTER_SOURCES
  <2>2. /\ ReadsOnly("Metrics", MetricAttr("exporter"), Names(l))
    BY <2>1, SourceReads, ReadableHas DEF Names
  <2>3. \A scope \in DOMAIN l.sources : ReadsOnly(scope, l.sources[scope], Names(l))
    BY <2>1, <2>2 DEF Everywhere, Scopes
  <2> QED BY <2>1, <2>3
          DEF SoundLabel, Owner, Names, Scopes, Everywhere, IsSome, Some, None, Value
<1>13. SoundLabel(26, LABELS[26])
  <2>1. PICK l : /\ l = LABELS[26]
                 /\ l.canonical = "receiver" /\ l.aliases = {}
                 /\ l.sources = [Metrics |-> MetricAttr("receiver")]
                 /\ l.tempo_tag = None /\ l.project = {}
    BY LabelTable DEF Label, RecordLabels, METRIC_RECEIVER_SOURCES
  <2>2. /\ ReadsOnly("Metrics", MetricAttr("receiver"), Names(l))
    BY <2>1, SourceReads, ReadableHas DEF Names
  <2>3. \A scope \in DOMAIN l.sources : ReadsOnly(scope, l.sources[scope], Names(l))
    BY <2>1, <2>2 DEF Everywhere, Scopes
  <2> QED BY <2>1, <2>3
          DEF SoundLabel, Owner, Names, Scopes, Everywhere, IsSome, Some, None, Value
<1>14. SoundLabel(27, LABELS[27])
  <2>1. PICK l : /\ l = LABELS[27]
                 /\ l.canonical = "processor" /\ l.aliases = {}
                 /\ l.sources = [Metrics |-> MetricAttr("processor")]
                 /\ l.tempo_tag = None /\ l.project = {}
    BY LabelTable DEF Label, RecordLabels, METRIC_PROCESSOR_SOURCES
  <2>2. /\ ReadsOnly("Metrics", MetricAttr("processor"), Names(l))
    BY <2>1, SourceReads, ReadableHas DEF Names
  <2>3. \A scope \in DOMAIN l.sources : ReadsOnly(scope, l.sources[scope], Names(l))
    BY <2>1, <2>2 DEF Everywhere, Scopes
  <2> QED BY <2>1, <2>3
          DEF SoundLabel, Owner, Names, Scopes, Everywhere, IsSome, Some, None, Value
<1>15. SoundLabel(28, LABELS[28])
  <2>1. PICK l : /\ l = LABELS[28]
                 /\ l.canonical = "otel_signal" /\ l.aliases = {}
                 /\ l.sources = [Metrics |-> MetricAttr("otel_signal")]
                 /\ l.tempo_tag = None /\ l.project = {}
    BY LabelTable DEF Label, RecordLabels, OTEL_SIGNAL_SOURCES
  <2>2. /\ ReadsOnly("Metrics", MetricAttr("otel_signal"), Names(l))
    BY <2>1, SourceReads, ReadableHas DEF Names
  <2>3. \A scope \in DOMAIN l.sources : ReadsOnly(scope, l.sources[scope], Names(l))
    BY <2>1, <2>2 DEF Everywhere, Scopes
  <2> QED BY <2>1, <2>3
          DEF SoundLabel, Owner, Names, Scopes, Everywhere, IsSome, Some, None, Value
<1>16. SoundLabel(29, LABELS[29])
  <2>1. PICK l : /\ l = LABELS[29]
                 /\ l.canonical = "data_type" /\ l.aliases = {}
                 /\ l.sources = [Metrics |-> MetricAttr("data_type")]
                 /\ l.tempo_tag = None /\ l.project = {}
    BY LabelTable DEF Label, RecordLabels, DATA_TYPE_SOURCES
  <2>2. /\ ReadsOnly("Metrics", MetricAttr("data_type"), Names(l))
    BY <2>1, SourceReads, ReadableHas DEF Names
  <2>3. \A scope \in DOMAIN l.sources : ReadsOnly(scope, l.sources[scope], Names(l))
    BY <2>1, <2>2 DEF Everywhere, Scopes
  <2> QED BY <2>1, <2>3
          DEF SoundLabel, Owner, Names, Scopes, Everywhere, IsSome, Some, None, Value
<1> QED BY <1>1, <1>2, <1>3, <1>4, <1>5, <1>6, <1>7, <1>8, <1>9, <1>10, <1>11, <1>12, <1>13,
           <1>14, <1>15, <1>16

(* Label by label, of the table's third part. *)
LEMMA AttributeLabelsSound == \A i \in 30 .. 37 : SoundLabel(i, LABELS[i])
<1>1. SoundLabel(30, LABELS[30])
  <2>1. PICK l : /\ l = LABELS[30]
                 /\ l.canonical = "postgresql_database_name" /\ l.aliases =
                    {"postgresql.database.name"}
                 /\ l.sources = [Metrics |-> MetricAttr("postgresql.database.name")]
                 /\ l.tempo_tag = None /\ l.project = {}
    BY LabelTable DEF Label, AttributeLabels, POSTGRES_DB_SOURCES
  <2>2. /\ ReadsOnly("Metrics", MetricAttr("postgresql.database.name"), Names(l))
    BY <2>1, SourceReads, ReadableHas DEF Names
  <2>3. \A scope \in DOMAIN l.sources : ReadsOnly(scope, l.sources[scope], Names(l))
    BY <2>1, <2>2 DEF Everywhere, Scopes
  <2> QED BY <2>1, <2>3
          DEF SoundLabel, Owner, Names, Scopes, Everywhere, IsSome, Some, None, Value
<1>2. SoundLabel(31, LABELS[31])
  <2>1. PICK l : /\ l = LABELS[31]
                 /\ l.canonical = "rpc_service" /\ l.aliases = {"rpc.service"}
                 /\ l.sources = [Spans |-> SpanAttr("rpc.service"), Metrics |->
                    MetricAttr("rpc.service")]
                 /\ l.tempo_tag = Some("rpc.service") /\ l.project = {}
    BY LabelTable DEF Label, AttributeLabels, RPC_SERVICE_SOURCES
  <2>2. /\ ReadsOnly("Spans", SpanAttr("rpc.service"), Names(l))
        /\ ReadsOnly("Metrics", MetricAttr("rpc.service"), Names(l))
    BY <2>1, SourceReads, ReadableHas DEF Names
  <2>3. \A scope \in DOMAIN l.sources : ReadsOnly(scope, l.sources[scope], Names(l))
    BY <2>1, <2>2 DEF Everywhere, Scopes
  <2> QED BY <2>1, <2>3
          DEF SoundLabel, Owner, Names, Scopes, Everywhere, IsSome, Some, None, Value
<1>3. SoundLabel(32, LABELS[32])
  <2>1. PICK l : /\ l = LABELS[32]
                 /\ l.canonical = "rpc_method" /\ l.aliases = {"rpc.method"}
                 /\ l.sources = [Spans |-> SpanAttr("rpc.method"), Metrics |->
                    MetricAttr("rpc.method")]
                 /\ l.tempo_tag = Some("rpc.method") /\ l.project = {}
    BY LabelTable DEF Label, AttributeLabels, RPC_METHOD_SOURCES
  <2>2. /\ ReadsOnly("Spans", SpanAttr("rpc.method"), Names(l))
        /\ ReadsOnly("Metrics", MetricAttr("rpc.method"), Names(l))
    BY <2>1, SourceReads, ReadableHas DEF Names
  <2>3. \A scope \in DOMAIN l.sources : ReadsOnly(scope, l.sources[scope], Names(l))
    BY <2>1, <2>2 DEF Everywhere, Scopes
  <2> QED BY <2>1, <2>3
          DEF SoundLabel, Owner, Names, Scopes, Everywhere, IsSome, Some, None, Value
<1>4. SoundLabel(33, LABELS[33])
  <2>1. PICK l : /\ l = LABELS[33]
                 /\ l.canonical = "rpc_grpc_status_code" /\ l.aliases = {"rpc.grpc.status_code"}
                 /\ l.sources = [Spans |-> SpanAttr("rpc.grpc.status_code"), Metrics |->
                    MetricAttr("rpc.grpc.status_code")]
                 /\ l.tempo_tag = Some("rpc.grpc.status_code") /\ l.project = {}
    BY LabelTable DEF Label, AttributeLabels, RPC_GRPC_STATUS_SOURCES
  <2>2. /\ ReadsOnly("Spans", SpanAttr("rpc.grpc.status_code"), Names(l))
        /\ ReadsOnly("Metrics", MetricAttr("rpc.grpc.status_code"), Names(l))
    BY <2>1, SourceReads, ReadableHas DEF Names
  <2>3. \A scope \in DOMAIN l.sources : ReadsOnly(scope, l.sources[scope], Names(l))
    BY <2>1, <2>2 DEF Everywhere, Scopes
  <2> QED BY <2>1, <2>3
          DEF SoundLabel, Owner, Names, Scopes, Everywhere, IsSome, Some, None, Value
<1>5. SoundLabel(34, LABELS[34])
  <2>1. PICK l : /\ l = LABELS[34]
                 /\ l.canonical = "server_address" /\ l.aliases = {"server.address"}
                 /\ l.sources = [Spans |-> SpanAttr("server.address"), Metrics |->
                    MetricAttr("server.address")]
                 /\ l.tempo_tag = Some("server.address") /\ l.project = {}
    BY LabelTable DEF Label, AttributeLabels, SERVER_ADDRESS_SOURCES
  <2>2. /\ ReadsOnly("Spans", SpanAttr("server.address"), Names(l))
        /\ ReadsOnly("Metrics", MetricAttr("server.address"), Names(l))
    BY <2>1, SourceReads, ReadableHas DEF Names
  <2>3. \A scope \in DOMAIN l.sources : ReadsOnly(scope, l.sources[scope], Names(l))
    BY <2>1, <2>2 DEF Everywhere, Scopes
  <2> QED BY <2>1, <2>3
          DEF SoundLabel, Owner, Names, Scopes, Everywhere, IsSome, Some, None, Value
<1>6. SoundLabel(35, LABELS[35])
  <2>1. PICK l : /\ l = LABELS[35]
                 /\ l.canonical = "url_template" /\ l.aliases = {"url.template"}
                 /\ l.sources = [Metrics |-> MetricAttr("url.template")]
                 /\ l.tempo_tag = None /\ l.project = {}
    BY LabelTable DEF Label, AttributeLabels, URL_TEMPLATE_SOURCES
  <2>2. /\ ReadsOnly("Metrics", MetricAttr("url.template"), Names(l))
    BY <2>1, SourceReads, ReadableHas DEF Names
  <2>3. \A scope \in DOMAIN l.sources : ReadsOnly(scope, l.sources[scope], Names(l))
    BY <2>1, <2>2 DEF Everywhere, Scopes
  <2> QED BY <2>1, <2>3
          DEF SoundLabel, Owner, Names, Scopes, Everywhere, IsSome, Some, None, Value
<1>7. SoundLabel(36, LABELS[36])
  <2>1. PICK l : /\ l = LABELS[36]
                 /\ l.canonical = "db_namespace" /\ l.aliases = {"db.namespace"}
                 /\ l.sources = [Spans |-> SpanAttr("db.namespace"), Metrics |->
                    MetricAttr("db.namespace")]
                 /\ l.tempo_tag = Some("db.namespace") /\ l.project = {}
    BY LabelTable DEF Label, AttributeLabels, DB_NAMESPACE_SOURCES
  <2>2. /\ ReadsOnly("Spans", SpanAttr("db.namespace"), Names(l))
        /\ ReadsOnly("Metrics", MetricAttr("db.namespace"), Names(l))
    BY <2>1, SourceReads, ReadableHas DEF Names
  <2>3. \A scope \in DOMAIN l.sources : ReadsOnly(scope, l.sources[scope], Names(l))
    BY <2>1, <2>2 DEF Everywhere, Scopes
  <2> QED BY <2>1, <2>3
          DEF SoundLabel, Owner, Names, Scopes, Everywhere, IsSome, Some, None, Value
<1>8. SoundLabel(37, LABELS[37])
  <2>1. PICK l : /\ l = LABELS[37]
                 /\ l.canonical = "exception_type" /\ l.aliases = {"exception.type"}
                 /\ l.sources = [Spans |-> SpanAttr("exception.type")]
                 /\ l.tempo_tag = Some("exception.type") /\ l.project = {}
    BY LabelTable DEF Label, AttributeLabels, EXCEPTION_TYPE_SOURCES
  <2>2. /\ ReadsOnly("Spans", SpanAttr("exception.type"), Names(l))
    BY <2>1, SourceReads, ReadableHas DEF Names
  <2>3. \A scope \in DOMAIN l.sources : ReadsOnly(scope, l.sources[scope], Names(l))
    BY <2>1, <2>2 DEF Everywhere, Scopes
  <2> QED BY <2>1, <2>3
          DEF SoundLabel, Owner, Names, Scopes, Everywhere, IsSome, Some, None, Value
<1> QED BY <1>1, <1>2, <1>3, <1>4, <1>5, <1>6, <1>7, <1>8

(* Every label is sound. *)
LEMMA LabelsSound == \A i \in DOMAIN LABELS : SoundLabel(i, LABELS[i])
<1>1. \A i \in 1 .. 37 : i \in 1 .. 13 \/ i \in 14 .. 29 \/ i \in 30 .. 37
  OBVIOUS
<1> QED BY <1>1, LabelTable, ResourceLabelsSound, RecordLabelsSound, AttributeLabelsSound, Zenon

(* The lookups, over the positions of the labels of a scope. *)
LEMMA LabelDefIs ==
    ASSUME NEW scope \in Scopes, NEW c
    PROVE  label_def(scope, c) = First(LABELS, {j \in Scoped[scope] : LABELS[j].canonical = c})
<1>1. Where(LABELS, scope) = Scoped[scope]
  BY DEF Scoped
<1> QED BY <1>1, Zenon DEF label_def, WithCanonical

LEMMA WithAliasIs ==
    ASSUME NEW scope \in Scopes, NEW raw
    PROVE  WithAlias(LABELS, scope, raw) =
             First(LABELS, {j \in Scoped[scope] : raw \in LABELS[j].aliases})
<1>1. Where(LABELS, scope) = Scoped[scope]
  BY DEF Scoped
<1> QED BY <1>1, Zenon DEF WithAlias

LEMMA PairsAre ==
    ASSUME NEW scope \in Scopes
    PROVE  alias_pairs[scope] = [raw \in UNION {Names(LABELS[j]) : j \in Scoped[scope]} |->
              Value(First(LABELS, {j \in Scoped[scope] : raw \in Names(LABELS[j])})).canonical]
<1>1. Where(LABELS, scope) = Scoped[scope]
  BY DEF Scoped
<1>2. alias_pairs[scope] = Pairs(LABELS, scope)
  BY DEF alias_pairs
<1> QED BY <1>1, <1>2, Zenon DEF Pairs

(* A name means one label in a scope. *)
LEMMA OneOwner ==
    ASSUME NEW scope \in Scopes, NEW i \in Scoped[scope], NEW name \in Names(LABELS[i])
    PROVE  /\ i \in DOMAIN LABELS /\ scope \in DOMAIN LABELS[i].sources
           /\ {j \in Scoped[scope] : name \in Names(LABELS[j])} = {i}
<1>1. \A j \in Scoped[scope] : j \in DOMAIN LABELS /\ scope \in DOMAIN LABELS[j].sources
  BY DEF Scoped, Where, has_scope
<1>2. \A j \in Scoped[scope] : name \in Names(LABELS[j]) => Owner(scope, name) = j
  BY <1>1, LabelsSound DEF SoundLabel
<1> QED BY <1>1, <1>2

(* find, where only one is found. *)
LEMMA FirstOne ==
    ASSUME NEW i \in DOMAIN LABELS
    PROVE  First(LABELS, {i}) = <<LABELS[i]>>
<1>1. i \in Int
  BY LabelTable
<1>2. (CHOOSE k \in {i} : \A j \in {i} : k <= j) = i
  BY <1>1
<1> QED BY <1>2 DEF First, Some

(* label_def and label_expr find a label under its canonical name. *)
LEMMA LabelDefined ==
    ASSUME NEW scope \in Scopes, NEW i \in Scoped[scope]
    PROVE  /\ label_def(scope, LABELS[i].canonical) = <<LABELS[i]>>
           /\ label_expr(scope, LABELS[i].canonical) = <<LABELS[i].sources[scope]>>
<1>1. PICK c : c = LABELS[i].canonical
  OBVIOUS
<1>2. \A j : LABELS[j].canonical \in Names(LABELS[j])
  BY DEF Names
<1>3. {j \in Scoped[scope] : LABELS[j].canonical = c} = {i}
  <2>1. c \in Names(LABELS[i])
    BY <1>1, <1>2
  <2>2. {j \in Scoped[scope] : c \in Names(LABELS[j])} = {i}
    BY <2>1, OneOwner
  <2> QED BY <1>1, <1>2, <2>2
<1>4. i \in DOMAIN LABELS
  BY DEF Scoped, Where
<1>5. label_def(scope, c) = <<LABELS[i]>>
  <2>1. label_def(scope, c) = First(LABELS, {j \in Scoped[scope] : LABELS[j].canonical = c})
    BY LabelDefIs
  <2>2. First(LABELS, {i}) = <<LABELS[i]>>
    BY <1>4, FirstOne
  <2> QED BY <1>3, <2>1, <2>2
<1>6. label_expr(scope, c) = <<LABELS[i].sources[scope]>>
  BY <1>5 DEF label_expr, None, Some, Value
<1> QED BY <1>1, <1>5, <1>6

(* A name of a label resolves to it, for the planners and the adapters. *)
LEMMA NameResolves ==
    ASSUME NEW scope \in Scopes, NEW i \in Scoped[scope], NEW name \in Names(LABELS[i])
    PROVE  /\ name \in DOMAIN alias_pairs[scope]
           /\ alias_pairs[scope][name] = LABELS[i].canonical
           /\ canonical_for_alias(scope, name) = <<LABELS[i].canonical>>
<1>1. i \in DOMAIN LABELS /\ {j \in Scoped[scope] : name \in Names(LABELS[j])} = {i}
  BY OneOwner
<1>2. First(LABELS, {i}) = <<LABELS[i]>>
  BY <1>1, FirstOne
<1>3. name \in DOMAIN alias_pairs[scope] /\ alias_pairs[scope][name] = LABELS[i].canonical
  <2>1. alias_pairs[scope] = [raw \in UNION {Names(LABELS[j]) : j \in Scoped[scope]} |->
            Value(First(LABELS, {j \in Scoped[scope] : raw \in Names(LABELS[j])})).canonical]
    BY PairsAre, Zenon
  <2>2. name \in UNION {Names(LABELS[j]) : j \in Scoped[scope]}
    OBVIOUS
  <2>3. Value(First(LABELS, {j \in Scoped[scope] : name \in Names(LABELS[j])})) = LABELS[i]
    <3>1. First(LABELS, {j \in Scoped[scope] : name \in Names(LABELS[j])}) = <<LABELS[i]>>
      BY <1>1, <1>2, Zenon
    <3>2. Value(<<LABELS[i]>>) = LABELS[i]
      BY DEF Value
    <3> QED BY <3>1, <3>2, Zenon
  <2> QED BY <2>1, <2>2, <2>3
<1>4. Canonical(<<LABELS[i]>>) = <<LABELS[i].canonical>>
  BY DEF Canonical, None, Some, Value
<1>5. CASE name = LABELS[i].canonical
  <2>1. label_def(scope, name) = <<LABELS[i]>>
    BY <1>5, LabelDefined
  <2>2. PICK other : canonical_for_alias(scope, name) = OrElse(<<LABELS[i].canonical>>, other)
    BY <1>4, <2>1 DEF canonical_for_alias
  <2> QED BY <2>2, <1>3 DEF OrElse
<1>6. CASE name # LABELS[i].canonical
  <2>1. {j \in Scoped[scope] : LABELS[j].canonical = name} = {}
    BY <1>1, <1>6 DEF Names
  <2>2. {j \in Scoped[scope] : name \in LABELS[j].aliases} = {i}
    BY <1>1, <1>6 DEF Names
  <2>3. label_def(scope, name) = <<>>
    <3>1. label_def(scope, name) = First(LABELS, {j \in Scoped[scope] : LABELS[j].canonical = name})
      BY LabelDefIs
    <3>2. First(LABELS, {}) = <<>>
      BY DEF First, None
    <3> QED BY <2>1, <3>1, <3>2
  <2>4. Canonical(<<>>) = <<>>
    BY DEF Canonical, None
  <2>5. canonical_for_alias(scope, name) = OrElse(<<>>, <<LABELS[i].canonical>>)
    <3>1. WithAlias(LABELS, scope, name) = <<LABELS[i]>>
      <4>1. WithAlias(LABELS, scope, name) =
              First(LABELS, {j \in Scoped[scope] : name \in LABELS[j].aliases})
        BY WithAliasIs
      <4> QED BY <4>1, <2>2, <1>2
    <3> QED BY <2>3, <2>4, <3>1, <1>4 DEF canonical_for_alias
  <2> QED BY <2>5, <1>3 DEF OrElse
<1> QED BY <1>3, <1>5, <1>6

(* A name of no label resolves to nothing. *)
LEMMA NameUnknown ==
    ASSUME NEW scope \in Scopes, NEW name, \A i \in Scoped[scope] : name \notin Names(LABELS[i])
    PROVE  /\ name \notin DOMAIN alias_pairs[scope]
           /\ canonical_for_alias(scope, name) = <<>>
           /\ label_expr(scope, "") = <<>>
<1>1. name \notin DOMAIN alias_pairs[scope]
  <2>1. DOMAIN alias_pairs[scope] = UNION {Names(LABELS[j]) : j \in Scoped[scope]}
    BY PairsAre, Zenon
  <2> QED BY <2>1
<1>2. /\ {j \in Scoped[scope] : LABELS[j].canonical = name} = {}
      /\ {j \in Scoped[scope] : name \in LABELS[j].aliases} = {}
  BY DEF Names
<1>3. First(LABELS, {}) = <<>>
  BY DEF First, None
<1>4. canonical_for_alias(scope, name) = <<>>
  <2>1. label_def(scope, name) = First(LABELS, {j \in Scoped[scope] : LABELS[j].canonical = name})
    BY LabelDefIs
  <2>2. WithAlias(LABELS, scope, name) =
          First(LABELS, {j \in Scoped[scope] : name \in LABELS[j].aliases})
    BY WithAliasIs
  <2>3. label_def(scope, name) = <<>> /\ WithAlias(LABELS, scope, name) = <<>>
    BY <1>2, <1>3, <2>1, <2>2
  <2> QED BY <2>3 DEF canonical_for_alias, Canonical, OrElse, None
<1>5. {j \in Scoped[scope] : LABELS[j].canonical = ""} = {}
  BY LabelsSound DEF SoundLabel, Scoped, Where
<1>6. label_def(scope, "") = <<>>
  <2>1. label_def(scope, "") = First(LABELS, {j \in Scoped[scope] : LABELS[j].canonical = ""})
    BY LabelDefIs
  <2> QED BY <1>3, <1>5, <2>1
<1>7. label_expr(scope, "") = <<>>
  BY <1>6 DEF label_expr, None
<1> QED BY <1>1, <1>4, <1>7

(* The tables have the columns that the expressions read. *)
LEMMA TablesHave ==
    ASSUME NEW scope \in Scopes, NEW table \in TablesOf[scope]
    PROVE  /\ ReadableColumns(scope) \subseteq DOMAIN TableColumns[table]
           /\ "" \notin ReadableColumns(scope)
           /\ scope # "Spans" =>
                \A c \in ReadableColumns(scope) : TableColumns[table][c] = "VARCHAR"
<1>1. CASE scope = "Logs"
  <2>1. table = "otlp_logs" /\ TableColumns[table] = LOGS_COLUMNS
    BY <1>1 DEF TablesOf, TableColumns
  <2> QED BY <1>1, <2>1 DEF LOGS_COLUMNS, Table, ReadableColumns
<1>2. CASE scope = "Spans"
  <2>1. table = "otlp_traces" /\ TableColumns[table] = SPANS_COLUMNS
    BY <1>2 DEF TablesOf, TableColumns
  <2> QED BY <1>2, <2>1 DEF SPANS_COLUMNS, Table, ReadableColumns
<1>3. CASE scope = "Metrics"
  <2>1. TableColumns[table] \in {METRIC_GAUGE_COLUMNS, METRIC_SUM_COLUMNS}
    BY <1>3 DEF TablesOf, TableColumns
  <2>2. /\ METRIC_TEXTS \subseteq DOMAIN TableColumns[table]
        /\ \A c \in METRIC_TEXTS : TableColumns[table][c] = "VARCHAR"
    BY <2>1 DEF METRIC_GAUGE_COLUMNS, METRIC_SUM_COLUMNS, Table
  <2>3. ReadableColumns(scope) \subseteq METRIC_TEXTS /\ "" \notin METRIC_TEXTS
    BY <1>3 DEF ReadableColumns, METRIC_TEXTS
  <2> QED BY <2>2, <2>3
<1> QED BY <1>1, <1>2, <1>3 DEF Scopes

(* Resolving a name. *)
LEMMA LabelStep ==
    ASSUME ResolveLabel
    PROVE  OneMeaningPerName' /\ LabelReadsItsTable'
<1>1. PICK scope \in Scopes, raw \in LabelNames :
        call' = [of |-> "label", in |-> [scope |-> scope, raw |-> raw],
                 out |-> [canonical |-> canonical_for_alias(scope, raw),
                          expr |-> label_expr(scope, UnwrapOr(canonical_for_alias(scope, raw), ""))]]
  BY DEF ResolveLabel, Call
<1>2. PICK canonical, expr : /\ canonical = canonical_for_alias(scope, raw)
                             /\ expr = label_expr(scope, UnwrapOr(canonical, ""))
  OBVIOUS
<1>3. /\ call'.in.scope = scope /\ call'.in.raw = raw
      /\ call'.out.canonical = canonical /\ call'.out.expr = expr
  BY <1>1, <1>2
<1>4. CASE \E i \in Scoped[scope] : raw \in Names(LABELS[i])
  <2>1. PICK i \in Scoped[scope] : raw \in Names(LABELS[i])
    BY <1>4
  <2>2. /\ i \in DOMAIN LABELS /\ scope \in DOMAIN LABELS[i].sources
        /\ {j \in Scoped[scope] : raw \in Names(LABELS[j])} = {i}
    BY <2>1, OneOwner
  <2>3. /\ raw \in DOMAIN alias_pairs[scope] /\ alias_pairs[scope][raw] = LABELS[i].canonical
        /\ canonical = <<LABELS[i].canonical>>
    BY <2>1, <1>2, NameResolves
  <2>4. OneMeaningPerName'
    <3>1. Cardinality({i}) <= 1
      BY FS_Singleton
    <3> QED BY <1>3, <2>2, <2>3, <3>1 DEF OneMeaningPerName, Some
  <2>5. expr = <<LABELS[i].sources[scope]>>
    BY <1>2, <2>3, LabelDefined DEF UnwrapOr
  <2>6. label_def(scope, Value(canonical)) = <<LABELS[i]>>
    BY <2>3, LabelDefined DEF Value
  <2>7. ReadsOnly(scope, LABELS[i].sources[scope], Names(LABELS[i]))
    BY <2>2, LabelsSound DEF SoundLabel
  <2>8. \A r \in Value(expr) :
           /\ \A table \in TablesOf[scope] : r.column \in DOMAIN TableColumns[table]
           /\ r.key = "" \/ r.key \in Names(LABELS[i])
    BY <2>5, <2>7, TablesHave DEF ReadsOnly, Value
  <2>9. Value(label_def(scope, Value(canonical))) = LABELS[i]
    BY <2>6 DEF Value
  <2>10. LabelReadsItsTable'
    BY <1>3, <2>8, <2>9 DEF LabelReadsItsTable
  <2> QED BY <2>4, <2>10
<1>5. CASE \A i \in Scoped[scope] : raw \notin Names(LABELS[i])
  <2>1. /\ raw \notin DOMAIN alias_pairs[scope] /\ canonical = <<>> /\ label_expr(scope, "") = <<>>
    BY <1>2, <1>5, NameUnknown
  <2>2. {j \in Scoped[scope] : raw \in Names(LABELS[j])} = {}
    BY <1>5
  <2>3. OneMeaningPerName'
    <3>1. Cardinality({}) <= 1
      BY FS_EmptySet
    <3> QED BY <1>3, <2>1, <2>2, <3>1 DEF OneMeaningPerName, None
  <2>4. expr = <<>>
    BY <1>2, <2>1 DEF UnwrapOr
  <2> QED BY <1>3, <2>3, <2>4 DEF LabelReadsItsTable, IsSome
<1> QED BY <1>4, <1>5

-----------------------------------------------------------------------------
(***************************************************************************)
(* Statements and the closures that read them.                             *)
(***************************************************************************)
(* Every rank is taken: the k-th of the positions exists. *)
LEMMA RankTaken ==
    ASSUME NEW n \in Nat, NEW at \in SUBSET (1 .. n), NEW k \in 1 .. Cardinality(at)
    PROVE  \E i \in at : Cardinality({j \in at : j <= i}) = k
<1>1. PICK rank : rank = [i \in 0 .. n |-> Cardinality({j \in at : j <= i})]
  OBVIOUS
<1>0. \A j \in at : j \in Int /\ 1 <= j /\ j <= n
  OBVIOUS
<1>2. IsFiniteSet(at) /\ Cardinality(at) \in Nat
  <2>1. IsFiniteSet(1 .. n)
    BY FS_Interval
  <2>2. IsFiniteSet(at)
    BY <2>1, FS_Subset
  <2> QED BY <2>2, FS_CardinalityType
<1>3. ASSUME NEW i \in 0 .. n
      PROVE  IsFiniteSet({j \in at : j <= i}) /\ rank[i] = Cardinality({j \in at : j <= i})
  <2>1. {j \in at : j <= i} \in SUBSET at
    OBVIOUS
  <2> QED BY <2>1, <1>1, <1>2, FS_Subset
<1>4. \A i \in 0 .. n : rank[i] \in Nat
  BY <1>3, FS_CardinalityType
<1>5. rank[0] = 0 /\ rank[n] = Cardinality(at)
  <2>1. \A j \in at : ~(j <= 0) /\ j <= n
    BY <1>0
  <2>2. {j \in at : j <= 0} = {} /\ {j \in at : j <= n} = at
    BY <2>1, Zenon
  <2> QED BY <2>2, <1>3, FS_EmptySet
<1>6. ASSUME NEW i \in 1 .. n PROVE rank[i] = rank[i - 1] + (IF i \in at THEN 1 ELSE 0)
  <2>1. PICK a, b : a = {j \in at : j <= i - 1} /\ b = {j \in at : j <= i}
    OBVIOUS
  <2>2. i - 1 \in 0 .. n /\ i \in 0 .. n
    OBVIOUS
  <2>3. IsFiniteSet(a) /\ rank[i - 1] = Cardinality(a) /\ rank[i] = Cardinality(b)
    BY <2>1, <2>2, <1>3
  <2>4. CASE i \in at
    <3>1. ~(i <= i - 1) /\ i <= i /\ \A j \in at : j <= i <=> (j <= i - 1 \/ j = i)
      BY <1>0
    <3>2. b = a \cup {i} /\ i \notin a
      BY <3>1, <2>1, <2>4, Zenon
    <3> QED BY <3>2, <2>3, <2>4, FS_AddElement
  <2>5. CASE i \notin at
    <3>1. \A j \in at : j <= i <=> (j <= i - 1 \/ j = i)
      BY <1>0
    <3>2. b = a
      BY <3>1, <2>1, <2>5, Zenon
    <3> QED BY <3>2, <2>2, <2>3, <2>5, <1>4
  <2> QED BY <2>4, <2>5
<1>7. PICK m \in 0 .. n : rank[m] >= k /\ \A i \in 0 .. n : rank[i] >= k => m <= i
  <2>1. PICK T : T = {i \in 0 .. n : rank[i] >= k}
    OBVIOUS
  <2>2. T \in SUBSET Nat /\ n \in T
    BY <2>1, <1>2, <1>5
  <2> QED BY <2>1, <2>2, NatMin
<1>8. m \in 1 .. n /\ m - 1 \in 0 .. n
  BY <1>2, <1>5, <1>7
<1>9. rank[m - 1] < k
  BY <1>2, <1>4, <1>7, <1>8
<1>10. m \in at /\ rank[m] = k
  BY <1>2, <1>4, <1>6, <1>7, <1>8, <1>9
<1> QED BY <1>3, <1>7, <1>10

(* What AtPositions takes stands at one of the positions. *)
LEMMA TakenFrom ==
    ASSUME NEW at \in SUBSET (DOMAIN LABELS)
    PROVE  \E n \in Nat : /\ DOMAIN AtPositions(LABELS, at) = 1 .. n
                         /\ \A k \in 1 .. n : \E i \in at : AtPositions(LABELS, at)[k] = LABELS[i]
<1>1. PICK n \in Nat : at \in SUBSET (1 .. n)
  BY LabelTable
<1>2. Cardinality(at) \in Nat
  <2>1. IsFiniteSet(1 .. n)
    BY <1>1, FS_Interval
  <2>2. IsFiniteSet(at)
    BY <1>1, <2>1, FS_Subset
  <2> QED BY <2>2, FS_CardinalityType
<1>3. DOMAIN AtPositions(LABELS, at) = 1 .. Cardinality(at)
  BY DEF AtPositions
<1>4. ASSUME NEW k \in 1 .. Cardinality(at)
      PROVE  \E i \in at : AtPositions(LABELS, at)[k] = LABELS[i]
  <2>1. PICK i : i = CHOOSE p \in at : Cardinality({j \in at : j <= p}) = k
    OBVIOUS
  <2>2. i \in at
    BY <1>1, <2>1, RankTaken
  <2>3. AtPositions(LABELS, at)[k] = LABELS[i]
    BY <2>1 DEF AtPositions
  <2> QED BY <2>2, <2>3
<1> QED BY <1>2, <1>3, <1>4

(* A filter that drops nothing. *)
LEMMA NothingDropped ==
    ASSUME NEW S, NEW s \in Seq(S)
    PROVE  AtPositions(s, DOMAIN s) = s
<1>1. PICK n \in Nat : n = Len(s) /\ DOMAIN s = 1 .. n
  OBVIOUS
<1>2. Cardinality(1 .. n) = n
  BY FS_Interval
<1>3. ASSUME NEW i \in 1 .. n PROVE Cardinality({j \in 1 .. n : j <= i}) = i
  <2>1. {j \in 1 .. n : j <= i} = 1 .. i
    OBVIOUS
  <2>2. Cardinality(1 .. i) = i
    BY FS_Interval
  <2> QED BY <2>1, <2>2
<1>4. \A k \in 1 .. n : (CHOOSE i \in 1 .. n : Cardinality({j \in 1 .. n : j <= i}) = k) = k
  BY <1>3
<1>5. PICK f : f = AtPositions(s, DOMAIN s)
  OBVIOUS
<1>6. f = [k \in 1 .. n |-> s[k]]
  <2>1. f = [k \in 1 .. n |-> s[CHOOSE i \in 1 .. n : Cardinality({j \in 1 .. n : j <= i}) = k]]
    BY <1>1, <1>2, <1>5 DEF AtPositions
  <2>2. \A k \in 1 .. n : f[k] = s[k]
    BY <2>1, <1>4, Zenon
  <2> QED BY <2>1, <2>2
<1>7. s = [k \in 1 .. n |-> s[k]]
  BY <1>1
<1> QED BY <1>5, <1>6, <1>7

(* A column of a result and what a closure reads there. *)
FitsAt(table, item, read) ==
    /\ IF read.column = "" THEN item.reads = {} ELSE read.column \in item.reads
    /\ item.reads \subseteq DOMAIN TableColumns[table]
    /\ item.type \in Converts(read.type) \cup {"NULL"}
    /\ read.optional \/ ~item.nullable

(* A label of a scope whose columns are text is read as text. *)
LEMMA LabelFits ==
    ASSUME NEW scope \in {"Logs", "Metrics"}, NEW i \in Scoped[scope], NEW table \in TablesOf[scope],
           NEW canonical, canonical = LABELS[i].canonical
    PROVE  LET item == LabelItem(table, scope, canonical)
               read == Read(LabelColumn(scope, canonical), "String")
           IN  /\ scope = "Metrics" => FitsAt(table, item, read)
               /\ FitsAt(table, [item EXCEPT !.type = "VARCHAR"], read)
<1>1. PICK expr : expr = LABELS[i].sources[scope]
  OBVIOUS
<1>2. scope \in Scopes /\ i \in DOMAIN LABELS /\ scope \in DOMAIN LABELS[i].sources
  BY DEF Scopes, Scoped, Where, has_scope
<1>3. UnwrapOr(label_expr(scope, canonical), {}) = expr
  <2>1. label_expr(scope, canonical) = <<expr>>
    BY <1>1, <1>2, LabelDefined
  <2> QED BY <2>1 DEF UnwrapOr
<1>4. ReadsOnly(scope, expr, Names(LABELS[i])) /\ (scope = "Metrics" => canonical # "http_status_code")
  BY <1>1, <1>2, LabelsSound DEF SoundLabel
<1>5. \A r \in expr : /\ r.column \in DOMAIN TableColumns[table] /\ r.column # ""
                      /\ TableColumns[table][r.column] = "VARCHAR"
  BY <1>2, <1>4, TablesHave DEF ReadsOnly
<1>6. PICK type : type = ExprType(table, canonical, expr)
  OBVIOUS
<1>7. scope = "Metrics" => type \in {"VARCHAR", "NULL"}
  BY <1>4, <1>5, <1>6 DEF ExprType
<1>8. PICK column : column = IF expr = {} THEN "" ELSE (CHOOSE r \in expr : TRUE).column
  OBVIOUS
<1>9. IF column = "" THEN expr = {} ELSE \E r \in expr : column = r.column
  BY <1>5, <1>8
<1>10. PICK item : item = LabelItem(table, scope, canonical)
  OBVIOUS
<1>11. item = [reads |-> {r.column : r \in expr}, type |-> type, nullable |-> TRUE]
  BY <1>3, <1>6, <1>10 DEF LabelItem, Item
<1>12. PICK read : read = Read(LabelColumn(scope, canonical), "String")
  OBVIOUS
<1>13. read = [column |-> column, type |-> "String", optional |-> TRUE]
  BY <1>3, <1>8, <1>12 DEF LabelColumn, Read
<1>14. /\ IF column = "" THEN item.reads = {} ELSE column \in item.reads
       /\ item.reads \subseteq DOMAIN TableColumns[table]
  BY <1>5, <1>9, <1>11
<1>15. PICK text : text = [item EXCEPT !.type = "VARCHAR"]
  OBVIOUS
<1>16. text.reads = item.reads /\ text.type = "VARCHAR"
  BY <1>11, <1>15
<1>17. "VARCHAR" \in Converts("String") 
  BY DEF Converts
<1>18. FitsAt(table, text, read)
  BY <1>13, <1>14, <1>16, <1>17 DEF FitsAt
<1>19. scope = "Metrics" => FitsAt(table, item, read)
  BY <1>7, <1>11, <1>13, <1>14, <1>17 DEF FitsAt
<1> QED BY <1>10, <1>12, <1>15, <1>18, <1>19

(* Fits, position by position. *)
LEMMA FitsEverywhere ==
    ASSUME NEW table, NEW n \in Nat, NEW items, NEW reads,
           Len(items) = n, Len(reads) = n, DOMAIN reads = 1 .. n,
           \A i \in 1 .. n : FitsAt(table, items[i], reads[i])
    PROVE  Fits(table, items, reads)
BY DEF Fits, FitsAt

(* One element before and one behind, two elements before. *)
LEMMA Framed ==
    ASSUME NEW x, NEW y, NEW n \in Nat, NEW f, NEW s, f = [i \in 1 .. n |-> f[i]],
           s = <<x>> \o f \o <<y>>
    PROVE  /\ Len(s) = n + 2 /\ DOMAIN s = 1 .. n + 2
           /\ s[1] = x /\ s[n + 2] = y /\ \A i \in 1 .. n : s[i + 1] = f[i]
<1>1. PICK S : S = {x, y} \cup {f[i] : i \in 1 .. n}
  OBVIOUS
<1>2. f \in Seq(S) /\ Len(f) = n /\ <<x>> \in Seq(S) /\ <<y>> \in Seq(S)
  <2>1. x \in S /\ y \in S /\ \A i \in 1 .. n : f[i] \in S
    BY <1>1
  <2>2. f \in [1 .. n -> S]
    BY <2>1, Zenon
  <2>3. f \in Seq(S) /\ Len(f) = n
    BY <2>2
  <2> QED BY <2>1, <2>3
<1>3. PICK a : a = <<x>> \o f
  OBVIOUS
<1>4. Joined(S, a, <<x>>, f)
  BY <1>2, <1>3, ConcatJoins
<1>5. a \in Seq(S) /\ Len(a) = n + 1 /\ a[1] = x /\ \A i \in 1 .. n : a[1 + i] = f[i]
  BY <1>2, <1>4 DEF Joined
<1>6. Joined(S, s, a, <<y>>)
  BY <1>2, <1>3, <1>5, ConcatJoins
<1>7. s \in Seq(S) /\ Len(s) = n + 2 /\ s[n + 2] = y /\ \A i \in 1 .. n + 1 : s[i] = a[i]
  <2>1. 1 \in 1 .. Len(<<y>>) /\ Len(<<y>>) = 1 /\ <<y>>[1] = y
    OBVIOUS
  <2>2. s \in Seq(S) /\ Len(s) = (n + 1) + 1 /\ s[(n + 1) + 1] = y
    BY <1>5, <1>6, <2>1 DEF Joined
  <2>3. \A i \in 1 .. n + 1 : s[i] = a[i]
    BY <1>5, <1>6 DEF Joined
  <2>4. (n + 1) + 1 = n + 2
    OBVIOUS
  <2> QED BY <2>2, <2>3, <2>4
<1> QED BY <1>5, <1>7

LEMMA Prefixed ==
    ASSUME NEW x, NEW y, NEW n \in Nat, NEW f, NEW s, f = [i \in 1 .. n |-> f[i]],
           s = <<x, y>> \o f
    PROVE  /\ Len(s) = n + 2 /\ DOMAIN s = 1 .. n + 2
           /\ s[1] = x /\ s[2] = y /\ \A i \in 1 .. n : s[i + 2] = f[i]
<1>1. PICK S : S = {x, y} \cup {f[i] : i \in 1 .. n}
  OBVIOUS
<1>2. f \in Seq(S) /\ Len(f) = n /\ <<x, y>> \in Seq(S)
  <2>1. x \in S /\ y \in S /\ \A i \in 1 .. n : f[i] \in S
    BY <1>1
  <2>2. f \in [1 .. n -> S]
    BY <2>1, Zenon
  <2>3. f \in Seq(S) /\ Len(f) = n
    BY <2>2
  <2> QED BY <2>1, <2>3
<1>3. Joined(S, s, <<x, y>>, f)
  BY <1>2, ConcatJoins
<1>4. s \in Seq(S) /\ Len(s) = n + 2 /\ s[1] = x /\ s[2] = y /\ \A i \in 1 .. n : s[2 + i] = f[i]
  BY <1>2, <1>3 DEF Joined
<1> QED BY <1>4

(* execute_metric, for every grouping the planner makes. *)
LEMMA MetricFits ==
    ASSUME NEW table \in {"otlp_metrics_gauge", "otlp_metrics_sum"}, NEW group_by \in GroupBys,
           NEW aggregation
    PROVE  Fits(table, MetricItems(table, aggregation, group_by), metric_reads(table, group_by))
<1>0. PICK S : S = {LABELS[i].canonical : i \in Scoped["Metrics"]} /\ group_by \in Seq(S)
  BY GroupingAssumption
<1>1. PICK n \in Nat : n = Len(group_by) /\ DOMAIN group_by = 1 .. n
  BY <1>0
<1>2. \A k \in 1 .. n : \E i \in Scoped["Metrics"] : group_by[k] = LABELS[i].canonical
  BY <1>0, <1>1
<1>3. table \in TablesOf["Metrics"] /\ "Metrics" \in Scopes
  BY DEF TablesOf, Scopes
<1>4. {k \in DOMAIN group_by : IsSome(label_expr("Metrics", group_by[k]))} = DOMAIN group_by
  <2>1. ASSUME NEW k \in DOMAIN group_by PROVE IsSome(label_expr("Metrics", group_by[k]))
    <3>1. PICK i \in Scoped["Metrics"] : group_by[k] = LABELS[i].canonical
      BY <1>1, <1>2
    <3>2. label_expr("Metrics", group_by[k]) = <<LABELS[i].sources["Metrics"]>>
      BY <3>1, <1>3, LabelDefined
    <3>3. PICK e : label_expr("Metrics", group_by[k]) = <<e>>
      BY <3>2
    <3> QED BY <3>3 DEF IsSome
  <2> QED BY <2>1, Zenon
<1>5. AtPositions(group_by, DOMAIN group_by) = group_by
  BY <1>0, NothingDropped
<1>6. PICK f : f = [k \in 1 .. n |-> LabelItem(table, "Metrics", group_by[k])]
  OBVIOUS
<1>7. PICK g : g = [k \in 1 .. n |-> Read(LabelColumn("Metrics", group_by[k]), "String")]
  OBVIOUS
<1>8. \A k \in 1 .. n : FitsAt(table, f[k], g[k])
  BY <1>2, <1>3, <1>6, <1>7, LabelFits
<1>9. PICK value : value = Item({"double_value", "int_value"},
                                IF aggregation = "count" THEN "BIGINT" ELSE "DOUBLE", TRUE)
  OBVIOUS
<1>10. PICK items : items = MetricItems(table, aggregation, group_by)
  OBVIOUS
<1>11. items = << TimeText(table) >> \o f \o << value >>
  BY <1>1, <1>4, <1>5, <1>6, <1>9, <1>10 DEF MetricItems
<1>12. PICK reads : reads = metric_reads(table, group_by)
  OBVIOUS
<1>13. reads = << Get(TimestampColumn(table), "String") >> \o g \o << Read("double_value", "f64") >>
  BY <1>1, <1>7, <1>12 DEF metric_reads
<1>14. f = [k \in 1 .. n |-> f[k]] /\ g = [k \in 1 .. n |-> g[k]]
  BY <1>6, <1>7
<1>15. /\ Len(items) = n + 2 /\ items[1] = TimeText(table) /\ items[n + 2] = value
       /\ \A k \in 1 .. n : items[k + 1] = f[k]
  BY <1>11, <1>14, Framed
<1>16. /\ Len(reads) = n + 2 /\ DOMAIN reads = 1 .. n + 2
       /\ reads[1] = Get(TimestampColumn(table), "String")
       /\ reads[n + 2] = Read("double_value", "f64")
       /\ \A k \in 1 .. n : reads[k + 1] = g[k]
  BY <1>13, <1>14, Framed
<1>17. {"time_unix_nano", "double_value", "int_value"} \subseteq DOMAIN TableColumns[table]
  BY DEF TableColumns, METRIC_GAUGE_COLUMNS, METRIC_SUM_COLUMNS, Table
<1>18. FitsAt(table, items[1], reads[1])
  BY <1>15, <1>16, <1>17 DEF FitsAt, TimeText, TimestampColumn, Get, Item, Converts
<1>19. FitsAt(table, items[n + 2], reads[n + 2])
  BY <1>9, <1>15, <1>16, <1>17 DEF FitsAt, Read, Item, Converts
<1>20. ASSUME NEW k \in 1 .. n + 2 PROVE FitsAt(table, items[k], reads[k])
  <2>1. CASE k = 1
    BY <2>1, <1>18
  <2>2. CASE k = n + 2
    BY <2>2, <1>19
  <2>3. CASE k # 1 /\ k # n + 2
    <3>1. k - 1 \in 1 .. n /\ (k - 1) + 1 = k
      BY <2>3
    <3> QED BY <3>1, <1>8, <1>15, <1>16
  <2> QED BY <2>1, <2>2, <2>3
<1>21. Fits(table, items, reads)
  BY <1>15, <1>16, <1>20, FitsEverywhere
<1> QED BY <1>10, <1>12, <1>21

(* log_select_sql and log_row. *)
LEMMA LogFits == Fits("otlp_logs", LogItems, log_reads)
<1>1. PICK at : at = {i \in DOMAIN LABELS :
        "Logs" \in LABELS[i].project /\ IsSome(label_expr("Logs", LABELS[i].canonical))}
  OBVIOUS
<1>2. PICK s : s = AtPositions(LABELS, at)
  OBVIOUS
<1>3. PICK n \in Nat : DOMAIN s = 1 .. n /\ \A k \in 1 .. n : \E i \in at : s[k] = LABELS[i]
  <2>1. at \in SUBSET (DOMAIN LABELS)
    BY <1>1
  <2> QED BY <2>1, <1>2, TakenFrom
<1>4. \A i \in at : i \in Scoped["Logs"]
  BY <1>1, LabelsSound DEF SoundLabel, Scoped, Where, Scopes, has_scope
<1>5. PICK labels : labels = projected_labels("Logs")
  OBVIOUS
<1>6. /\ DOMAIN labels = 1 .. n
      /\ \A k \in 1 .. n : \E i \in Scoped["Logs"] : labels[k] = LABELS[i].canonical
  BY <1>1, <1>2, <1>3, <1>4, <1>5 DEF projected_labels, Projected, CanonicalsOf
<1>7. PICK f : f = [k \in 1 .. n |->
                      [LabelItem("otlp_logs", "Logs", labels[k]) EXCEPT !.type = "VARCHAR"]]
  OBVIOUS
<1>8. PICK g : g = [k \in 1 .. n |-> Read(LabelColumn("Logs", labels[k]), "String")]
  OBVIOUS
<1>9. \A k \in 1 .. n : FitsAt("otlp_logs", f[k], g[k])
  <2>1. "otlp_logs" \in TablesOf["Logs"]
    BY DEF TablesOf
  <2> QED BY <2>1, <1>6, <1>7, <1>8, LabelFits
<1>10. PICK items : items = LogItems
  OBVIOUS
<1>11. items = << TimeText("otlp_logs"), Plain("otlp_logs", "body") >> \o f
  BY <1>5, <1>6, <1>7, <1>10 DEF LogItems
<1>12. PICK reads : reads = log_reads
  OBVIOUS
<1>13. reads = << Get("time_unix_nano", "String"), Read("body", "String") >> \o g
  BY <1>5, <1>6, <1>8, <1>12 DEF log_reads
<1>14. f = [k \in 1 .. n |-> f[k]] /\ g = [k \in 1 .. n |-> g[k]]
  BY <1>7, <1>8
<1>15. /\ Len(items) = n + 2 /\ items[1] = TimeText("otlp_logs")
       /\ items[2] = Plain("otlp_logs", "body") /\ \A k \in 1 .. n : items[k + 2] = f[k]
  BY <1>11, <1>14, Prefixed
<1>16. /\ Len(reads) = n + 2 /\ DOMAIN reads = 1 .. n + 2
       /\ reads[1] = Get("time_unix_nano", "String") /\ reads[2] = Read("body", "String")
       /\ \A k \in 1 .. n : reads[k + 2] = g[k]
  BY <1>13, <1>14, Prefixed
<1>17. /\ {"time_unix_nano", "body"} \subseteq DOMAIN TableColumns["otlp_logs"]
       /\ TableColumns["otlp_logs"]["body"] = "VARCHAR"
  BY DEF TableColumns, LOGS_COLUMNS, Table
<1>18. FitsAt("otlp_logs", items[1], reads[1])
  BY <1>15, <1>16, <1>17 DEF FitsAt, TimeText, TimestampColumn, Get, Item, Converts
<1>19. FitsAt("otlp_logs", items[2], reads[2])
  BY <1>15, <1>16, <1>17 DEF FitsAt, Plain, Read, Item, Converts
<1>20. ASSUME NEW k \in 1 .. n + 2 PROVE FitsAt("otlp_logs", items[k], reads[k])
  <2>1. CASE k = 1
    BY <2>1, <1>18
  <2>2. CASE k = 2
    BY <2>2, <1>19
  <2>3. CASE k # 1 /\ k # 2
    <3>1. k - 2 \in 1 .. n /\ (k - 2) + 2 = k
      BY <2>3
    <3> QED BY <3>1, <1>9, <1>15, <1>16
  <2> QED BY <2>1, <2>2, <2>3
<1>21. Fits("otlp_logs", items, reads)
  BY <1>15, <1>16, <1>20, FitsEverywhere
<1> QED BY <1>10, <1>12, <1>21

(* A column as it is. *)
LEMMA PlainFits ==
    ASSUME NEW table, NEW c \in DOMAIN TableColumns[table], c # "", NEW type,
           TableColumns[table][c] \in Converts(type)
    PROVE  FitsAt(table, Plain(table, c), Read(c, type))
<1>1. PICK item, read : item = Plain(table, c) /\ read = Read(c, type)
  OBVIOUS
<1>2. /\ item.reads = {c} /\ item.type = TableColumns[table][c]
      /\ read.column = c /\ read.type = type /\ read.optional
  BY <1>1 DEF Plain, Item, Read
<1>3. FitsAt(table, item, read)
  BY <1>2 DEF FitsAt
<1> QED BY <1>1, <1>3

(* No column, which the expression of a column has for its key and a count *)
(* for the column it reads.  The SMT backend cannot handle empty strings.  *)
NoText == ""

LEMMA JsonFields ==
    ASSUME NEW column, NEW key
    PROVE  Json(column, key).column = column /\ Json(column, key).key = key
BY DEF Json

(* A label of the spans under one JSON column. *)
LEMMA SpanLabelFits ==
    ASSUME NEW i \in Scoped["Spans"], NEW column \in DOMAIN TableColumns["otlp_traces"], column # NoText,
           LABELS[i].sources["Spans"] # {},
           \A r \in LABELS[i].sources["Spans"] : r.column = column /\ r.key # NoText
    PROVE  FitsAt("otlp_traces", SpanLabel(LABELS[i].canonical),
                  Read(column, IF LABELS[i].canonical = "http_status_code" THEN "i32" ELSE "String"))
<1>1. PICK expr, c : expr = LABELS[i].sources["Spans"] /\ c = LABELS[i].canonical
  OBVIOUS
<1>2. label_expr("Spans", c) = <<expr>>
  BY <1>1, LabelDefined DEF Scopes
<1>3. UnwrapOr(label_expr("Spans", c), {}) = expr
  BY <1>2 DEF UnwrapOr
<1>4. PICK type : type = IF c = "http_status_code" THEN "INTEGER" ELSE "VARCHAR"
  OBVIOUS
<1>5. ExprType("otlp_traces", c, expr) = type
  BY <1>1, <1>4 DEF ExprType, NoText
<1>6. {r.column : r \in expr} = {column}
  BY <1>1
<1>7. PICK item : item = SpanLabel(c)
  OBVIOUS
<1>8. item.reads = {column} /\ item.type = type
  BY <1>3, <1>5, <1>6, <1>7 DEF SpanLabel, LabelItem, Item
<1>9. PICK read : read = Read(column, IF c = "http_status_code" THEN "i32" ELSE "String")
  OBVIOUS
<1>10. /\ read.column = column /\ read.optional
       /\ read.type = IF c = "http_status_code" THEN "i32" ELSE "String"
  BY <1>9 DEF Read
<1>11. type \in Converts(read.type)
  BY <1>4, <1>10 DEF Converts
<1>12. FitsAt("otlp_traces", item, read)
  BY <1>8, <1>10, <1>11, Zenon DEF FitsAt, NoText
<1> QED BY <1>1, <1>7, <1>9, <1>12

(* The labels that tempo.rs selects. *)
LEMMA SpanLabels ==
    /\ FitsAt("otlp_traces", SpanLabel("http_method"), Read("span_attributes", "String"))
    /\ FitsAt("otlp_traces", SpanLabel("http_status_code"), Read("span_attributes", "i32"))
    /\ FitsAt("otlp_traces", SpanLabel("deployment_environment"), Read("resource_attributes", "String"))
    /\ FitsAt("otlp_traces", SpanLabel("http_route"), Read("span_attributes", "String"))
    /\ FitsAt("otlp_traces", SpanLabel("exception_type"), Read("span_attributes", "String"))
<1>1. /\ {"span_attributes", "resource_attributes"} \subseteq DOMAIN TableColumns["otlp_traces"]
      /\ "span_attributes" # NoText /\ "resource_attributes" # NoText
  <2>1. {"span_attributes", "resource_attributes"} \subseteq DOMAIN TableColumns["otlp_traces"]
    BY DEF TableColumns, SPANS_COLUMNS, Table
  <2> QED BY <2>1, Zenon DEF NoText
<1>2. /\ "http.request.method" # NoText /\ "http.method" # NoText
      /\ "http.response.status_code" # NoText /\ "http.status_code" # NoText
      /\ "deployment.environment" # NoText /\ "http.route" # NoText /\ "exception.type" # NoText
  BY Zenon DEF NoText
<1>3. /\ \A k : k # NoText => \A r \in SpanAttr(k) : r.column = "span_attributes" /\ r.key # NoText
      /\ \A k : k # NoText => \A r \in ResourceAttr(k) : r.column = "resource_attributes" /\ r.key # NoText
      /\ \A k : SpanAttr(k) # {} /\ ResourceAttr(k) # {}
  BY JsonFields DEF SpanAttr, ResourceAttr
<1>4. FitsAt("otlp_traces", SpanLabel("http_method"), Read("span_attributes", "String"))
  <2>1. LABELS[15].canonical = "http_method" /\ LABELS[15].sources = HTTP_METHOD_SOURCES
    BY LabelTable DEF RecordLabels, Label
  <2>2. /\ "Spans" \in DOMAIN HTTP_METHOD_SOURCES
        /\ HTTP_METHOD_SOURCES["Spans"] = SpansHttpMethod
    BY DEF HTTP_METHOD_SOURCES
  <2>3. 15 \in Scoped["Spans"]
    BY <2>1, <2>2, LabelTable DEF Scoped, Where, Scopes, has_scope
  <2>4. SpansHttpMethod # {} /\ \A r \in SpansHttpMethod : r.column = "span_attributes" /\ r.key # NoText
    BY <1>3, <1>2 DEF SpansHttpMethod
  <2> QED BY <2>1, <2>2, <2>3, <2>4, <1>1, SpanLabelFits
<1>5. FitsAt("otlp_traces", SpanLabel("http_status_code"), Read("span_attributes", "i32"))
  <2>1. LABELS[16].canonical = "http_status_code" /\ LABELS[16].sources = HTTP_STATUS_SOURCES
    BY LabelTable DEF RecordLabels, Label
  <2>2. /\ "Spans" \in DOMAIN HTTP_STATUS_SOURCES
        /\ HTTP_STATUS_SOURCES["Spans"] = SpansHttpStatusCode
    BY DEF HTTP_STATUS_SOURCES
  <2>3. 16 \in Scoped["Spans"]
    BY <2>1, <2>2, LabelTable DEF Scoped, Where, Scopes, has_scope
  <2>4. /\ SpansHttpStatusCode # {}
        /\ \A r \in SpansHttpStatusCode : r.column = "span_attributes" /\ r.key # NoText
    BY <1>3, <1>2 DEF SpansHttpStatusCode
  <2> QED BY <2>1, <2>2, <2>3, <2>4, <1>1, SpanLabelFits
<1>6. FitsAt("otlp_traces", SpanLabel("deployment_environment"), Read("resource_attributes", "String"))
  <2>1. /\ LABELS[4].canonical = "deployment_environment"
        /\ LABELS[4].sources = DEPLOYMENT_ENV_SOURCES
    BY LabelTable DEF ResourceLabels, Label
  <2>2. /\ "Spans" \in DOMAIN DEPLOYMENT_ENV_SOURCES
        /\ DEPLOYMENT_ENV_SOURCES["Spans"] = DeploymentEnvironment
    BY DEF DEPLOYMENT_ENV_SOURCES, Everywhere, Scopes
  <2>3. 4 \in Scoped["Spans"]
    BY <2>1, <2>2, LabelTable DEF Scoped, Where, Scopes, has_scope
  <2>4. /\ DeploymentEnvironment # {}
        /\ \A r \in DeploymentEnvironment : r.column = "resource_attributes" /\ r.key # NoText
    BY <1>3, <1>2 DEF DeploymentEnvironment
  <2> QED BY <2>1, <2>2, <2>3, <2>4, <1>1, SpanLabelFits
<1>7. FitsAt("otlp_traces", SpanLabel("http_route"), Read("span_attributes", "String"))
  <2>1. LABELS[14].canonical = "http_route" /\ LABELS[14].sources = HTTP_ROUTE_SOURCES
    BY LabelTable DEF RecordLabels, Label
  <2>2. /\ "Spans" \in DOMAIN HTTP_ROUTE_SOURCES
        /\ HTTP_ROUTE_SOURCES["Spans"] = SpansHttpRoute
    BY DEF HTTP_ROUTE_SOURCES
  <2>3. 14 \in Scoped["Spans"]
    BY <2>1, <2>2, LabelTable DEF Scoped, Where, Scopes, has_scope
  <2>4. SpansHttpRoute # {} /\ \A r \in SpansHttpRoute : r.column = "span_attributes" /\ r.key # NoText
    BY <1>3, <1>2 DEF SpansHttpRoute
  <2> QED BY <2>1, <2>2, <2>3, <2>4, <1>1, SpanLabelFits
<1>8. FitsAt("otlp_traces", SpanLabel("exception_type"), Read("span_attributes", "String"))
  <2>1. LABELS[37].canonical = "exception_type" /\ LABELS[37].sources = EXCEPTION_TYPE_SOURCES
    BY LabelTable DEF AttributeLabels, Label
  <2>2. /\ "Spans" \in DOMAIN EXCEPTION_TYPE_SOURCES
        /\ EXCEPTION_TYPE_SOURCES["Spans"] = SpanAttr("exception.type")
    BY DEF EXCEPTION_TYPE_SOURCES
  <2>3. 37 \in Scoped["Spans"]
    BY <2>1, <2>2, LabelTable DEF Scoped, Where, Scopes, has_scope
  <2> QED BY <2>1, <2>2, <2>3, <1>1, <1>3, <1>2, SpanLabelFits
<1> QED BY <1>4, <1>5, <1>6, <1>7, <1>8

(* The other columns. *)
LEMMA SpanColumns ==
    /\ \A c \in {"trace_id", "span_id", "parent_span_id", "trace_state", "service_name", "name",
                 "status_status_message", "scope_name", "scope_version"} :
         FitsAt("otlp_traces", SpanItem(c), Read(c, "String"))
    /\ \A c \in {"kind", "status_code"} : FitsAt("otlp_traces", SpanItem(c), Read(c, "i32"))
    /\ FitsAt("otlp_traces", SpanItem("duration_time_unix_nano"), Read("duration_time_unix_nano", "i64"))
    /\ FitsAt("otlp_traces", TimeText("otlp_traces"), Get("start_time_unix_nano", "String"))
    /\ FitsAt("otlp_traces", Item({"start_time_unix_nano"}, "VARCHAR", FALSE),
              Read("start_time_unix_nano", "String"))
    /\ FitsAt("otlp_traces", Item({}, "BIGINT", FALSE), Get(NoText, "i64"))
<1>1. TableColumns["otlp_traces"] = SPANS_COLUMNS
  BY DEF TableColumns
<1>2. /\ \A c \in {"trace_id", "span_id", "parent_span_id", "trace_state", "service_name", "name",
                   "status_status_message", "scope_name", "scope_version"} :
           c \in DOMAIN SPANS_COLUMNS /\ SPANS_COLUMNS[c] = "VARCHAR" /\ c # ""
      /\ \A c \in {"kind", "status_code"} :
           c \in DOMAIN SPANS_COLUMNS /\ SPANS_COLUMNS[c] = "INTEGER" /\ c # ""
      /\ "duration_time_unix_nano" \in DOMAIN SPANS_COLUMNS
      /\ SPANS_COLUMNS["duration_time_unix_nano"] = "BIGINT"
      /\ "start_time_unix_nano" \in DOMAIN SPANS_COLUMNS
  BY DEF SPANS_COLUMNS, Table
<1>3. /\ "VARCHAR" \in Converts("String") /\ "INTEGER" \in Converts("i32")
      /\ "BIGINT" \in Converts("i64")
  BY DEF Converts
<1>4. FitsAt("otlp_traces", TimeText("otlp_traces"), Get("start_time_unix_nano", "String"))
  BY <1>1, <1>2, <1>3 DEF FitsAt, TimeText, TimestampColumn, Get, Item
<1>5. FitsAt("otlp_traces", Item({"start_time_unix_nano"}, "VARCHAR", FALSE),
             Read("start_time_unix_nano", "String"))
  BY <1>1, <1>2, <1>3 DEF FitsAt, Read, Item
<1>6. FitsAt("otlp_traces", Item({}, "BIGINT", FALSE), Get(NoText, "i64"))
  <2>1. PICK item, read : item = Item({}, "BIGINT", FALSE) /\ read = Get(NoText, "i64")
    OBVIOUS
  <2>2. /\ item.reads = {} /\ item.type = "BIGINT" /\ ~item.nullable
        /\ read.column = NoText /\ read.type = "i64"
    BY <2>1 DEF Get, Item
  <2>3. item.reads \subseteq DOMAIN TableColumns["otlp_traces"]
    BY <2>2
  <2>4. FitsAt("otlp_traces", item, read)
    BY <2>2, <2>3, <1>3, Zenon DEF FitsAt, NoText
  <2> QED BY <2>1, <2>4
<1>7. \A c \in {"trace_id", "span_id", "parent_span_id", "trace_state", "service_name", "name",
                "status_status_message", "scope_name", "scope_version"} :
        FitsAt("otlp_traces", SpanItem(c), Read(c, "String"))
  BY <1>1, <1>2, <1>3, PlainFits DEF SpanItem
<1>8. \A c \in {"kind", "status_code"} : FitsAt("otlp_traces", SpanItem(c), Read(c, "i32"))
  BY <1>1, <1>2, <1>3, PlainFits DEF SpanItem
<1>9. FitsAt("otlp_traces", SpanItem("duration_time_unix_nano"), Read("duration_time_unix_nano", "i64"))
  BY <1>1, <1>2, <1>3, PlainFits DEF SpanItem
<1> QED BY <1>4, <1>5, <1>6, <1>7, <1>8, <1>9

(* tempo_trace, tempo_trace_proto and execute_trace_search. *)
LEMMA TraceFits ==
    /\ Fits("otlp_traces", TraceJsonItems, span_row_reads)
    /\ Fits("otlp_traces", TraceProtoItems, proto_reads)
    /\ Fits("otlp_traces", TraceSearchItems, search_reads)
<1>1. PICK a, b : a = TraceJsonItems /\ b = span_row_reads
  OBVIOUS
<1>2. Len(a) = 10 /\ Len(b) = 10 /\ DOMAIN b = 1 .. 10
  BY <1>1 DEF TraceJsonItems, span_row_reads
<1>3. \A i \in 1 .. 10 : FitsAt("otlp_traces", a[i], b[i])
  BY <1>1, SpanLabels, SpanColumns DEF TraceJsonItems, span_row_reads
<1>4. Fits("otlp_traces", a, b)
  BY <1>2, <1>3, FitsEverywhere
<1>5. PICK c, d :
        /\ c = << SpanItem("trace_state"), SpanItem("kind"), SpanItem("status_status_message"),
                  SpanItem("scope_name"), SpanItem("scope_version"),
                  SpanLabel("deployment_environment"), SpanLabel("http_route"),
                  SpanLabel("exception_type") >>
        /\ d = << Read("trace_state", "String"), Read("kind", "i32"),
                  Read("status_status_message", "String"), Read("scope_name", "String"),
                  Read("scope_version", "String"), Read("resource_attributes", "String"),
                  Read("span_attributes", "String"), Read("span_attributes", "String") >>
  OBVIOUS
<1>6. \A i \in 1 .. 8 : FitsAt("otlp_traces", c[i], d[i])
  BY <1>5, SpanLabels, SpanColumns
<1>7. PICK e, f : e = a \o c /\ f = b \o d
  OBVIOUS
<1>8. e = TraceProtoItems /\ f = proto_reads
  BY <1>1, <1>5, <1>7 DEF TraceProtoItems, proto_reads
<1>9. PICK S : S = ToSet(a) \cup ToSet(b) \cup ToSet(c) \cup ToSet(d)
  OBVIOUS
<1>10. a \in Seq(S) /\ b \in Seq(S)
  <2>1. a \in Seq(ToSet(a)) /\ b \in Seq(ToSet(b))
    BY <1>1 DEF TraceJsonItems, span_row_reads, ToSet
  <2> QED BY <2>1, <1>9
<1>11. c \in Seq(S) /\ d \in Seq(S) /\ Len(c) = 8 /\ Len(d) = 8
  <2>1. c \in Seq(ToSet(c)) /\ d \in Seq(ToSet(d)) /\ Len(c) = 8 /\ Len(d) = 8
    BY <1>5 DEF ToSet
  <2> QED BY <2>1, <1>9
<1>12. Joined(S, e, a, c) /\ Joined(S, f, b, d)
  BY <1>7, <1>10, <1>11, ConcatJoins
<1>13. /\ Len(e) = 18 /\ Len(f) = 18 /\ DOMAIN f = 1 .. 18
       /\ \A i \in 1 .. 10 : e[i] = a[i] /\ f[i] = b[i]
       /\ \A i \in 1 .. 8 : e[10 + i] = c[i] /\ f[10 + i] = d[i]
  BY <1>2, <1>11, <1>12 DEF Joined
<1>14. ASSUME NEW i \in 1 .. 18 PROVE FitsAt("otlp_traces", e[i], f[i])
  <2>1. CASE i <= 10
    BY <2>1, <1>3, <1>13
  <2>2. CASE i > 10
    <3>1. i - 10 \in 1 .. 8 /\ 10 + (i - 10) = i
      BY <2>2
    <3> QED BY <3>1, <1>6, <1>13
  <2> QED BY <2>1, <2>2
<1>15. Fits("otlp_traces", e, f)
  BY <1>13, <1>14, FitsEverywhere
<1>16. PICK g, h : g = TraceSearchItems /\ h = search_reads
  OBVIOUS
<1>17. h = << Read("trace_id", "String"), Read("start_time_unix_nano", "String"),
              Read("start_time_unix_nano", "String"), Read("service_name", "String"),
              Read("name", "String"), Get(NoText, "i64"), Read("duration_time_unix_nano", "i64") >>
  BY <1>16, Zenon DEF search_reads, NoText
<1>18. Len(g) = 7 /\ Len(h) = 7 /\ DOMAIN h = 1 .. 7
  BY <1>16, <1>17 DEF TraceSearchItems
<1>19. \A i \in 1 .. 7 : FitsAt("otlp_traces", g[i], h[i])
  <2>1. PICK start, count : /\ start = Item({"start_time_unix_nano"}, "VARCHAR", FALSE)
                            /\ count = Item({}, "BIGINT", FALSE)
    OBVIOUS
  <2>2. /\ FitsAt("otlp_traces", start, Read("start_time_unix_nano", "String"))
        /\ FitsAt("otlp_traces", count, Get(NoText, "i64"))
    BY <2>1, SpanColumns, Zenon
  <2>3. g = << SpanItem("trace_id"), start, start, SpanItem("service_name"), SpanItem("name"),
               count, SpanItem("duration_time_unix_nano") >>
    BY <1>16, <2>1, Zenon DEF TraceSearchItems
  <2>4. /\ \A col \in {"trace_id", "service_name", "name"} :
             FitsAt("otlp_traces", SpanItem(col), Read(col, "String"))
        /\ FitsAt("otlp_traces", SpanItem("duration_time_unix_nano"),
                  Read("duration_time_unix_nano", "i64"))
    BY SpanColumns, Zenon
  <2>5. /\ FitsAt("otlp_traces", g[1], h[1]) /\ FitsAt("otlp_traces", g[2], h[2])
        /\ FitsAt("otlp_traces", g[3], h[3]) /\ FitsAt("otlp_traces", g[4], h[4])
        /\ FitsAt("otlp_traces", g[5], h[5]) /\ FitsAt("otlp_traces", g[6], h[6])
        /\ FitsAt("otlp_traces", g[7], h[7])
    BY <1>17, <2>2, <2>3, <2>4
  <2> QED BY <2>5
<1>20. Fits("otlp_traces", g, h)
  BY <1>18, <1>19, FitsEverywhere
<1> QED BY <1>1, <1>4, <1>8, <1>15, <1>16, <1>20

(* Reading a statement's rows. *)
LEMMA StatementStep ==
    ASSUME ReadStatement
    PROVE  ReadersFit'
<1>1. PICK table, items, reads :
        /\ Fits(table, items, reads)
        /\ call'.out = Statement(table, items, reads)
  BY LogFits, TraceFits, MetricFits DEF ReadStatement, Call
<1>2. call'.out.table = table /\ call'.out.items = items /\ call'.out.reads = reads
  BY <1>1 DEF Statement
<1> QED BY <1>1, <1>2 DEF ReadersFit

-----------------------------------------------------------------------------
(***************************************************************************)
(* Querying what the label endpoints list.                                 *)
(***************************************************************************)
(* One condition on a name of a label is accepted and canonical. *)
LEMMA OneMatcher ==
    ASSUME NEW scope \in Scopes, NEW i \in Scoped[scope], NEW name \in Names(LABELS[i]), NEW value
    PROVE  normalize_matchers(<< Matcher(<<name>>, "Eq", value) >>, scope) =
               << << Matcher(LABELS[i].canonical, "Eq", value) >> >>
<1>1. PICK given : given = << Matcher(<<name>>, "Eq", value) >>
  OBVIOUS
<1>2. /\ DOMAIN given = {1} /\ given[1].field = <<name>>
      /\ [given[1] EXCEPT !.field = LABELS[i].canonical] = Matcher(LABELS[i].canonical, "Eq", value)
  BY <1>1 DEF Matcher
<1>3. /\ name \in DOMAIN alias_pairs[scope]
      /\ alias_pairs[scope][name] = LABELS[i].canonical
  BY NameResolves
<1>4. Supported(given[1].field, scope) /\ CanonicalField(given[1].field, scope) = LABELS[i].canonical
  BY <1>2, <1>3 DEF Supported, CanonicalField
<1>5. PICK done : done = Canonicalized(given, scope)
  OBVIOUS
<1>6. done = [k \in {1} |-> Matcher(LABELS[i].canonical, "Eq", value)]
  BY <1>2, <1>4, <1>5 DEF Canonicalized
<1>7. done = << Matcher(LABELS[i].canonical, "Eq", value) >>
  BY <1>6
<1>8. ~Conflicting(done)
  BY <1>6 DEF Conflicting
<1>9. normalize_matchers(given, scope) = <<done>>
  BY <1>2, <1>4, <1>5, <1>8 DEF normalize_matchers, Some
<1> QED BY <1>1, <1>7, <1>9

(* The characters of a query that no condition has for its sign. *)
LEMMA PlainCharacters ==
    /\ Quote # "!" /\ Quote # "=" /\ Quote # "~" /\ Quote # "v"
    /\ "{" # "!" /\ "{" # "=" /\ "}" # "!" /\ "}" # "="
BY Zenon DEF Quote

(* A cut of one character. *)
LEMMA OneCharacter ==
    ASSUME NEW text, NEW i \in Nat, NEW c, text[i] = c
    PROVE  SubSeq(text, i, i) = <<c>>
<1>1. SubSeq(text, i, i) = [k \in 1 .. 1 |-> c]
  OBVIOUS
<1> QED BY <1>1

(* Of the query that names one tag, extract_tag_matcher finds that tag,    *)
(* and no other.  The braces are variables: the SMT backend has no name    *)
(* for such strings.                                                       *)
LEMMA TagFound ==
    ASSUME NEW name, name # "!", name # "=",
           NEW open, open # "!", open # "=", NEW close, close # "!", close # "=",
           NEW quote, quote = Quote, quote # "!", quote # "=", quote # "~", quote # "v",
           NEW raw, raw = << open, name, "=", quote, "v", quote, close >>
    PROVE  /\ extract_tag_matcher(raw, name) = << Matcher(<<name>>, "Eq", <<"v">>) >>
           /\ \A tag : tag # name => extract_tag_matcher(raw, tag) = <<>>
<1>1. /\ Len(raw) = 7 /\ DOMAIN raw = 1 .. 7
      /\ raw[1] = open /\ raw[2] = name /\ raw[3] = "=" /\ raw[4] = quote
      /\ raw[5] = "v" /\ raw[6] = quote /\ raw[7] = close
  OBVIOUS
<1>2. PICK ops : ops = Operators
  OBVIOUS
<1>3. /\ DOMAIN ops = 1 .. 4 /\ ops[4].op = "Eq"
      /\ ops[1].sign = <<"!", "~">> /\ ops[2].sign = <<"=", "~">>
      /\ ops[3].sign = <<"!", "=">> /\ ops[4].sign = <<"=">>
  BY <1>2 DEF Operators
<1>4. ASSUME NEW i \in 1 .. 7, NEW j \in i .. 7
      PROVE  Len(SubSeq(raw, i, j)) = j - i + 1 /\ SubSeq(raw, i, j)[1] = raw[i]
  BY <1>1
<1>5. ASSUME NEW i \in 1 .. 8, i # 3 PROVE SignsAt(raw, i) = {}
  <2>1. ASSUME NEW k \in 1 .. 4, i + Len(ops[k].sign) - 1 <= Len(raw)
        PROVE  SubSeq(raw, i, i + Len(ops[k].sign) - 1) # ops[k].sign
    <3>1. Len(ops[k].sign) \in 1 .. 2 /\ ops[k].sign[1] \in {"!", "="}
      BY <1>3
    <3>2. i \in 1 .. 7 /\ i + Len(ops[k].sign) - 1 \in i .. 7
      BY <1>1, <2>1, <3>1
    <3>3. raw[i] # "!" /\ raw[i] # "="
      BY <1>1, <1>5, <3>2
    <3> QED BY <1>4, <3>1, <3>2, <3>3
  <2> QED BY <1>2, <1>3, <2>1 DEF SignsAt
<1>6. SignsAt(raw, 3) = {4}
  <2>1. SubSeq(raw, 3, 3) = <<"=">>
    BY <1>1, OneCharacter
  <2>2. PICK two : two = SubSeq(raw, 3, 4)
    OBVIOUS
  <2>3. two # ops[1].sign /\ two # ops[2].sign /\ two # ops[3].sign
    <3>1. two[1] = "=" /\ two[2] = quote
      BY <1>1, <2>2
    <3>2. ops[1].sign[1] = "!" /\ ops[2].sign[2] = "~" /\ ops[3].sign[1] = "!"
      BY <1>3
    <3> QED BY <3>1, <3>2
  <2>4. ASSUME NEW k \in 1 .. 4
        PROVE  /\ 3 + Len(ops[k].sign) - 1 <= Len(raw)
               /\ SubSeq(raw, 3, 3 + Len(ops[k].sign) - 1) = ops[k].sign <=> k = 4
    <3>1. CASE k = 4
      <4>1. Len(ops[4].sign) = 1
        BY <1>3
      <4>2. 3 + Len(ops[k].sign) - 1 = 3
        BY <3>1, <4>1
      <4>3. SubSeq(raw, 3, 3) = ops[k].sign
        BY <1>3, <2>1, <3>1
      <4> QED BY <1>1, <3>1, <4>2, <4>3
    <3>2. CASE k \in 1 .. 3
      <4>1. Len(ops[1].sign) = 2 /\ Len(ops[2].sign) = 2 /\ Len(ops[3].sign) = 2
        BY <1>3
      <4>2. k = 1 \/ k = 2 \/ k = 3
        BY <3>2
      <4>3. Len(ops[k].sign) = 2 /\ two # ops[k].sign
        BY <2>3, <4>1, <4>2
      <4>4. 3 + Len(ops[k].sign) - 1 = 4
        BY <4>3
      <4> QED BY <1>1, <2>2, <3>2, <4>3, <4>4
    <3> QED BY <3>1, <3>2
  <2>5. DOMAIN Operators = 1 .. 4 /\ 4 \in 1 .. 4
    BY <1>2, <1>3
  <2>6. \A k \in 1 .. 4 : /\ 3 + Len(Operators[k].sign) - 1 <= Len(raw)
                         /\ SubSeq(raw, 3, 3 + Len(Operators[k].sign) - 1) = Operators[k].sign
                                <=> k = 4
    BY <1>2, <2>4
  <2> QED BY <2>5, <2>6, Zenon DEF SignsAt
<1>7. SignAt(raw, 3) = <<ops[4]>> /\ \A i \in 1 .. 8 : i # 3 => SignAt(raw, i) = <<>>
  <2>1. (CHOOSE k \in {4} : \A j \in {4} : k <= j) = 4
    OBVIOUS
  <2> QED BY <1>2, <1>5, <1>6, <2>1 DEF SignAt, Some, None
<1>8. /\ {i \in DOMAIN raw : raw[i] = name /\ IsSome(SignAt(raw, i + 1))} = {2}
      /\ \A tag : tag # name => {i \in DOMAIN raw : raw[i] = tag /\ IsSome(SignAt(raw, i + 1))} = {}
  <2>1. \A i \in 1 .. 7 : i + 1 \in 1 .. 8 /\ (i + 1 = 3 <=> i = 2)
    OBVIOUS
  <2>2. \A i \in 1 .. 7 : IsSome(SignAt(raw, i + 1)) <=> i = 2
    BY <1>7, <2>1 DEF IsSome
  <2> QED BY <1>1, <2>2
<1>9. ASSUME NEW tag, tag # name PROVE extract_tag_matcher(raw, tag) = <<>>
  <2>1. {i \in DOMAIN raw : raw[i] = tag /\ IsSome(SignAt(raw, i + 1))} = {}
    BY <1>8, <1>9, Zenon
  <2> QED BY <2>1, Zenon DEF extract_tag_matcher, None
<1>10. (CHOOSE i \in {2} : \A j \in {2} : i <= j) = 2
  OBVIOUS
<1>11. PICK rest : rest = After(raw, 2 + Len(ops[4].sign))
  OBVIOUS
<1>12. PICK S : /\ rest \in Seq(S) /\ Len(rest) = 4
                /\ rest[1] = quote /\ rest[2] = "v" /\ rest[3] = quote
  <2>1. After(raw, 3) = SubSeq(raw, 4, 7)
    BY <1>1 DEF After
  <2>2. rest = SubSeq(raw, 4, 7)
    BY <1>3, <1>11, <2>1
  <2>3. raw \in Seq(ToSet(raw))
    BY DEF ToSet
  <2>4. SubSeq(raw, 4, 7) \in Seq(ToSet(raw))
    BY <1>1, <2>3
  <2> QED BY <1>1, <2>2, <2>4
<1>13. UpTo(Tail(rest), {Quote}) = << <<"v">> >>
  <2>1. PICK text : text = Tail(rest)
    OBVIOUS
  <2>2. DOMAIN text = 1 .. 3 /\ text[1] = "v" /\ text[2] = Quote
    <3>1. rest # <<>>
      BY <1>12
    <3>2. /\ text \in Seq(S) /\ Len(text) = Len(rest) - 1
          /\ \A i \in 1 .. Len(text) : text[i] = rest[i + 1]
      BY <1>12, <2>1, <3>1, HeadTailProperties
    <3> QED BY <1>12, <3>2
  <2>3. PICK at : at = {i \in DOMAIN text : text[i] \in {Quote}}
    OBVIOUS
  <2>4. 2 \in at /\ \A j \in at : j \in 1 .. 3 /\ j # 1
    BY <2>2, <2>3
  <2>5. \A j \in at : 2 <= j
    BY <2>4
  <2>6. (CHOOSE i \in at : \A j \in at : i <= j) = 2
    BY <2>4, <2>5
  <2>7. Before(text, 2) = <<"v">>
    BY <2>2, OneCharacter DEF Before
  <2>8. UpTo(text, {Quote}) = << <<"v">> >>
    BY <2>3, <2>4, <2>6, <2>7 DEF UpTo, Some
  <2> QED BY <2>1, <2>8
<1>14. extract_tag_matcher(raw, name) = << Matcher(<<name>>, "Eq", <<"v">>) >>
  <2> DEFINE at == {i \in DOMAIN raw : raw[i] = name /\ IsSome(SignAt(raw, i + 1))}
             first == CHOOSE i \in at : \A j \in at : i <= j
             operator == Value(SignAt(raw, first + 1))
             value == UpTo(Tail(After(raw, first + Len(operator.sign))), {Quote})
  <2>1. at # {} /\ first = 2
    BY <1>8
  <2> HIDE DEF at, first, operator, value
  <2>2. operator = ops[4]
    BY <1>7, <2>1 DEF operator, Value
  <2>3. After(raw, first + Len(operator.sign)) = rest
    BY <1>11, <2>1, <2>2
  <2>4. rest # <<>> /\ rest[1] = Quote
    BY <1>12
  <2>5. value = << <<"v">> >> /\ value # <<>> /\ Value(value) = <<"v">>
    <3>1. value = << <<"v">> >>
      BY <1>13, <2>3 DEF value
    <3> QED BY <3>1 DEF Value
  <2>6. operator.op = "Eq"
    BY <1>3, <2>2
  <2>7. extract_tag_matcher(raw, name) = <<Matcher(<<name>>, operator.op, Value(value))>>
    BY <2>1, <2>3, <2>4, <2>5, Zenon
       DEF at, first, operator, value, extract_tag_matcher, None, Some
  <2> QED BY <2>5, <2>6, <2>7
<1> QED BY <1>9, <1>14

(* SetToSeq of at most one value. *)
LEMMA ListOfOne == SetToSeq({}) = <<>> /\ \A x : SetToSeq({x}) = <<x>>
<1>1. SetToSeq({}) = <<>>
  <2>1. PICK keys : keys = SetToSeq({})
    OBVIOUS
  <2>2. Enumerates(keys, {})
    BY <2>1, FS_EmptySet, SetToSeqEnumerates
  <2>3. PICK n \in Nat : keys \in [1 .. n -> {}]
    BY <2>2 DEF Enumerates
  <2>4. 1 .. n = {}
    BY <2>3
  <2>5. keys = <<>>
    BY <2>3, <2>4
  <2> QED BY <2>1, <2>5
<1>2. ASSUME NEW x PROVE SetToSeq({x}) = <<x>>
  <2>1. PICK keys : keys = SetToSeq({x})
    OBVIOUS
  <2>2. Enumerates(keys, {x})
    BY <2>1, FS_Singleton, SetToSeqEnumerates
  <2>3. PICK n \in Nat : /\ keys \in [1 .. n -> {x}]
                         /\ \A i, j \in 1 .. n : keys[i] = keys[j] => i = j
                         /\ \E i \in 1 .. n : keys[i] = x
    BY <2>2 DEF Enumerates
  <2>4. n = 1
    <3>1. \A i, j \in 1 .. n : i = j
      BY <2>3
    <3>2. n >= 1
      BY <2>3
    <3> QED BY <3>1, <3>2
  <2>5. keys = [i \in 1 .. 1 |-> x]
    BY <2>3, <2>4
  <2>6. keys = <<x>>
    BY <2>5
  <2> QED BY <2>1, <2>6
<1> QED BY <1>1, <1>2

(* A text without tokens has no conditions. *)
LEMMA NothingFound == extract_traceql_matchers(<<>>) = <<>>
<1>1. ASSUME NEW tag PROVE extract_tag_matcher(<<>>, tag) = <<>>
  <2>1. {i \in DOMAIN <<>> : <<>>[i] = tag /\ IsSome(SignAt(<<>>, i + 1))} = {}
    OBVIOUS
  <2> QED BY <2>1, Zenon DEF extract_tag_matcher, None
<1>2. PICK found : found = {extract_tag_matcher(<<>>, tag) : tag \in SpanTags} \ {None}
  OBVIOUS
<1>3. found = {}
  BY <1>1, <1>2 DEF None
<1>4. {Value(m) : m \in found} = {}
  BY <1>3
<1>5. extract_traceql_matchers(<<>>) = SetToSeq({Value(m) : m \in found})
  BY <1>2, Zenon DEF extract_traceql_matchers
<1> QED BY <1>4, <1>5, ListOfOne

(* The query that the tag endpoint's user writes. *)
LEMMA TagWritten ==
    ASSUME NEW name, name # "!", name # "="
    PROVE  LET raw == << "{", name, "=", Quote, "v", Quote, "}" >>
           IN  /\ extract_tag_matcher(raw, name) = << Matcher(<<name>>, "Eq", <<"v">>) >>
               /\ \A tag : tag # name => extract_tag_matcher(raw, tag) = <<>>
<1>1. PICK open, close, quote : open = "{" /\ close = "}" /\ quote = Quote
  OBVIOUS
<1>2. /\ open # "!" /\ open # "=" /\ close # "!" /\ close # "="
      /\ quote # "!" /\ quote # "=" /\ quote # "~" /\ quote # "v" /\ quote = Quote
  BY <1>1, PlainCharacters, Zenon
<1>3. PICK raw : raw = << open, name, "=", quote, "v", quote, close >>
  OBVIOUS
<1>4. /\ extract_tag_matcher(raw, name) = << Matcher(<<name>>, "Eq", <<"v">>) >>
      /\ \A tag : tag # name => extract_tag_matcher(raw, tag) = <<>>
  BY <1>2, <1>3, TagFound
<1> QED BY <1>1, <1>3, <1>4, Zenon

(* plan_tempo_search of a query that has one condition. *)
LEMMA TagSearched ==
    ASSUME NEW i \in Scoped["Spans"], NEW name \in Names(LABELS[i]), NEW raw,
           extract_tag_matcher(raw, name) = << Matcher(<<name>>, "Eq", <<"v">>) >>,
           \A tag : tag # name => extract_tag_matcher(raw, tag) = <<>>
    PROVE  plan_tempo_search([q |-> raw]) = << << Matcher(LABELS[i].canonical, "Eq", <<"v">>) >> >>
<1>1. name \in SpanTags
  BY NameResolves DEF SpanTags, Scopes
<1>2. \A tag \in SpanTags : tag # "q"
  <2>1. SpanTags = UNION {Names(LABELS[j]) : j \in Scoped["Spans"]}
    BY PairsAre DEF SpanTags, Scopes
  <2>2. \A j \in Scoped["Spans"] : Names(LABELS[j]) \cap {"q", "!", "="} = {}
    BY LabelsSound DEF SoundLabel, Scoped, Where, Scopes
  <2> QED BY <2>1, <2>2
<1>3. PICK m : m = Matcher(<<name>>, "Eq", <<"v">>)
  OBVIOUS
<1>4. extract_tag_matcher(raw, name) = <<m>>
  BY <1>3
<1>5. extract_traceql_matchers(raw) = <<m>>
  <2>1. PICK found : found = {extract_tag_matcher(raw, tag) : tag \in SpanTags} \ {None}
    OBVIOUS
  <2>2. found = {<<m>>}
    BY <1>1, <1>4, <2>1 DEF None
  <2>3. {Value(f) : f \in found} = {m}
    <3>1. Value(<<m>>) = m
      BY DEF Value
    <3> QED BY <2>2, <3>1, Zenon
  <2>4. extract_traceql_matchers(raw) = SetToSeq({Value(f) : f \in found})
    BY <2>1, Zenon DEF extract_traceql_matchers
  <2> QED BY <2>3, <2>4, ListOfOne
<1>6. PICK params : params = [q |-> raw]
  OBVIOUS
<1>7. DOMAIN params = {"q"} /\ params["q"] = raw /\ ParamText(params, "tags") = <<>>
  BY <1>6 DEF ParamText
<1>8. TagParams(params) = <<>>
  <2>1. {t \in SpanTags : ParamText(params, t) # <<>>} = {}
    BY <1>2, <1>7 DEF ParamText
  <2>2. {Matcher(<<tag>>, "Eq", params[tag]) : tag \in {t \in SpanTags : ParamText(params, t) # <<>>}} = {}
    BY <2>1, Zenon
  <2> QED BY <2>2, ListOfOne, Zenon DEF TagParams
<1>9. TagParams(params) \o extract_traceql_matchers(params["q"])
          \o extract_traceql_matchers(ParamText(params, "tags")) = <<m>>
  <2>1. <<m>> \in Seq({m})
    OBVIOUS
  <2>2. <<>> \o <<m>> = <<m>> /\ <<m>> \o <<>> = <<m>>
    BY <2>1, ConcatEmptySeq
  <2> QED BY <1>5, <1>7, <1>8, <2>2, NothingFound
<1>10. plan_tempo_search(params) = normalize_matchers(<<m>>, "Spans")
  BY <1>7, <1>9, Zenon DEF plan_tempo_search
<1>11. normalize_matchers(<<m>>, "Spans") = << << Matcher(LABELS[i].canonical, "Eq", <<"v">>) >> >>
  BY <1>3, OneMatcher DEF Scopes
<1> QED BY <1>6, <1>10, <1>11

(* tempo_tag_name gives all names of a tagged label the same tag. *)
LEMMA OneTag ==
    ASSUME NEW i \in Tagged(LABELS), NEW name \in Names(LABELS[i])
    PROVE  tempo_tag_name(name) = LABELS[i].tempo_tag
<1>1. ASSUME NEW j \in Tagged(LABELS)
      PROVE  j \in Scoped["Spans"] /\ TagNames(LABELS[j]) = Names(LABELS[j])
  <2>1. j \in DOMAIN LABELS /\ IsSome(LABELS[j].tempo_tag)
    BY DEF Tagged
  <2>2. Value(LABELS[j].tempo_tag) \in Names(LABELS[j]) /\ "Spans" \in DOMAIN LABELS[j].sources
    BY <2>1, LabelsSound DEF SoundLabel
  <2>3. j \in Scoped["Spans"]
    BY <2>1, <2>2 DEF Scoped, Where, Scopes, has_scope
  <2>4. TagNames(LABELS[j]) = Names(LABELS[j])
    BY <2>2, Zenon DEF TagNames
  <2> QED BY <2>3, <2>4
<1>2. i \in DOMAIN LABELS /\ {j \in Scoped["Spans"] : name \in Names(LABELS[j])} = {i}
  BY <1>1, OneOwner DEF Scopes
<1>3. {j \in Tagged(LABELS) : name \in TagNames(LABELS[j])} = {i}
  BY <1>1, <1>2
<1>4. First(LABELS, {j \in Tagged(LABELS) : name \in TagNames(LABELS[j])}) = <<LABELS[i]>>
  BY <1>2, <1>3, FirstOne
<1>5. <<LABELS[i]>> # <<>> /\ Value(<<LABELS[i]>>) = LABELS[i]
  BY DEF Value
<1> QED BY <1>4, <1>5, Zenon DEF tempo_tag_name, WithTag, None

(* Querying an advertised name. *)
LEMMA AdvertisedStep ==
    ASSUME UseAdvertised
    PROVE  AdvertisedIsQueryable'
<1>0. PICK scope \in Scopes : \E name \in Advertised[scope] :
        Call("advertised", [scope |-> scope, name |-> name],
             IF scope = "Spans"
             THEN plan_tempo_search([q |-> << "{", name, "=", Quote, "v", Quote, "}" >>])
             ELSE normalize_matchers(<< Matcher(<<name>>, "Eq", <<"v">>) >>, scope))
  BY Zenon DEF UseAdvertised
<1>1. PICK name \in Advertised[scope] :
        call' = [of |-> "advertised", in |-> [scope |-> scope, name |-> name],
                 out |-> IF scope = "Spans"
                         THEN plan_tempo_search([q |-> << "{", name, "=", Quote, "v", Quote, "}" >>])
                         ELSE normalize_matchers(<< Matcher(<<name>>, "Eq", <<"v">>) >>, scope)]
  BY <1>0, Zenon DEF Call
<1>2. PICK i \in Scoped[scope] : name \in Names(LABELS[i]) /\ (scope = "Spans" => i \in Tagged(LABELS))
  <2>1. CASE scope = "Logs"
    <3>1. PICK i \in Scoped["Logs"] : name = LABELS[i].canonical
      BY <2>1 DEF Advertised, loki_label_names, OnSurface, Scoped, Scopes
    <3> QED BY <2>1, <3>1 DEF Names
  <2>2. CASE scope = "Metrics"
    <3>1. PICK i \in Scoped["Metrics"] : name = LABELS[i].canonical
      BY <2>2 DEF Advertised, prometheus_label_names, OnSurface, Scoped, Scopes
    <3> QED BY <2>2, <3>1 DEF Names
  <2>3. CASE scope = "Spans"
    <3>1. PICK i \in Scoped["Spans"] \cap Tagged(LABELS) : name \in TagNames(LABELS[i])
      BY <2>3 DEF Advertised, tempo_tag_names, TagsOf, Scoped, Scopes
    <3>2. Value(LABELS[i].tempo_tag) \in Names(LABELS[i])
      BY <3>1, LabelsSound DEF SoundLabel, Tagged
    <3> QED BY <2>3, <3>1, <3>2 DEF TagNames
  <2> QED BY <2>1, <2>2, <2>3 DEF Scopes
<1>3. PICK m : m = Matcher(LABELS[i].canonical, "Eq", <<"v">>)
  OBVIOUS
<1>4. call'.out = << <<m>> >> /\ call'.in.scope = scope /\ call'.in.name = name
  <2>1. CASE scope = "Spans"
    <3>1. plan_tempo_search([q |-> << "{", name, "=", Quote, "v", Quote, "}" >>]) = << <<m>> >>
      <4>1. name # "!" /\ name # "="
        BY <1>2, LabelsSound DEF SoundLabel, Scoped, Where, Scopes
      <4>2. PICK raw : raw = << "{", name, "=", Quote, "v", Quote, "}" >>
        OBVIOUS
      <4>3. /\ extract_tag_matcher(raw, name) = << Matcher(<<name>>, "Eq", <<"v">>) >>
            /\ \A tag : tag # name => extract_tag_matcher(raw, tag) = <<>>
        BY <4>1, <4>2, TagWritten, Zenon
      <4>4. plan_tempo_search([q |-> raw]) = << <<m>> >>
        BY <1>2, <1>3, <2>1, <4>3, TagSearched
      <4> QED BY <4>2, <4>4, Zenon
    <3> QED BY <1>1, <2>1, <3>1, Zenon
  <2>2. CASE scope # "Spans"
    <3>1. normalize_matchers(<< Matcher(<<name>>, "Eq", <<"v">>) >>, scope) = << <<m>> >>
      BY <1>2, <1>3, OneMatcher, Zenon
    <3> QED BY <1>1, <2>2, <3>1, Zenon
  <2> QED BY <2>1, <2>2
<1>5. IsSome(call'.out) /\ Value(call'.out) = <<m>> /\ Len(Value(call'.out)) = 1
  BY <1>4 DEF IsSome, Value
<1>6. m.field = LABELS[i].canonical /\ m.op = "Eq" /\ m.value = <<"v">>
  BY <1>3 DEF Matcher
<1>7. IsSome(label_expr(scope, LABELS[i].canonical))
  BY <1>2, LabelDefined DEF IsSome
<1>8. scope = "Spans" => tempo_tag_name(LABELS[i].canonical) = tempo_tag_name(name)
  <2>1. LABELS[i].canonical \in Names(LABELS[i])
    BY DEF Names
  <2> QED BY <1>2, <2>1, OneTag
<1> QED BY <1>4, <1>5, <1>6, <1>7, <1>8 DEF AdvertisedIsQueryable

(* Of every name, every advertised label and tag, and every grouping: the  *)
(* lists written by hand in semantic_labels.rs, sql.rs, schema.rs, the     *)
(* label endpoints and the row readers agree.  A name means one label in a *)
(* scope, the label reads columns that its tables have, what an endpoint   *)
(* lists is accepted by the parser of its protocol and selects on the      *)
(* label it was listed for, and each reader fits its statement.            *)
THEOREM ListsAlwaysAgree == Spec => []ListsAgree
<1>1. /\ ~Made("label") => OneMeaningPerName /\ LabelReadsItsTable
      /\ ~Made("advertised") => AdvertisedIsQueryable
      /\ ~Made("statement") => ReadersFit
  BY Zenon DEF OneMeaningPerName, LabelReadsItsTable, AdvertisedIsQueryable, ReadersFit
<1>2. /\ ~Made("label")' => OneMeaningPerName' /\ LabelReadsItsTable'
      /\ ~Made("advertised")' => AdvertisedIsQueryable'
      /\ ~Made("statement")' => ReadersFit'
  BY Zenon DEF OneMeaningPerName, LabelReadsItsTable, AdvertisedIsQueryable, ReadersFit
<1>3. Init => ListsAgree
  BY <1>1 DEF Init, Idle, Made, ListsAgree
<1>4. ListsAgree /\ [Next]_call => ListsAgree'
  <2> SUFFICES ASSUME ListsAgree, [Next]_call
               PROVE  ListsAgree'
    OBVIOUS
  <2>1. CASE UNCHANGED call
    BY <2>1, Zenon DEF ListsAgree, OneMeaningPerName, LabelReadsItsTable, AdvertisedIsQueryable,
                       ReadersFit, Made
  <2>2. CASE ~UNCHANGED call
    <3>1. /\ Made("label")' => ResolveLabel
          /\ Made("advertised")' => UseAdvertised
          /\ Made("statement")' => ReadStatement
      BY <2>2, MadeBy DEF Idle, Made
    <3> QED BY <3>1, <1>2, LabelStep, AdvertisedStep, StatementStep, Zenon DEF ListsAgree
  <2> QED BY <2>1, <2>2
<1> QED BY <1>3, <1>4, PTL DEF Spec
=============================================================================
