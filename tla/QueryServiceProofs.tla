------------------------- MODULE QueryServiceProofs -------------------------
(***************************************************************************)
(* Theorems about QueryService for any number of threads, routes, reasons, *)
(* shards and storage parts.                                               *)
(***************************************************************************)
EXTENDS QueryService, SequenceTheorems, FiniteSetTheorems, TLAPS

-----------------------------------------------------------------------------
(* Keys. *)
LEMMA VerdictIsReason ==
    ASSUME NEW t \in Threads
    PROVE  Verdict(t) \in {"ok", "missing_api_key", "bad_api_key"}
BY DEF Verdict, V!ValidateApiKey

LEMMA VerdictInReasons ==
    ASSUME NEW t \in Threads
    PROVE  Verdict(t) \in Reasons
BY VerdictIsReason, ServiceAssumption

(* Only the API key opens a compatibility route. *)
LEMMA OnlyApiKey ==
    ASSUME TypeOK, NEW t \in Threads, request[t].endpoint = "compat", Verdict(t) = "ok"
    PROVE  request[t].key = Some(ApiKey)
<1>1. request[t].key \in {None, Some(ApiKey), Some(AdminKey)}
  BY DEF TypeOK, Requests, Credentials
<1>2. CASE request[t].key = None
  BY <1>2 DEF Verdict, V!ValidateApiKey, V!Supplied, V!OrElse, V!None, None, ApiKey
<1>3. CASE request[t].key = Some(AdminKey)
  <2>1. V!Supplied([bearer |-> request[t].key, x_api_key |-> None]) = Some(AdminKey)
    BY <1>3 DEF V!Supplied, V!OrElse, Some
  <2>2. ~V!ConstantTimeEq(AdminKey, ApiKey)
    BY DEF V!ConstantTimeEq, ApiKey, AdminKey
  <2> QED
    BY <2>1, <2>2 DEF Verdict, V!ValidateApiKey, V!Value, Some, V!None, ApiKey
<1> QED
  BY <1>1, <1>2, <1>3

-----------------------------------------------------------------------------
(* The series of a decided result. *)
LEMMA IncType ==
    ASSUME NEW s \in Series
    PROVE  Inc(s) \in Updates
BY DEF Inc, Updates

(* The elements of a concatenation, by their index. *)
LEMMA Concat ==
    ASSUME NEW S, NEW s \in Seq(S), NEW w \in Seq(S)
    PROVE  /\ s \o w \in Seq(S)
           /\ Len(s \o w) = Len(s) + Len(w)
           /\ \A i \in 1 .. Len(s) : (s \o w)[i] = s[i]
           /\ \A i \in 1 .. Len(w) : (s \o w)[Len(s) + i] = w[i]
OBVIOUS

LEMMA Concat31 ==
    ASSUME NEW S, NEW s \in Seq(S), NEW w \in Seq(S)
    PROVE  Len(s) = 3 /\ Len(w) = 1 =>
             /\ s \o w \in Seq(S) /\ Len(s \o w) = 4
             /\ (s \o w)[1] = s[1] /\ (s \o w)[2] = s[2] /\ (s \o w)[3] = s[3]
             /\ (s \o w)[4] = w[1]
<1>0. /\ s \o w \in Seq(S) /\ Len(s \o w) = Len(s) + Len(w)
      /\ \A i \in 1 .. Len(s) : (s \o w)[i] = s[i]
      /\ \A i \in 1 .. Len(w) : (s \o w)[Len(s) + i] = w[i]
  BY Concat
<1>1. Len(s) = 3 => (s \o w)[1] = s[1] /\ (s \o w)[2] = s[2] /\ (s \o w)[3] = s[3]
  BY <1>0
<1>2. Len(s) = 3 /\ Len(w) = 1 => (s \o w)[3 + 1] = w[1]
  BY <1>0
<1>3. Len(s) = 3 /\ Len(w) = 1 => Len(s \o w) = 4
  BY <1>0
<1> QED
  BY <1>1, <1>2, <1>3, <1>0

LEMMA Concat32 ==
    ASSUME NEW S, NEW s \in Seq(S), NEW w \in Seq(S)
    PROVE  Len(s) = 3 /\ Len(w) = 2 =>
             /\ s \o w \in Seq(S) /\ Len(s \o w) = 5
             /\ (s \o w)[1] = s[1] /\ (s \o w)[2] = s[2] /\ (s \o w)[3] = s[3]
             /\ (s \o w)[4] = w[1] /\ (s \o w)[5] = w[2]
<1>0. /\ s \o w \in Seq(S) /\ Len(s \o w) = Len(s) + Len(w)
      /\ \A i \in 1 .. Len(s) : (s \o w)[i] = s[i]
      /\ \A i \in 1 .. Len(w) : (s \o w)[Len(s) + i] = w[i]
  BY Concat
<1>1. Len(s) = 3 => (s \o w)[1] = s[1] /\ (s \o w)[2] = s[2] /\ (s \o w)[3] = s[3]
  BY <1>0
<1>2. Len(s) = 3 /\ Len(w) = 2 => (s \o w)[3 + 1] = w[1] /\ (s \o w)[3 + 2] = w[2]
  BY <1>0
<1>3. Len(s) = 3 /\ Len(w) = 2 => Len(s \o w) = 5
  BY <1>0
<1> QED
  BY <1>1, <1>2, <1>3, <1>0

LEMMA Concat42 ==
    ASSUME NEW S, NEW s \in Seq(S), NEW w \in Seq(S)
    PROVE  Len(s) = 4 /\ Len(w) = 2 =>
             /\ s \o w \in Seq(S) /\ Len(s \o w) = 6
             /\ (s \o w)[1] = s[1] /\ (s \o w)[2] = s[2] /\ (s \o w)[3] = s[3] /\ (s \o w)[4] = s[4]
             /\ (s \o w)[5] = w[1] /\ (s \o w)[6] = w[2]
<1>0. /\ s \o w \in Seq(S) /\ Len(s \o w) = Len(s) + Len(w)
      /\ \A i \in 1 .. Len(s) : (s \o w)[i] = s[i]
      /\ \A i \in 1 .. Len(w) : (s \o w)[Len(s) + i] = w[i]
  BY Concat
<1>1. Len(s) = 4 => (s \o w)[1] = s[1] /\ (s \o w)[2] = s[2] /\ (s \o w)[3] = s[3] /\ (s \o w)[4] = s[4]
  BY <1>0
<1>2. Len(s) = 4 /\ Len(w) = 2 => (s \o w)[4 + 1] = w[1] /\ (s \o w)[4 + 2] = w[2]
  BY <1>0
<1>3. Len(s) = 4 /\ Len(w) = 2 => Len(s \o w) = 6
  BY <1>0
<1> QED
  BY <1>1, <1>2, <1>3, <1>0

(* The updates of record_query_metrics, in order. *)
LEMMA QueryMetricsIs ==
    ASSUME NEW r \in RouteTemplates, NEW reason \in Reasons,
           NEW q, q = QueryMetrics(r, reason)
    PROVE  /\ q \in Seq(Updates)
           /\ q[1] = Inc(<<"requests", r, reason>>)
           /\ q[2] = Inc(<<"duration_count", r>>)
           /\ q[3] = Inc(<<"duration_sum", r>>)
           /\ reason = "query_timeout" =>
                /\ Len(q) = 6
                /\ q[4] = Inc(<<"timeouts", r>>)
                /\ q[5] = Inc(<<"phase_count", r>>)
                /\ q[6] = Inc(<<"phase_sum", r>>)
           /\ reason # "query_timeout" =>
                /\ Len(q) = 5
                /\ q[4] = Inc(<<"phase_count", r>>)
                /\ q[5] = Inc(<<"phase_sum", r>>)
<1> DEFINE rq == Inc(<<"requests", r, reason>>)
           dc == Inc(<<"duration_count", r>>)
           ds == Inc(<<"duration_sum", r>>)
           to == Inc(<<"timeouts", r>>)
           pn == Inc(<<"phase_count", r>>)
           ps == Inc(<<"phase_sum", r>>)
           h == <<rq>> \o <<dc, ds>>
           timeout == <<to>>
           phase == <<pn, ps>>
<1>1. /\ <<"requests", r, reason>> \in Series /\ <<"timeouts", r>> \in Series
      /\ <<"duration_count", r>> \in Series /\ <<"duration_sum", r>> \in Series
      /\ <<"phase_count", r>> \in Series /\ <<"phase_sum", r>> \in Series
  BY DEF Series, CounterSeries, ObservationSeries
<1>2. rq \in Updates /\ dc \in Updates /\ ds \in Updates /\ to \in Updates
      /\ pn \in Updates /\ ps \in Updates
  BY <1>1, IncType
<1>3. q = (h \o (IF reason = "query_timeout" THEN timeout ELSE <<>>)) \o phase
  BY DEF QueryMetrics, QueryRequest, ObserveSeconds
<1> HIDE DEF rq, dc, ds, to, pn, ps
<1>4. /\ h \in Seq(Updates) /\ Len(h) = 3 /\ h[1] = rq /\ h[2] = dc /\ h[3] = ds
      /\ timeout \in Seq(Updates) /\ Len(timeout) = 1 /\ timeout[1] = to
      /\ phase \in Seq(Updates) /\ Len(phase) = 2 /\ phase[1] = pn /\ phase[2] = ps
  BY <1>2
<1> HIDE DEF h, timeout, phase
<1>5. CASE reason = "query_timeout"
  <2> DEFINE m == h \o timeout
  <2>1. /\ m \in Seq(Updates) /\ Len(m) = 4
        /\ m[1] = rq /\ m[2] = dc /\ m[3] = ds /\ m[4] = to
    BY <1>4, Concat31
  <2>2. q = m \o phase
    BY <1>3, <1>5
  <2> HIDE DEF m
  <2>3. /\ q \in Seq(Updates) /\ Len(q) = 6
        /\ q[1] = rq /\ q[2] = dc /\ q[3] = ds /\ q[4] = to /\ q[5] = pn /\ q[6] = ps
    BY <1>4, <2>1, <2>2, Concat42
  <2> QED
    BY <1>5, <2>3 DEF rq, dc, ds, to, pn, ps
<1>6. CASE reason # "query_timeout"
  <2>1. q = h \o phase
    BY <1>3, <1>4, <1>6, ConcatEmptySeq
  <2>2. /\ q \in Seq(Updates) /\ Len(q) = 5
        /\ q[1] = rq /\ q[2] = dc /\ q[3] = ds /\ q[4] = pn /\ q[5] = ps
    BY <1>4, <2>1, Concat32
  <2> QED
    BY <1>6, <2>2 DEF rq, dc, ds, to, pn, ps
<1> QED
  BY <1>5, <1>6

LEMMA StorageGaugesType ==
    ASSUME NEW parts \in Seq(Seq(Nat)), Len(parts) = Len(Scans)
    PROVE  StorageGauges(parts) \in Seq(Updates)
<1>1. Scans \in Seq(StorageParts) /\ GaugeOrder \in Seq(StorageParts)
  BY ServiceAssumption
<1>2. ASSUME NEW i \in DOMAIN GaugeOrder PROVE StorageGauges(parts)[i] \in Updates
  <2> DEFINE p == GaugeOrder[i]
  <2>1. p \in StorageParts /\ <<"storage", p>> \in Series
    BY <1>1, <1>2 DEF Series, GaugeSeries
  <2>2. \E j \in DOMAIN parts : Scans[j] = p
    BY <1>1, <1>2, ServiceAssumption
  <2>3. Found(parts, p) \in Seq(Nat)
    <3> DEFINE j == CHOOSE j \in DOMAIN parts : Scans[j] = p
    <3>1. j \in DOMAIN parts
      BY <2>2
    <3> QED
      BY <3>1 DEF Found
  <2>4. CASE IsSome(Found(parts, p))
    <3>1. Value(Found(parts, p)) \in Nat
      BY <2>3, <2>4 DEF IsSome, Value
    <3> QED
      BY <2>1, <2>4, <3>1 DEF StorageGauges, Gauge, Updates
  <2>5. CASE ~IsSome(Found(parts, p))
    BY <2>1, <2>5 DEF StorageGauges, Inc, Updates
  <2> QED
    BY <2>4, <2>5
<1>3. DOMAIN StorageGauges(parts) = 1 .. Len(GaugeOrder)
  BY <1>1 DEF StorageGauges
<1>4. StorageGauges(parts) \in [1 .. Len(GaugeOrder) -> Updates]
  BY <1>1, <1>2, <1>3 DEF StorageGauges
<1> QED
  BY <1>1, <1>4
-----------------------------------------------------------------------------
(* Types. *)
LEMMA NoneTyped ==
    /\ NoRequest \in Requests
    /\ NoReport \in Reports
    /\ NoScrape \in [next : Nat, seen : [CounterSeries -> Nat]]
    /\ \A e \in Endpoints, r \in RouteTemplates \cup {<<>>}, k \in Credentials :
         [endpoint |-> e, template |-> r, key |-> k] \in Requests
<1>1. <<>> \in Seq(Seq(Nat))
  OBVIOUS
<1> QED
  BY <1>1 DEF NoRequest, Requests, Endpoints, Credentials, NoReport, Reports, NoScrape

LEMMA ApplyTyped ==
    ASSUME TypeOK, NEW u \in Updates, Apply(u)
    PROVE  registry' \in [Series -> Nat]
<1>1. u.series \in Series /\ u.value \in Nat /\ u.add \in BOOLEAN
  BY DEF Updates
<1>2. registry \in [Series -> Nat]
  BY DEF TypeOK
<1> QED
  BY <1>1, <1>2 DEF Apply

LEMMA TypeInit == Init => TypeOK
<1> SUFFICES ASSUME Init PROVE TypeOK
  OBVIOUS
<1>1. registry \in [Series -> Nat]
  BY DEF Init, EmptyRegistry
<1>2. scrape \in [Threads -> [next : Nat, seen : [CounterSeries -> Nat]]]
  BY NoneTyped DEF Init
<1>3. floor \in [Threads -> [CounterSeries -> Nat]]
  BY DEF Init, NoScrape
<1>4. todo \in [Threads -> Seq(Updates)]
  BY DEF Init
<1>5. ended \in [RouteTemplates \X Reasons -> Nat]
  BY DEF Init
<1>6. request \in [Threads -> Requests] /\ report \in [Threads -> Reports]
  BY NoneTyped DEF Init
<1> QED
  BY <1>1, <1>2, <1>3, <1>4, <1>5, <1>6 DEF Init, TypeOK, PCs, Outcomes, QueryClasses

(* What Decide writes. *)
LEMMA DecideTyped ==
    ASSUME TypeOK, NEW t \in Threads, NEW reason \in Reasons, Decide(t, reason),
           request[t].template \in RouteTemplates
    PROVE  /\ pc' \in [Threads -> PCs]
           /\ todo' \in [Threads -> Seq(Updates)]
           /\ status' \in [Threads -> Outcomes]
           /\ ended' \in [RouteTemplates \X Reasons -> Nat]
<1>1. QueryMetrics(request[t].template, reason) \in Seq(Updates)
  BY QueryMetricsIs
<1>2. todo' \in [Threads -> Seq(Updates)]
  BY <1>1 DEF Decide, TypeOK
<1>3. ended' \in [RouteTemplates \X Reasons -> Nat]
  BY DEF Decide, TypeOK
<1> QED
  BY <1>2, <1>3 DEF Decide, TypeOK, PCs, Outcomes

(* What admission writes. *)
LEMMA AdmissionTyped ==
    ASSUME TypeOK, NEW t \in Threads
    PROVE  /\ Adm!Grant(t) => call' \in [Threads -> {"none", "pending", "held"}] /\ class' = class
           /\ Adm!Refuse(t) => call' \in [Threads -> {"none", "pending", "held"}] /\ class' = class
           /\ ReleaseSlot(t) => call' \in [Threads -> {"none", "pending", "held"}] /\ class' = class
           /\ \A c \in QueryClasses : Adm!Request(t, c) =>
                call' \in [Threads -> {"none", "pending", "held"}] /\ class' \in [Threads -> QueryClasses]
BY DEF TypeOK, Adm!Grant, Adm!Refuse, Adm!Release, Adm!Request, ReleaseSlot
(* Where a thread is depends on its endpoint. *)
PlaceInv == \A t \in Threads :
    /\ request[t].endpoint = "compat" => request[t].template \in RouteTemplates
    /\ pc[t] = "auth" => request[t].endpoint \in {"compat", "admin_storage", "admin_queries"}
    /\ pc[t] \in {"admit", "run"} => request[t].endpoint = "compat"
    /\ pc[t] \in {"check", "note", "read", "scan"} =>
         request[t].endpoint \in Reporting \cup {"metrics"}

LEMMA PlaceInit == Init => PlaceInv
BY DEF Init, PlaceInv, NoRequest

LEMMA TypeStep ==
    ASSUME TypeOK, PlaceInv, [Next]_vars
    PROVE  TypeOK'
<1> USE DEF PCs, storage, history
<1>1. CASE UNCHANGED vars
  BY <1>1 DEF vars, TypeOK
<1>2. CASE StorageChanges
  BY <1>2 DEF StorageChanges, TypeOK
<1>3. CASE WriterCommits
  BY <1>3 DEF WriterCommits, TypeOK
<1>4. ASSUME NEW t \in Threads, NEW e \in Endpoints,
             NEW r \in RouteTemplates \cup {<<>>}, NEW k \in Credentials,
             NEW to \in PCs, Arrives(t, [endpoint |-> e, template |-> r, key |-> k], to),
             status' \in [Threads -> Outcomes], queries' \in Nat
      PROVE  TypeOK'
  <2>1. [endpoint |-> e, template |-> r, key |-> k] \in Requests
    BY NoneTyped
  <2>2. request' \in [Threads -> Requests] /\ troubled' \in [Threads -> BOOLEAN]
    BY <1>4, <2>1 DEF Arrives, TypeOK
  <2> QED
    BY <1>4, <2>2 DEF Arrives, Goto, TypeOK
<1>5. ASSUME NEW t \in Threads, Arrival(t) PROVE TypeOK'
  <2>1. ASSUME NEW r \in RouteTemplates, NEW k \in Credentials, CompatRequest(t, r, k) PROVE TypeOK'
    <3>1. status' \in [Threads -> Outcomes] /\ queries' \in Nat
      BY <2>1 DEF CompatRequest, TypeOK
    <3> QED
      BY <1>4, <2>1, <3>1 DEF CompatRequest, Endpoints
  <2>2. ASSUME NEW e \in {"admin_storage", "admin_queries"}, NEW k \in Credentials,
               AdminRequest(t, e, k) PROVE TypeOK'
    <3>1. status' \in [Threads -> Outcomes] /\ queries' \in Nat
      BY <2>2 DEF AdminRequest, TypeOK
    <3> QED
      BY <1>4, <2>2, <3>1 DEF AdminRequest, Endpoints
  <2>3. ASSUME NEW e \in {"healthz", "metrics"}, OpenRequest(t, e) PROVE TypeOK'
    <3>1. status' \in [Threads -> Outcomes] /\ queries' \in Nat
      BY <2>3 DEF OpenRequest, TypeOK
    <3> QED
      BY <1>4, <2>3, <3>1 DEF OpenRequest, Endpoints, Credentials
  <2>4. CASE UnknownRequest(t)
    <3>1. status' \in [Threads -> Outcomes] /\ queries' \in Nat
      BY <2>4 DEF UnknownRequest, TypeOK, Outcomes
    <3> QED
      BY <1>4, <2>4, <3>1 DEF UnknownRequest, NoRequest, Endpoints, Credentials
  <2> QED
    BY <1>5, <2>1, <2>2, <2>3, <2>4 DEF Arrival
<1>6. ASSUME NEW t \in Threads, Denied(t) PROVE TypeOK'
  <2>1. Verdict(t) \in Reasons /\ request[t].template \in RouteTemplates
    BY <1>6, VerdictInReasons DEF Denied, PlaceInv
  <2> QED
    BY <1>6, <2>1, DecideTyped DEF Denied, TypeOK
<1>7. ASSUME NEW t \in Threads, Authorized(t) PROVE TypeOK'
  <2> DEFINE c == Admission(request[t].template)
  <2>1. c \in QueryClasses \cup {"none"}
    BY <1>7, ServiceAssumption DEF Authorized, PlaceInv
  <2>2. /\ pc' \in [Threads -> PCs]
        /\ call' \in [Threads -> {"none", "pending", "held"}]
        /\ class' \in [Threads -> QueryClasses]
    <3>1. CASE c = "none"
      BY <1>7, <3>1 DEF Authorized, Goto, TypeOK
    <3>2. CASE c # "none"
      BY <1>7, <2>1, <3>2, AdmissionTyped DEF Authorized, Goto, TypeOK
    <3> QED
      BY <3>1, <3>2
  <2> QED
    BY <1>7, <2>2 DEF Authorized, TypeOK
<1>8. ASSUME NEW t \in Threads, Admitted(t) PROVE TypeOK'
  BY <1>8, AdmissionTyped DEF Admitted, Goto, TypeOK
<1>9. ASSUME NEW t \in Threads, Overloaded(t) PROVE TypeOK'
  <2>1. class[t] \in QueryClasses /\ AdmissionFull[class[t]] \in Reasons
    BY ServiceAssumption DEF TypeOK
  <2>2. request[t].template \in RouteTemplates
    BY <1>9 DEF Overloaded, PlaceInv
  <2>3. registry' \in [Series -> Nat]
    <3>1. <<"rejections", class[t]>> \in Series
      BY <2>1 DEF Series, CounterSeries
    <3> QED
      BY <1>9, <3>1, IncType, ApplyTyped DEF Overloaded
  <2>4. call' \in [Threads -> {"none", "pending", "held"}] /\ class' = class
    BY <1>9, AdmissionTyped DEF Overloaded
  <2> QED
    BY <1>9, <2>1, <2>2, <2>3, <2>4, DecideTyped DEF Overloaded, TypeOK
<1>10. ASSUME NEW t \in Threads, NEW reason \in Results(t), RunReturns(t, reason) PROVE TypeOK'
  <2>1. reason \in Reasons
    BY ServiceAssumption DEF Results
  <2>2. request[t].template \in RouteTemplates
    BY <1>10 DEF RunReturns, PlaceInv
  <2> QED
    BY <1>10, <2>1, <2>2, DecideTyped, AdmissionTyped DEF RunReturns, TypeOK
<1>11. ASSUME NEW t \in Threads, RunPanics(t) PROVE TypeOK'
  <2>1. request' \in [Threads -> Requests]
    BY <1>11, NoneTyped DEF RunPanics, TypeOK
  <2> QED
    BY <1>11, <2>1, AdmissionTyped DEF RunPanics, Goto, TypeOK
<1>12. ASSUME NEW t \in Threads, AdminDenied(t) PROVE TypeOK'
  BY <1>12, VerdictInReasons DEF AdminDenied, Answers, Goto, TypeOK, Outcomes
<1>13. ASSUME NEW t \in Threads, AdminAuthorized(t) PROVE TypeOK'
  BY <1>13 DEF AdminAuthorized, Goto, TypeOK
<1>14. ASSUME NEW t \in Threads, Check(t) PROVE TypeOK'
  <2>1. report' \in [Threads -> Reports]
    <3>1. PICK ok \in {TRUE, sound} : report' = [report EXCEPT ![t].healthy = ok]
      BY <1>14 DEF Check
    <3>2. ok \in BOOLEAN /\ report \in [Threads -> Reports]
      BY DEF TypeOK
    <3> QED
      BY <3>1, <3>2 DEF Reports
  <2> QED
    BY <1>14, <2>1 DEF Check, Goto, TypeOK
<1>15. ASSUME NEW t \in Threads, NoteError(t) PROVE TypeOK'
  BY <1>15 DEF NoteError, Goto, TypeOK
<1>16. ASSUME NEW t \in Threads, ReadError(t) PROVE TypeOK'
  <2>1. report' \in [Threads -> Reports]
    BY <1>16 DEF ReadError, TypeOK, Reports
  <2>2. pc' \in [Threads -> PCs] /\ status' \in [Threads -> Outcomes]
    BY <1>16, ServiceAssumption DEF ReadError, Answers, Goto, Readiness, TypeOK, Outcomes
  <2> QED
    BY <1>16, <2>1, <2>2 DEF ReadError, TypeOK
<1>17. ASSUME NEW t \in Threads, Scan(t) PROVE TypeOK'
  <2> DEFINE i == Len(report[t].parts) + 1
  <2>1. report[t] \in Reports /\ report[t].parts \in Seq(Seq(Nat)) /\ data \in Nat
    BY DEF TypeOK, Reports
  <2>2. PICK found \in {Some(data)} \cup (IF sound THEN {} ELSE {Failure(Scans[i])}) :
          Scanned(t, Append(report[t].parts, found))
    BY <1>17 DEF Scan
  <2> DEFINE parts == Append(report[t].parts, found)
  <2>3. found \in Seq(Nat)
    <3>1. Some(data) \in Seq(Nat) /\ Some(0) \in Seq(Nat) /\ None \in Seq(Nat)
      BY <2>1 DEF Some, None
    <3>2. found \in {Some(data), Some(0), None}
      BY DEF Failure
    <3> QED
      BY <3>1, <3>2
  <2>4. parts \in Seq(Seq(Nat)) /\ Len(parts) = i
    BY <2>1, <2>3
  <2> HIDE DEF parts
  <2>5. [report[t] EXCEPT !.parts = parts] \in Reports
    BY <2>1, <2>4 DEF Reports
  <2>6. /\ UNCHANGED <<registry, request, call, class, scrape, storage, history>>
        /\ Scanned(t, parts)
    BY <1>17, <2>2 DEF Scan, parts
  <2>7. Readiness(report[t]) \in Outcomes /\ "ok" \in Outcomes
    BY ServiceAssumption DEF Readiness, Outcomes
  <2>8. CASE Len(parts) < Len(Scans) /\ UNCHANGED <<pc, status, todo>>
             /\ report' = [report EXCEPT ![t].parts = parts]
    BY <2>5, <2>6, <2>8 DEF TypeOK
  <2>9. CASE /\ report' = [report EXCEPT ![t].parts = parts]
             /\ Answers(t, "scan", Readiness(report[t])) /\ UNCHANGED todo
    BY <2>5, <2>6, <2>7, <2>9 DEF TypeOK, Answers, Goto
  <2>10. CASE /\ Len(parts) = Len(Scans)
              /\ report' = [report EXCEPT ![t] = NoReport]
              /\ Goto(t, "scan", "emit")
              /\ todo' = [todo EXCEPT ![t] = StorageGauges(parts)]
              /\ status' = [status EXCEPT ![t] = "ok"]
    <3>1. StorageGauges(parts) \in Seq(Updates)
      BY <2>4, <2>10, StorageGaugesType
    <3> QED
      BY <2>6, <2>7, <2>10, <3>1, NoneTyped DEF TypeOK, Goto
  <2> QED
    BY <2>6, <2>8, <2>9, <2>10 DEF Scanned
<1>18. ASSUME NEW t \in Threads, Emit(t) PROVE TypeOK'
  <2>1. Head(todo[t]) \in Updates /\ Tail(todo[t]) \in Seq(Updates)
    BY <1>18 DEF Emit, TypeOK
  <2>2. registry' \in [Series -> Nat]
    BY <1>18, <2>1, ApplyTyped DEF Emit
  <2>3. todo' \in [Threads -> Seq(Updates)]
    BY <1>18, <2>1 DEF Emit, TypeOK
  <2> QED
    BY <1>18, <2>2, <2>3 DEF Emit, TypeOK
<1>19. ASSUME NEW t \in Threads, Emitted(t) PROVE TypeOK'
  <2>1. Counters \in [CounterSeries -> Nat]
    BY DEF Counters, TypeOK, Series
  <2>2. floor' \in [Threads -> [CounterSeries -> Nat]]
    BY <1>19, <2>1 DEF Emitted, TypeOK
  <2> QED
    BY <1>19, <2>2 DEF Emitted, Goto, TypeOK
<1>20. ASSUME NEW t \in Threads, Render(t) PROVE TypeOK'
  <2>1. CopyShard(scrape[t]) \in [next : Nat, seen : [CounterSeries -> Nat]]
    BY DEF CopyShard, TypeOK, Series
  <2>2. scrape' \in [Threads -> [next : Nat, seen : [CounterSeries -> Nat]]]
    BY <1>20, <2>1 DEF Render, TypeOK
  <2> QED
    BY <1>20, <2>2 DEF Render, Goto, TypeOK
<1>21. ASSUME NEW t \in Threads, Answer(t) PROVE TypeOK'
  <2>1. /\ request' \in [Threads -> Requests]
        /\ report' \in [Threads -> Reports]
        /\ scrape' \in [Threads -> [next : Nat, seen : [CounterSeries -> Nat]]]
        /\ floor' \in [Threads -> [CounterSeries -> Nat]]
    BY <1>21, NoneTyped DEF Answer, TypeOK
  <2> QED
    BY <1>21, <2>1 DEF Answer, Goto, TypeOK, Outcomes
<1> QED
  BY <1>1, <1>2, <1>3, <1>5, <1>6, <1>7, <1>8, <1>9, <1>10, <1>11, <1>12, <1>13, <1>14,
     <1>15, <1>16, <1>17, <1>18, <1>19, <1>20, <1>21
  DEF Next, Step

LEMMA PlaceStep ==
    ASSUME TypeOK, PlaceInv, [Next]_vars
    PROVE  PlaceInv'
<1> USE DEF PlaceInv, TypeOK, Reporting, NoRequest, storage, history
<1>1. CASE UNCHANGED vars
  BY <1>1 DEF vars
<1>2. CASE StorageChanges
  BY <1>2 DEF StorageChanges
<1>3. CASE WriterCommits
  BY <1>3 DEF WriterCommits
<1>4. ASSUME NEW t \in Threads, NEW r \in RouteTemplates, NEW k \in Credentials,
             CompatRequest(t, r, k) PROVE PlaceInv'
  BY <1>4 DEF CompatRequest, Arrives, Goto
<1>5. ASSUME NEW t \in Threads, NEW e \in {"admin_storage", "admin_queries"}, NEW k \in Credentials,
             AdminRequest(t, e, k) PROVE PlaceInv'
  BY <1>5 DEF AdminRequest, Arrives, Goto
<1>6. ASSUME NEW t \in Threads, NEW e \in {"healthz", "metrics"}, OpenRequest(t, e) PROVE PlaceInv'
  BY <1>6 DEF OpenRequest, Arrives, Goto
<1>7. ASSUME NEW t \in Threads, UnknownRequest(t) PROVE PlaceInv'
  BY <1>7 DEF UnknownRequest, Arrives, Goto
<1>8. ASSUME NEW t \in Threads, Denied(t) PROVE PlaceInv'
  BY <1>8 DEF Denied, Decide
<1>9. ASSUME NEW t \in Threads, Authorized(t) PROVE PlaceInv'
  BY <1>9 DEF Authorized, Goto
<1>10. ASSUME NEW t \in Threads, Admitted(t) PROVE PlaceInv'
  BY <1>10 DEF Admitted, Goto
<1>11. ASSUME NEW t \in Threads, Overloaded(t) PROVE PlaceInv'
  BY <1>11 DEF Overloaded, Decide
<1>12. ASSUME NEW t \in Threads, NEW reason \in Results(t), RunReturns(t, reason) PROVE PlaceInv'
  BY <1>12 DEF RunReturns, Decide
<1>13. ASSUME NEW t \in Threads, RunPanics(t) PROVE PlaceInv'
  BY <1>13 DEF RunPanics, Goto
<1>14. ASSUME NEW t \in Threads, AdminDenied(t) PROVE PlaceInv'
  BY <1>14 DEF AdminDenied, Answers, Goto
<1>15. ASSUME NEW t \in Threads, AdminAuthorized(t) PROVE PlaceInv'
  BY <1>15 DEF AdminAuthorized, Goto
<1>16. ASSUME NEW t \in Threads, Check(t) PROVE PlaceInv'
  BY <1>16 DEF Check, Goto
<1>17. ASSUME NEW t \in Threads, NoteError(t) PROVE PlaceInv'
  BY <1>17 DEF NoteError, Goto
<1>18. ASSUME NEW t \in Threads, ReadError(t) PROVE PlaceInv'
  BY <1>18 DEF ReadError, Answers, Goto
<1>19. ASSUME NEW t \in Threads, Scan(t) PROVE PlaceInv'
  BY <1>19 DEF Scan, Scanned, Answers, Goto
<1>20. ASSUME NEW t \in Threads, Emit(t) PROVE PlaceInv'
  BY <1>20 DEF Emit
<1>21. ASSUME NEW t \in Threads, Emitted(t) PROVE PlaceInv'
  BY <1>21 DEF Emitted, Goto
<1>22. ASSUME NEW t \in Threads, Render(t) PROVE PlaceInv'
  BY <1>22 DEF Render, Goto
<1>23. ASSUME NEW t \in Threads, Answer(t) PROVE PlaceInv'
  BY <1>23 DEF Answer, Goto
<1> QED
  BY <1>1, <1>2, <1>3, <1>4, <1>5, <1>6, <1>7, <1>8, <1>9, <1>10, <1>11, <1>12,
     <1>13, <1>14, <1>15, <1>16, <1>17, <1>18, <1>19, <1>20, <1>21, <1>22, <1>23
  DEF Next, Step, Arrival

(* A thread has an admission call only between its request for a slot and   *)
(* the end of its query, and only with the API key.                        *)
KeyInv == \A t \in Threads :
    /\ call[t] = "pending" => pc[t] = "admit"
    /\ call[t] = "held" => pc[t] = "run"
    /\ pc[t] \in {"admit", "run"} => request[t].key = Some(ApiKey)

LEMMA KeyInit == Init => KeyInv
BY DEF Init, KeyInv

LEMMA KeyStep ==
    ASSUME TypeOK, PlaceInv, KeyInv, [Next]_vars
    PROVE  KeyInv'
<1> USE DEF KeyInv, TypeOK, storage, history, Adm!Request, Adm!Grant, Adm!Refuse, Adm!Release, ReleaseSlot
<1>1. CASE UNCHANGED vars
  BY <1>1 DEF vars
<1>2. CASE StorageChanges
  BY <1>2 DEF StorageChanges
<1>3. CASE WriterCommits
  BY <1>3 DEF WriterCommits
<1>4. ASSUME NEW t \in Threads, NEW r \in RouteTemplates, NEW k \in Credentials,
             CompatRequest(t, r, k) PROVE KeyInv'
  BY <1>4 DEF CompatRequest, Arrives, Goto
<1>5. ASSUME NEW t \in Threads, NEW e \in {"admin_storage", "admin_queries"}, NEW k \in Credentials,
             AdminRequest(t, e, k) PROVE KeyInv'
  BY <1>5 DEF AdminRequest, Arrives, Goto
<1>6. ASSUME NEW t \in Threads, NEW e \in {"healthz", "metrics"}, OpenRequest(t, e) PROVE KeyInv'
  BY <1>6 DEF OpenRequest, Arrives, Goto
<1>7. ASSUME NEW t \in Threads, UnknownRequest(t) PROVE KeyInv'
  BY <1>7 DEF UnknownRequest, Arrives, Goto
<1>8. ASSUME NEW t \in Threads, Denied(t) PROVE KeyInv'
  BY <1>8 DEF Denied, Decide
<1>9. ASSUME NEW t \in Threads, Authorized(t) PROVE KeyInv'
  BY <1>9, OnlyApiKey DEF Authorized, Goto, PlaceInv
<1>10. ASSUME NEW t \in Threads, Admitted(t) PROVE KeyInv'
  BY <1>10 DEF Admitted, Goto
<1>11. ASSUME NEW t \in Threads, Overloaded(t) PROVE KeyInv'
  BY <1>11 DEF Overloaded, Decide
<1>12. ASSUME NEW t \in Threads, NEW reason \in Results(t), RunReturns(t, reason) PROVE KeyInv'
  BY <1>12 DEF RunReturns, Decide
<1>13. ASSUME NEW t \in Threads, RunPanics(t) PROVE KeyInv'
  BY <1>13 DEF RunPanics, Goto
<1>14. ASSUME NEW t \in Threads, AdminDenied(t) PROVE KeyInv'
  BY <1>14 DEF AdminDenied, Answers, Goto
<1>15. ASSUME NEW t \in Threads, AdminAuthorized(t) PROVE KeyInv'
  BY <1>15 DEF AdminAuthorized, Goto
<1>16. ASSUME NEW t \in Threads, Check(t) PROVE KeyInv'
  BY <1>16 DEF Check, Goto
<1>17. ASSUME NEW t \in Threads, NoteError(t) PROVE KeyInv'
  BY <1>17 DEF NoteError, Goto
<1>18. ASSUME NEW t \in Threads, ReadError(t) PROVE KeyInv'
  BY <1>18 DEF ReadError, Answers, Goto
<1>19. ASSUME NEW t \in Threads, Scan(t) PROVE KeyInv'
  BY <1>19 DEF Scan, Scanned, Answers, Goto
<1>20. ASSUME NEW t \in Threads, Emit(t) PROVE KeyInv'
  BY <1>20 DEF Emit
<1>21. ASSUME NEW t \in Threads, Emitted(t) PROVE KeyInv'
  BY <1>21 DEF Emitted, Goto
<1>22. ASSUME NEW t \in Threads, Render(t) PROVE KeyInv'
  BY <1>22 DEF Render, Goto
<1>23. ASSUME NEW t \in Threads, Answer(t) PROVE KeyInv'
  BY <1>23 DEF Answer, Goto
<1> QED
  BY <1>1, <1>2, <1>3, <1>4, <1>5, <1>6, <1>7, <1>8, <1>9, <1>10, <1>11, <1>12,
     <1>13, <1>14, <1>15, <1>16, <1>17, <1>18, <1>19, <1>20, <1>21, <1>22, <1>23
  DEF Next, Step, Arrival

(* A thread that reports on storage remembers that storage was unsound. *)
AlarmInv == \A t \in Threads :
    /\ status[t] = "not_ready" => pc[t] = "answer" /\ troubled[t]
    /\ request[t].endpoint \in Reporting /\ ~sound => troubled[t]
    /\ /\ pc[t] \in {"note", "read", "scan"}
       /\ request[t].endpoint \in Reporting
       /\ ~report[t].healthy
       => troubled[t]

LEMMA AlarmInit == Init => AlarmInv
BY DEF Init, AlarmInv

LEMMA AlarmStep ==
    ASSUME TypeOK, PlaceInv, AlarmInv, [Next]_vars
    PROVE  AlarmInv'
<1> USE DEF AlarmInv, TypeOK, Reporting, NoRequest, storage, history
<1>1. CASE UNCHANGED vars
  BY <1>1 DEF vars
<1>2. CASE StorageChanges
  BY <1>2 DEF StorageChanges
<1>3. CASE WriterCommits
  BY <1>3 DEF WriterCommits
<1>4. ASSUME NEW t \in Threads, NEW r \in RouteTemplates, NEW k \in Credentials,
             CompatRequest(t, r, k) PROVE AlarmInv'
  BY <1>4 DEF CompatRequest, Arrives, Goto
<1>5. ASSUME NEW t \in Threads, NEW e \in {"admin_storage", "admin_queries"}, NEW k \in Credentials,
             AdminRequest(t, e, k) PROVE AlarmInv'
  BY <1>5 DEF AdminRequest, Arrives, Goto
<1>6. ASSUME NEW t \in Threads, NEW e \in {"healthz", "metrics"}, OpenRequest(t, e) PROVE AlarmInv'
  BY <1>6 DEF OpenRequest, Arrives, Goto
<1>7. ASSUME NEW t \in Threads, UnknownRequest(t) PROVE AlarmInv'
  BY <1>7 DEF UnknownRequest, Arrives, Goto
<1>8. ASSUME NEW t \in Threads, Denied(t) PROVE AlarmInv'
  BY <1>8, VerdictInReasons, ServiceAssumption DEF Denied, Decide
<1>9. ASSUME NEW t \in Threads, Authorized(t) PROVE AlarmInv'
  BY <1>9 DEF Authorized, Goto
<1>10. ASSUME NEW t \in Threads, Admitted(t) PROVE AlarmInv'
  BY <1>10 DEF Admitted, Goto
<1>11. ASSUME NEW t \in Threads, Overloaded(t) PROVE AlarmInv'
  BY <1>11, ServiceAssumption DEF Overloaded, Decide
<1>12. ASSUME NEW t \in Threads, NEW reason \in Results(t), RunReturns(t, reason) PROVE AlarmInv'
  BY <1>12, ServiceAssumption DEF RunReturns, Decide, Results
<1>13. ASSUME NEW t \in Threads, RunPanics(t) PROVE AlarmInv'
  BY <1>13 DEF RunPanics, Goto
<1>14. ASSUME NEW t \in Threads, AdminDenied(t) PROVE AlarmInv'
  BY <1>14, VerdictInReasons, ServiceAssumption DEF AdminDenied, Answers, Goto
<1>15. ASSUME NEW t \in Threads, AdminAuthorized(t) PROVE AlarmInv'
  BY <1>15 DEF AdminAuthorized, Goto
<1>16. ASSUME NEW t \in Threads, Check(t) PROVE AlarmInv'
  <2>1. PICK ok \in {TRUE, sound} : report' = [report EXCEPT ![t].healthy = ok]
    BY <1>16 DEF Check
  <2>2. ASSUME NEW u \in Threads PROVE report'[u].healthy = IF u = t THEN ok ELSE report[u].healthy
    BY <2>1 DEF Reports
  <2>3. ASSUME NEW u \in Threads, pc'[u] \in {"note", "read", "scan"},
               request[u].endpoint \in Reporting, ~report'[u].healthy PROVE troubled[u]
    <3>1. CASE u = t
      BY <2>1, <2>2, <2>3, <3>1
    <3>2. CASE u # t
      BY <1>16, <2>2, <2>3, <3>2 DEF Check, Goto
    <3> QED
      BY <3>1, <3>2
  <2> QED
    BY <1>16, <2>3 DEF Check, Goto
<1>17. ASSUME NEW t \in Threads, NoteError(t) PROVE AlarmInv'
  BY <1>17 DEF NoteError, Goto
<1>18. ASSUME NEW t \in Threads, ReadError(t) PROVE AlarmInv'
  BY <1>18 DEF ReadError, Answers, Goto, PlaceInv, Readiness, IsReady
<1>19. ASSUME NEW t \in Threads, Scan(t) PROVE AlarmInv'
  <2>1. PICK parts : Scanned(t, parts)
    BY <1>19 DEF Scan
  <2>2. ASSUME NEW u \in Threads, u # t PROVE report'[u] = report[u]
    BY <2>1, <2>2 DEF Scanned
  <2>3. request[t].endpoint # "metrics" => report'[t].healthy = report[t].healthy
    BY <2>1 DEF Scanned, Reports
  <2>4. UNCHANGED <<request, troubled, sound>> /\ pc[t] = "scan"
    BY <1>19 DEF Scan
  <2>5. ASSUME NEW u \in Threads
        PROVE  /\ status'[u] = "not_ready" => pc'[u] = "answer" /\ troubled[u]
               /\ u # t => pc'[u] = pc[u]
               /\ u = t => pc'[u] \in {"scan", "answer", "emit"}
    BY <2>1, <2>4 DEF Scanned, Answers, Goto, Readiness, IsReady
  <2>6. ASSUME NEW u \in Threads, pc'[u] \in {"note", "read", "scan"},
               request[u].endpoint \in Reporting, ~report'[u].healthy PROVE troubled[u]
    BY <2>2, <2>3, <2>4, <2>5, <2>6
  <2> QED
    BY <2>4, <2>5, <2>6
<1>20. ASSUME NEW t \in Threads, Emit(t) PROVE AlarmInv'
  BY <1>20 DEF Emit
<1>21. ASSUME NEW t \in Threads, Emitted(t) PROVE AlarmInv'
  BY <1>21 DEF Emitted, Goto
<1>22. ASSUME NEW t \in Threads, Render(t) PROVE AlarmInv'
  BY <1>22 DEF Render, Goto
<1>23. ASSUME NEW t \in Threads, Answer(t) PROVE AlarmInv'
  BY <1>23 DEF Answer, Goto
<1> QED
  BY <1>1, <1>2, <1>3, <1>4, <1>5, <1>6, <1>7, <1>8, <1>9, <1>10, <1>11, <1>12,
     <1>13, <1>14, <1>15, <1>16, <1>17, <1>18, <1>19, <1>20, <1>21, <1>22, <1>23
  DEF Next, Step, Arrival

-----------------------------------------------------------------------------
(* What is still to be written. *)

(* Counters are raised by one, each at most once in a list of updates. *)
Counting(q) == \A i \in DOMAIN q : q[i].series \in CounterSeries =>
    /\ q[i].add /\ q[i].value = 1
    /\ \A j \in DOMAIN q : q[j].series = q[i].series => j = i

TodoInv == \A t \in Threads :
    /\ pc[t] # "emit" => todo[t] = <<>>
    /\ Counting(todo[t])

(* The series a decided result is counted in. *)
Decided(r, reason) ==
    {<<"requests", r, reason>>} \cup (ObservationSeries \X {r})
      \cup (IF reason = "query_timeout" THEN {<<"timeouts", r>>} ELSE {})

LEMMA DecidedMembers ==
    ASSUME NEW r \in RouteTemplates, NEW reason \in Reasons, NEW r2 \in RouteTemplates
    PROVE  /\ \A q \in Reasons : <<"requests", r2, q>> \in Decided(r, reason) <=> r2 = r /\ q = reason
           /\ <<"timeouts", r2>> \in Decided(r, reason) <=> r2 = r /\ reason = "query_timeout"
           /\ \A x \in ObservationSeries : <<x, r2>> \in Decided(r, reason) <=> r2 = r
<1>1. ASSUME NEW q \in Reasons
      PROVE  <<"requests", r2, q>> \in Decided(r, reason) <=> r2 = r /\ q = reason
  <2>1. <<"requests", r2, q>> \notin ObservationSeries \X {r}
    BY DEF ObservationSeries
  <2>2. <<"requests", r2, q>> # <<"timeouts", r>>
    OBVIOUS
  <2> QED
    BY <2>1, <2>2 DEF Decided
<1>2. <<"timeouts", r2>> \in Decided(r, reason) <=> r2 = r /\ reason = "query_timeout"
  <2>1. <<"timeouts", r2>> \notin ObservationSeries \X {r}
    BY DEF ObservationSeries
  <2>2. <<"timeouts", r2>> # <<"requests", r, reason>>
    OBVIOUS
  <2> QED
    BY <2>1, <2>2 DEF Decided
<1>3. ASSUME NEW x \in ObservationSeries
      PROVE  <<x, r2>> \in Decided(r, reason) <=> r2 = r
  <2>1. x # "timeouts" /\ x # "requests"
    BY DEF ObservationSeries
  <2>2. <<x, r2>> # <<"requests", r, reason>> /\ <<x, r2>> # <<"timeouts", r>>
    BY <2>1
  <2> QED
    BY <2>2 DEF Decided
<1> QED
  BY <1>1, <1>2, <1>3

LEMMA QueryMetricsCount ==
    ASSUME NEW r \in RouteTemplates, NEW reason \in Reasons,
           NEW q, q = QueryMetrics(r, reason)
    PROVE  /\ Counting(q)
           /\ \A s : (\E i \in DOMAIN q : q[i].series = s) <=> s \in Decided(r, reason)
<1>1. q \in Seq(Updates)
  BY QueryMetricsIs
<1>2. <<"requests", r, reason>> \notin ObservationSeries \X {r}
  BY DEF ObservationSeries
<1>3. CASE reason = "query_timeout"
  <2>1. /\ DOMAIN q = {1, 2, 3, 4, 5, 6}
        /\ q[1] = Inc(<<"requests", r, reason>>) /\ q[2] = Inc(<<"duration_count", r>>)
        /\ q[3] = Inc(<<"duration_sum", r>>) /\ q[4] = Inc(<<"timeouts", r>>)
        /\ q[5] = Inc(<<"phase_count", r>>) /\ q[6] = Inc(<<"phase_sum", r>>)
    <3>1. Len(q) = 6
      BY <1>3, QueryMetricsIs
    <3>2. DOMAIN q = {1, 2, 3, 4, 5, 6}
      BY <1>1, <3>1
    <3> QED
      BY <1>3, <3>2, QueryMetricsIs
  <2>2. Counting(q)
    BY <2>1 DEF Counting, Inc
  <2>3. ASSUME NEW s PROVE (\E i \in DOMAIN q : q[i].series = s) <=> s \in Decided(r, reason)
    BY <1>3, <2>1 DEF Decided, Inc, ObservationSeries
  <2> QED
    BY <2>2, <2>3
<1>4. CASE reason # "query_timeout"
  <2>1. /\ DOMAIN q = {1, 2, 3, 4, 5}
        /\ q[1] = Inc(<<"requests", r, reason>>) /\ q[2] = Inc(<<"duration_count", r>>)
        /\ q[3] = Inc(<<"duration_sum", r>>)
        /\ q[4] = Inc(<<"phase_count", r>>) /\ q[5] = Inc(<<"phase_sum", r>>)
    <3>1. Len(q) = 5
      BY <1>4, QueryMetricsIs
    <3>2. DOMAIN q = {1, 2, 3, 4, 5}
      BY <1>1, <3>1
    <3> QED
      BY <1>4, <3>2, QueryMetricsIs
  <2>2. Counting(q)
    BY <2>1 DEF Counting, Inc
  <2>3. ASSUME NEW s PROVE (\E i \in DOMAIN q : q[i].series = s) <=> s \in Decided(r, reason)
    BY <1>4, <2>1 DEF Decided, Inc, ObservationSeries
  <2> QED
    BY <2>2, <2>3
<1> QED
  BY <1>3, <1>4

(* No gauge is a counter. *)
LEMMA StorageGaugesCount ==
    ASSUME NEW parts
    PROVE  \A i \in DOMAIN StorageGauges(parts) : StorageGauges(parts)[i].series \notin CounterSeries
<1> SUFFICES ASSUME NEW i \in DOMAIN StorageGauges(parts)
             PROVE  StorageGauges(parts)[i].series \notin CounterSeries
  OBVIOUS
<1>1. StorageGauges(parts)[i].series = <<"storage", GaugeOrder[i]>>
  BY DEF StorageGauges, Gauge
<1>2. ASSUME NEW s \in CounterSeries PROVE s[1] # "storage"
  BY DEF CounterSeries, ObservationSeries
<1> QED
  BY <1>1, <1>2

LEMMA CountingTail ==
    ASSUME NEW q \in Seq(Updates), q # <<>>, Counting(q)
    PROVE  /\ Counting(Tail(q))
           /\ \A s : (\E i \in DOMAIN Tail(q) : Tail(q)[i].series = s) =>
                     (\E i \in DOMAIN q : q[i].series = s)
           /\ \A s : s # Head(q).series =>
                ((\E i \in DOMAIN Tail(q) : Tail(q)[i].series = s) <=>
                 (\E i \in DOMAIN q : q[i].series = s))
           /\ Head(q).series \in CounterSeries =>
                /\ Head(q).add /\ Head(q).value = 1
                /\ \A i \in DOMAIN Tail(q) : Tail(q)[i].series # Head(q).series
<1>1. /\ DOMAIN q = 1 .. Len(q) /\ Len(q) \in Nat \ {0} /\ Head(q) = q[1]
      /\ DOMAIN Tail(q) = 1 .. Len(q) - 1
      /\ \A i \in 1 .. Len(q) - 1 : Tail(q)[i] = q[i + 1]
  OBVIOUS
<1>2. \A i \in DOMAIN Tail(q) : i + 1 \in DOMAIN q /\ Tail(q)[i] = q[i + 1] /\ i + 1 # 1
  BY <1>1
<1>3. \A i \in DOMAIN q : i # 1 => i - 1 \in DOMAIN Tail(q) /\ Tail(q)[i - 1] = q[i]
  BY <1>1
<1>4. Counting(Tail(q))
  <2> SUFFICES ASSUME NEW i \in DOMAIN Tail(q), Tail(q)[i].series \in CounterSeries
               PROVE  /\ Tail(q)[i].add /\ Tail(q)[i].value = 1
                      /\ \A j \in DOMAIN Tail(q) : Tail(q)[j].series = Tail(q)[i].series => j = i
    BY DEF Counting
  <2>1. \A j \in DOMAIN q : q[j].series = q[i + 1].series => j = i + 1
    BY <1>2 DEF Counting
  <2>2. ASSUME NEW j \in DOMAIN Tail(q), Tail(q)[j].series = Tail(q)[i].series PROVE j = i
    <3>1. j + 1 = i + 1
      BY <1>2, <2>1, <2>2
    <3> QED
      BY <1>1, <3>1
  <2> QED
    BY <1>2, <2>2 DEF Counting
<1>5. ASSUME NEW s, NEW i \in DOMAIN Tail(q), Tail(q)[i].series = s
      PROVE  \E j \in DOMAIN q : q[j].series = s
  BY <1>2, <1>5
<1>6. ASSUME NEW s, s # Head(q).series, NEW i \in DOMAIN q, q[i].series = s
      PROVE  \E j \in DOMAIN Tail(q) : Tail(q)[j].series = s
  <2>1. i # 1
    BY <1>1, <1>6
  <2> QED
    BY <1>3, <1>6, <2>1
<1>7. ASSUME Head(q).series \in CounterSeries
      PROVE  /\ Head(q).add /\ Head(q).value = 1
             /\ \A i \in DOMAIN Tail(q) : Tail(q)[i].series # Head(q).series
  <2>1. 1 \in DOMAIN q
    BY <1>1
  <2> QED
    BY <1>1, <1>2, <1>7, <2>1 DEF Counting
<1> QED
  BY <1>4, <1>5, <1>6, <1>7


(* A step that writes to no counter and lists no update leaves balances. *)
LEMMA BalanceSame ==
    ASSUME NEW s, UNCHANGED <<registry, todo>>
    PROVE  Balance(s)' = Balance(s)
BY DEF Balance, Owing

LEMMA OwingFinite ==
    ASSUME NEW s
    PROVE  IsFiniteSet(Owing(s)) /\ Cardinality(Owing(s)) \in Nat
BY ServiceAssumption, FS_Subset, FS_CardinalityType DEF Owing

(* A thread that gets a list of updates owes their series. *)
LEMMA BalanceList ==
    ASSUME TypeOK, NEW t \in Threads, todo[t] = <<>>, NEW q,
           todo' = [todo EXCEPT ![t] = q],
           NEW s \in Series, registry'[s] = registry[s]
    PROVE  /\ (\E i \in DOMAIN q : q[i].series = s) => Balance(s)' = Balance(s) + 1
           /\ ~(\E i \in DOMAIN q : q[i].series = s) => Balance(s)' = Balance(s)
<1> USE DEF TypeOK
<1>1. registry[s] \in Nat /\ IsFiniteSet(Owing(s)) /\ Cardinality(Owing(s)) \in Nat
  BY OwingFinite
<1>2. t \notin Owing(s)
  BY DEF Owing
<1>3. CASE \E i \in DOMAIN q : q[i].series = s
  <2>1. Owing(s)' = Owing(s) \cup {t}
    BY <1>2, <1>3 DEF Owing
  <2>2. Cardinality(Owing(s) \cup {t}) = Cardinality(Owing(s)) + 1
    BY <1>1, <1>2, FS_AddElement
  <2>3. Balance(s)' = Balance(s) + 1
    BY <1>1, <2>1, <2>2 DEF Balance
  <2> QED
    BY <1>3, <2>3
<1>4. CASE ~\E i \in DOMAIN q : q[i].series = s
  <2>1. Owing(s)' = Owing(s)
    BY <1>2, <1>4 DEF Owing
  <2> QED
    BY <1>4, <2>1 DEF Balance
<1> QED
  BY <1>3, <1>4

(* To write an update off the list settles what was owed. *)
LEMMA BalanceEmit ==
    ASSUME TypeOK, TodoInv, NEW t \in Threads, Emit(t), NEW s \in CounterSeries
    PROVE  Balance(s)' = Balance(s)
<1> DEFINE u == Head(todo[t])
<1>1. /\ todo[t] \in Seq(Updates) /\ todo[t] # <<>> /\ Counting(todo[t])
      /\ todo' = [todo EXCEPT ![t] = Tail(@)] /\ Apply(u)
      /\ u \in Updates /\ u.series \in Series /\ s \in Series
  <2>1. todo[t] \in Seq(Updates) /\ todo[t] # <<>>
    BY DEF Emit, TypeOK
  <2>2. Counting(todo[t])
    BY DEF TodoInv
  <2>3. todo' = [todo EXCEPT ![t] = Tail(@)] /\ Apply(u)
    BY DEF Emit
  <2>4. u \in Updates
    BY <2>1
  <2> QED
    BY <2>1, <2>2, <2>3, <2>4 DEF Updates, Series
<1>2. registry \in [Series -> Nat]
  BY DEF TypeOK
<1>3. IsFiniteSet(Owing(s)) /\ Cardinality(Owing(s)) \in Nat
  BY OwingFinite
<1>4. \A v \in Threads : todo'[v] = IF v = t THEN Tail(todo[t]) ELSE todo[v]
  BY <1>1 DEF TypeOK
<1>5. CASE u.series = s
  <2>1. u.add /\ u.value = 1 /\ ~\E i \in DOMAIN Tail(todo[t]) : Tail(todo[t])[i].series = s
    BY <1>1, <1>5, CountingTail
  <2>2. registry'[s] = registry[s] + 1
    BY <1>1, <1>2, <1>5, <2>1 DEF Apply
  <2>3. t \in Owing(s)
    <3>1. 1 \in DOMAIN todo[t] /\ todo[t][1] = u
      BY <1>1
    <3> QED
      BY <1>5, <3>1 DEF Owing
  <2>4. Owing(s)' = Owing(s) \ {t}
    BY <1>4, <2>1 DEF Owing
  <2>5. Cardinality(Owing(s) \ {t}) = Cardinality(Owing(s)) - 1
    BY <1>3, <2>3, FS_RemoveElement
  <2> QED
    BY <1>1, <1>2, <1>3, <2>2, <2>4, <2>5 DEF Balance
<1>6. CASE u.series # s
  <2>1. registry'[s] = registry[s]
    BY <1>1, <1>2, <1>6 DEF Apply
  <2>2. (\E i \in DOMAIN Tail(todo[t]) : Tail(todo[t])[i].series = s) <=>
        (\E i \in DOMAIN todo[t] : todo[t][i].series = s)
    BY <1>1, <1>6, CountingTail
  <2>3. Owing(s)' = Owing(s)
    BY <1>4, <2>2 DEF Owing
  <2> QED
    BY <2>1, <2>3 DEF Balance
<1> QED
  BY <1>5, <1>6

LEMMA TodoInit == Init => TodoInv
BY DEF Init, TodoInv, Counting

LEMMA TodoStep ==
    ASSUME TypeOK, PlaceInv, TodoInv, [Next]_vars
    PROVE  TodoInv'
<1> USE DEF TodoInv, TypeOK, storage, history
<1>1. CASE UNCHANGED vars
  BY <1>1 DEF vars
<1>2. CASE StorageChanges
  BY <1>2 DEF StorageChanges
<1>3. CASE WriterCommits
  BY <1>3 DEF WriterCommits
<1>4. ASSUME NEW t \in Threads, NEW r \in RouteTemplates, NEW k \in Credentials,
             CompatRequest(t, r, k) PROVE TodoInv'
  BY <1>4 DEF CompatRequest, Arrives, Goto
<1>5. ASSUME NEW t \in Threads, NEW e \in {"admin_storage", "admin_queries"}, NEW k \in Credentials,
             AdminRequest(t, e, k) PROVE TodoInv'
  BY <1>5 DEF AdminRequest, Arrives, Goto
<1>6. ASSUME NEW t \in Threads, NEW e \in {"healthz", "metrics"}, OpenRequest(t, e) PROVE TodoInv'
  BY <1>6 DEF OpenRequest, Arrives, Goto
<1>7. ASSUME NEW t \in Threads, UnknownRequest(t) PROVE TodoInv'
  BY <1>7 DEF UnknownRequest, Arrives, Goto
<1>8. ASSUME NEW t \in Threads, Denied(t) PROVE TodoInv'
  <2>1. Verdict(t) \in Reasons /\ request[t].template \in RouteTemplates
    BY <1>8, VerdictInReasons DEF Denied, PlaceInv
  <2>2. Counting(QueryMetrics(request[t].template, Verdict(t)))
    BY <2>1, QueryMetricsCount
  <2> QED
    BY <1>8, <2>2 DEF Denied, Decide
<1>9. ASSUME NEW t \in Threads, Authorized(t) PROVE TodoInv'
  BY <1>9 DEF Authorized, Goto
<1>10. ASSUME NEW t \in Threads, Admitted(t) PROVE TodoInv'
  BY <1>10 DEF Admitted, Goto
<1>11. ASSUME NEW t \in Threads, Overloaded(t) PROVE TodoInv'
  <2>1. AdmissionFull[class[t]] \in Reasons /\ request[t].template \in RouteTemplates
    BY <1>11, ServiceAssumption DEF Overloaded, PlaceInv
  <2>2. Counting(QueryMetrics(request[t].template, AdmissionFull[class[t]]))
    BY <2>1, QueryMetricsCount
  <2> QED
    BY <1>11, <2>2 DEF Overloaded, Decide
<1>12. ASSUME NEW t \in Threads, NEW reason \in Results(t), RunReturns(t, reason) PROVE TodoInv'
  <2>1. reason \in Reasons /\ request[t].template \in RouteTemplates
    BY <1>12, ServiceAssumption DEF RunReturns, Results, PlaceInv
  <2>2. Counting(QueryMetrics(request[t].template, reason))
    BY <2>1, QueryMetricsCount
  <2> QED
    BY <1>12, <2>2 DEF RunReturns, Decide
<1>13. ASSUME NEW t \in Threads, RunPanics(t) PROVE TodoInv'
  BY <1>13 DEF RunPanics, Goto
<1>14. ASSUME NEW t \in Threads, AdminDenied(t) PROVE TodoInv'
  BY <1>14 DEF AdminDenied, Answers, Goto
<1>15. ASSUME NEW t \in Threads, AdminAuthorized(t) PROVE TodoInv'
  BY <1>15 DEF AdminAuthorized, Goto
<1>16. ASSUME NEW t \in Threads, Check(t) PROVE TodoInv'
  BY <1>16 DEF Check, Goto
<1>17. ASSUME NEW t \in Threads, NoteError(t) PROVE TodoInv'
  BY <1>17 DEF NoteError, Goto
<1>18. ASSUME NEW t \in Threads, ReadError(t) PROVE TodoInv'
  BY <1>18 DEF ReadError, Answers, Goto
<1>19. ASSUME NEW t \in Threads, Scan(t) PROVE TodoInv'
  <2>1. PICK parts : Scanned(t, parts)
    BY <1>19 DEF Scan
  <2>2. Counting(StorageGauges(parts))
    BY StorageGaugesCount DEF Counting
  <2>3. pc[t] = "scan" /\ todo[t] = <<>>
    BY <1>19 DEF Scan
  <2> QED
    BY <2>1, <2>2, <2>3 DEF Scanned, Answers, Goto
<1>20. ASSUME NEW t \in Threads, Emit(t) PROVE TodoInv'
  <2>1. todo[t] \in Seq(Updates) /\ todo[t] # <<>> /\ Counting(todo[t])
    BY <1>20 DEF Emit
  <2>2. Counting(Tail(todo[t]))
    BY <2>1, CountingTail
  <2> QED
    BY <1>20, <2>2 DEF Emit
<1>21. ASSUME NEW t \in Threads, Emitted(t) PROVE TodoInv'
  BY <1>21 DEF Emitted, Goto
<1>22. ASSUME NEW t \in Threads, Render(t) PROVE TodoInv'
  BY <1>22 DEF Render, Goto
<1>23. ASSUME NEW t \in Threads, Answer(t) PROVE TodoInv'
  BY <1>23 DEF Answer, Goto
<1> QED
  BY <1>1, <1>2, <1>3, <1>4, <1>5, <1>6, <1>7, <1>8, <1>9, <1>10, <1>11, <1>12,
     <1>13, <1>14, <1>15, <1>16, <1>17, <1>18, <1>19, <1>20, <1>21, <1>22, <1>23
  DEF Next, Step, Arrival

-----------------------------------------------------------------------------
(* The counts of the decided results. *)
QuerySeries ==
    ({"requests"} \X RouteTemplates \X Reasons)
      \cup ((ObservationSeries \cup {"timeouts"}) \X RouteTemplates)

LEMMA QuerySeriesCount == QuerySeries \subseteq CounterSeries /\ CounterSeries \subseteq Series
BY DEF QuerySeries, CounterSeries, Series

(* CountedOnce as a statement about balances only. *)
LEMMA CountFromBalances ==
    ASSUME CountedOnce, ended' = ended, \A s \in QuerySeries : Balance(s)' = Balance(s)
    PROVE  CountedOnce'
<1> SUFFICES ASSUME NEW r \in RouteTemplates
             PROVE  /\ \A reason \in Reasons : Balance(<<"requests", r, reason>>)' = ended'[<<r, reason>>]
                    /\ Balance(<<"timeouts", r>>)' = ended'[<<r, "query_timeout">>]
                    /\ \A x, y \in ObservationSeries : Balance(<<x, r>>)' = Balance(<<y, r>>)'
  BY DEF CountedOnce
<1>1. ASSUME NEW reason \in Reasons
      PROVE  Balance(<<"requests", r, reason>>)' = ended'[<<r, reason>>]
  <2>1. <<"requests", r, reason>> \in QuerySeries
    BY DEF QuerySeries
  <2> QED
    BY <2>1 DEF CountedOnce
<1>2. Balance(<<"timeouts", r>>)' = ended'[<<r, "query_timeout">>]
  <2>1. <<"timeouts", r>> \in QuerySeries
    BY DEF QuerySeries
  <2> QED
    BY <2>1 DEF CountedOnce
<1>3. ASSUME NEW x \in ObservationSeries, NEW y \in ObservationSeries
      PROVE  Balance(<<x, r>>)' = Balance(<<y, r>>)'
  <2>1. <<x, r>> \in QuerySeries /\ <<y, r>> \in QuerySeries
    BY DEF QuerySeries
  <2> QED
    BY <2>1 DEF CountedOnce
<1> QED
  BY <1>1, <1>2, <1>3

LEMMA CountSame ==
    ASSUME CountedOnce, UNCHANGED <<registry, todo, ended>>
    PROVE  CountedOnce'
BY BalanceSame, CountFromBalances

LEMMA CountDecide ==
    ASSUME TypeOK, CountedOnce, NEW t \in Threads, NEW reason \in Reasons, Decide(t, reason),
           request[t].template \in RouteTemplates, todo[t] = <<>>,
           \A s \in QuerySeries : registry'[s] = registry[s]
    PROVE  CountedOnce'
<1>0. PICK r \in RouteTemplates : r = request[t].template
  OBVIOUS
<1>a. PICK q : q = QueryMetrics(r, reason)
  OBVIOUS
<1>1. /\ todo' = [todo EXCEPT ![t] = q]
      /\ ended' = [ended EXCEPT ![<<r, reason>>] = @ + 1]
      /\ ended \in [RouteTemplates \X Reasons -> Nat]
  BY <1>0, <1>a DEF Decide, TypeOK
<1>2. ASSUME NEW s \in QuerySeries
      PROVE  Balance(s)' = IF s \in Decided(r, reason) THEN Balance(s) + 1 ELSE Balance(s)
  <2>1. (\E i \in DOMAIN q : q[i].series = s) <=> s \in Decided(r, reason)
    BY <1>a, QueryMetricsCount
  <2>2. s \in Series /\ registry'[s] = registry[s]
    BY <1>2, QuerySeriesCount
  <2>3. todo' = [todo EXCEPT ![t] = q] /\ s \in Series /\ registry'[s] = registry[s]
    BY <1>1, <2>2
  <2>4. /\ (\E i \in DOMAIN q : q[i].series = s) => Balance(s)' = Balance(s) + 1
        /\ ~(\E i \in DOMAIN q : q[i].series = s) => Balance(s)' = Balance(s)
    BY <2>3, BalanceList, Zenon
  <2> QED
    BY <2>1, <2>4
<1> SUFFICES ASSUME NEW r2 \in RouteTemplates
             PROVE  /\ \A p \in Reasons : Balance(<<"requests", r2, p>>)' = ended'[<<r2, p>>]
                    /\ Balance(<<"timeouts", r2>>)' = ended'[<<r2, "query_timeout">>]
                    /\ \A x, y \in ObservationSeries : Balance(<<x, r2>>)' = Balance(<<y, r2>>)'
  BY DEF CountedOnce
<1>3. \A p \in Reasons : ended'[<<r2, p>>] =
        IF r2 = r /\ p = reason THEN ended[<<r2, p>>] + 1 ELSE ended[<<r2, p>>]
  BY <1>1
<1>4. ASSUME NEW p \in Reasons
      PROVE  Balance(<<"requests", r2, p>>)' = ended'[<<r2, p>>]
  <2>1. <<"requests", r2, p>> \in QuerySeries
    BY DEF QuerySeries
  <2>2. Balance(<<"requests", r2, p>>) = ended[<<r2, p>>]
    BY DEF CountedOnce
  <2>3. <<"requests", r2, p>> \in Decided(r, reason) <=> r2 = r /\ p = reason
    BY DecidedMembers
  <2>4. Balance(<<"requests", r2, p>>)' = IF r2 = r /\ p = reason
          THEN Balance(<<"requests", r2, p>>) + 1 ELSE Balance(<<"requests", r2, p>>)
    BY <1>2, <2>1, <2>3
  <2> QED
    BY <1>3, <2>2, <2>4
<1>5. Balance(<<"timeouts", r2>>)' = ended'[<<r2, "query_timeout">>]
  <2>1. <<"timeouts", r2>> \in QuerySeries /\ "query_timeout" \in Reasons
    BY ServiceAssumption DEF QuerySeries
  <2>2. Balance(<<"timeouts", r2>>) = ended[<<r2, "query_timeout">>]
    BY DEF CountedOnce
  <2>3. <<"timeouts", r2>> \in Decided(r, reason) <=> r2 = r /\ reason = "query_timeout"
    BY DecidedMembers
  <2>4. Balance(<<"timeouts", r2>>)' = IF r2 = r /\ reason = "query_timeout"
          THEN Balance(<<"timeouts", r2>>) + 1 ELSE Balance(<<"timeouts", r2>>)
    BY <1>2, <2>1, <2>3
  <2> QED
    BY <1>3, <2>1, <2>2, <2>4
<1>6. ASSUME NEW x \in ObservationSeries, NEW y \in ObservationSeries
      PROVE  Balance(<<x, r2>>)' = Balance(<<y, r2>>)'
  <2>1. <<x, r2>> \in QuerySeries /\ <<y, r2>> \in QuerySeries
    BY DEF QuerySeries
  <2>2. Balance(<<x, r2>>) = Balance(<<y, r2>>)
    BY DEF CountedOnce
  <2>3. /\ <<x, r2>> \in Decided(r, reason) <=> r2 = r
        /\ <<y, r2>> \in Decided(r, reason) <=> r2 = r
    BY DecidedMembers
  <2> QED
    BY <1>2, <2>1, <2>2, <2>3
<1> QED
  BY <1>4, <1>5, <1>6

LEMMA CountInit ==
    ASSUME Init
    PROVE  CountedOnce
<1>1. ASSUME NEW s \in QuerySeries PROVE Balance(s) = 0
  <2>1. Owing(s) = {}
    BY DEF Init, Owing
  <2>2. registry[s] = 0
    BY QuerySeriesCount DEF Init, EmptyRegistry
  <2> QED
    BY <2>1, <2>2, FS_EmptySet DEF Balance
<1>2. \A r \in RouteTemplates, reason \in Reasons : ended[<<r, reason>>] = 0
  BY DEF Init
<1> SUFFICES ASSUME NEW r \in RouteTemplates
             PROVE  /\ \A reason \in Reasons : Balance(<<"requests", r, reason>>) = ended[<<r, reason>>]
                    /\ Balance(<<"timeouts", r>>) = ended[<<r, "query_timeout">>]
                    /\ \A x, y \in ObservationSeries : Balance(<<x, r>>) = Balance(<<y, r>>)
  BY DEF CountedOnce
<1>3. /\ \A reason \in Reasons : <<"requests", r, reason>> \in QuerySeries
      /\ <<"timeouts", r>> \in QuerySeries
      /\ \A x \in ObservationSeries : <<x, r>> \in QuerySeries
  BY DEF QuerySeries
<1>4. "query_timeout" \in Reasons
  BY ServiceAssumption
<1> QED
  BY <1>1, <1>2, <1>3, <1>4

LEMMA CountStep ==
    ASSUME TypeOK, PlaceInv, TodoInv, CountedOnce, [Next]_vars
    PROVE  CountedOnce'
<1> USE DEF storage, history
<1>1. CASE UNCHANGED vars
  BY <1>1, CountSame DEF vars
<1>2. CASE StorageChanges
  BY <1>2, CountSame DEF StorageChanges
<1>3. CASE WriterCommits
  BY <1>3, CountSame DEF WriterCommits
<1>4. ASSUME NEW t \in Threads, NEW r \in RouteTemplates, NEW k \in Credentials,
             CompatRequest(t, r, k) PROVE CountedOnce'
  BY <1>4, CountSame DEF CompatRequest, Arrives, Goto
<1>5. ASSUME NEW t \in Threads, NEW e \in {"admin_storage", "admin_queries"}, NEW k \in Credentials,
             AdminRequest(t, e, k) PROVE CountedOnce'
  BY <1>5, CountSame DEF AdminRequest, Arrives, Goto
<1>6. ASSUME NEW t \in Threads, NEW e \in {"healthz", "metrics"}, OpenRequest(t, e) PROVE CountedOnce'
  BY <1>6, CountSame DEF OpenRequest, Arrives, Goto
<1>7. ASSUME NEW t \in Threads, UnknownRequest(t) PROVE CountedOnce'
  BY <1>7, CountSame DEF UnknownRequest, Arrives, Goto
<1>8. ASSUME NEW t \in Threads, Denied(t) PROVE CountedOnce'
  <2>1. Verdict(t) \in Reasons /\ request[t].template \in RouteTemplates
    BY <1>8, VerdictInReasons DEF Denied, PlaceInv
  <2>2. todo[t] = <<>>
    BY <1>8 DEF Denied, TodoInv
  <2>3. UNCHANGED registry
    BY <1>8 DEF Denied
  <2> QED
    BY <1>8, <2>1, <2>2, <2>3, CountDecide DEF Denied
<1>9. ASSUME NEW t \in Threads, Authorized(t) PROVE CountedOnce'
  BY <1>9, CountSame DEF Authorized, Goto
<1>10. ASSUME NEW t \in Threads, Admitted(t) PROVE CountedOnce'
  BY <1>10, CountSame DEF Admitted, Goto
<1>11. ASSUME NEW t \in Threads, Overloaded(t) PROVE CountedOnce'
  <2>1. /\ class[t] \in QueryClasses /\ AdmissionFull[class[t]] \in Reasons
        /\ request[t].template \in RouteTemplates
    BY <1>11, ServiceAssumption DEF Overloaded, PlaceInv, TypeOK
  <2>2. todo[t] = <<>>
    BY <1>11 DEF Overloaded, TodoInv
  <2>3. ASSUME NEW s \in QuerySeries PROVE registry'[s] = registry[s]
    <3>1. s[1] # "rejections"
      BY DEF QuerySeries, ObservationSeries
    <3>2. s # <<"rejections", class[t]>> /\ s \in Series
      BY <3>1, QuerySeriesCount
    <3> QED
      BY <1>11, <3>2 DEF Overloaded, Apply, Inc, TypeOK
  <2> QED
    BY <1>11, <2>1, <2>2, <2>3, CountDecide DEF Overloaded
<1>12. ASSUME NEW t \in Threads, NEW reason \in Results(t), RunReturns(t, reason) PROVE CountedOnce'
  <2>1. reason \in Reasons /\ request[t].template \in RouteTemplates
    BY <1>12, ServiceAssumption DEF RunReturns, Results, PlaceInv
  <2>2. todo[t] = <<>>
    BY <1>12 DEF RunReturns, TodoInv
  <2>3. UNCHANGED registry
    BY <1>12 DEF RunReturns
  <2> QED
    BY <1>12, <2>1, <2>2, <2>3, CountDecide DEF RunReturns
<1>13. ASSUME NEW t \in Threads, RunPanics(t) PROVE CountedOnce'
  BY <1>13, CountSame DEF RunPanics, Goto
<1>14. ASSUME NEW t \in Threads, AdminDenied(t) PROVE CountedOnce'
  BY <1>14, CountSame DEF AdminDenied, Answers, Goto
<1>15. ASSUME NEW t \in Threads, AdminAuthorized(t) PROVE CountedOnce'
  BY <1>15, CountSame DEF AdminAuthorized, Goto
<1>16. ASSUME NEW t \in Threads, Check(t) PROVE CountedOnce'
  BY <1>16, CountSame DEF Check, Goto
<1>17. ASSUME NEW t \in Threads, NoteError(t) PROVE CountedOnce'
  BY <1>17, CountSame DEF NoteError, Goto
<1>18. ASSUME NEW t \in Threads, ReadError(t) PROVE CountedOnce'
  BY <1>18, CountSame DEF ReadError, Answers, Goto
<1>19. ASSUME NEW t \in Threads, Scan(t) PROVE CountedOnce'
  <2>1. PICK parts : Scanned(t, parts)
    BY <1>19 DEF Scan
  <2>2. UNCHANGED <<registry, ended>> /\ todo[t] = <<>>
    BY <1>19 DEF Scan, TodoInv, history
  <2>3. CASE UNCHANGED todo
    BY <2>2, <2>3, CountSame
  <2>4. CASE todo' = [todo EXCEPT ![t] = StorageGauges(parts)]
    <3>1. PICK q : q = StorageGauges(parts)
      OBVIOUS
    <3>2. ASSUME NEW s \in QuerySeries PROVE Balance(s)' = Balance(s)
      <4>1. s \in Series /\ s \in CounterSeries
        BY QuerySeriesCount
      <4>2. ~(\E i \in DOMAIN q : q[i].series = s)
        BY <3>1, <4>1, StorageGaugesCount
      <4>3. todo' = [todo EXCEPT ![t] = q] /\ todo[t] = <<>> /\ registry'[s] = registry[s]
        BY <2>2, <2>4, <3>1
      <4> QED
        BY <4>1, <4>2, <4>3, BalanceList, Zenon
    <3> QED
      BY <2>2, <3>2, CountFromBalances
  <2> QED
    BY <2>1, <2>3, <2>4 DEF Scanned
<1>20. ASSUME NEW t \in Threads, Emit(t) PROVE CountedOnce'
  <2>1. \A s \in QuerySeries : Balance(s)' = Balance(s)
    BY <1>20, BalanceEmit, QuerySeriesCount
  <2> QED
    BY <1>20, <2>1, CountFromBalances DEF Emit
<1>21. ASSUME NEW t \in Threads, Emitted(t) PROVE CountedOnce'
  BY <1>21, CountSame DEF Emitted, Goto
<1>22. ASSUME NEW t \in Threads, Render(t) PROVE CountedOnce'
  BY <1>22, CountSame DEF Render, Goto
<1>23. ASSUME NEW t \in Threads, Answer(t) PROVE CountedOnce'
  BY <1>23, CountSame DEF Answer, Goto
<1> QED
  BY <1>1, <1>2, <1>3, <1>4, <1>5, <1>6, <1>7, <1>8, <1>9, <1>10, <1>11, <1>12,
     <1>13, <1>14, <1>15, <1>16, <1>17, <1>18, <1>19, <1>20, <1>21, <1>22, <1>23
  DEF Next, Step, Arrival

-----------------------------------------------------------------------------
(* Scrapes. *)

(* No counter ever goes down. *)
LEMMA CountersGrow ==
    ASSUME TypeOK, TodoInv, [Next]_vars, NEW s \in CounterSeries
    PROVE  registry[s] <= registry'[s]
<1>1. s \in Series /\ registry \in [Series -> Nat] /\ registry[s] \in Nat
  BY DEF TypeOK, Series
<1>2. CASE UNCHANGED registry
  BY <1>1, <1>2
<1>3. ASSUME NEW t \in Threads, Overloaded(t) PROVE registry[s] <= registry'[s]
  <2>1. <<"rejections", class[t]>> \in Series
    BY DEF TypeOK, Series, CounterSeries
  <2> QED
    BY <1>1, <1>3, <2>1 DEF Overloaded, Apply, Inc
<1>4. ASSUME NEW t \in Threads, Emit(t) PROVE registry[s] <= registry'[s]
  <2>1. todo[t] \in Seq(Updates) /\ todo[t] # <<>>
    BY <1>4 DEF Emit, TypeOK
  <2>2. Counting(todo[t])
    BY DEF TodoInv
  <2>3. Head(todo[t]) \in Updates
    BY <2>1
  <2>4. Head(todo[t]).series = s => Head(todo[t]).add /\ Head(todo[t]).value = 1
    BY <2>1, <2>2, CountingTail
  <2> QED
    BY <1>1, <1>4, <2>3, <2>4 DEF Emit, Apply, Updates
<1>5. ASSUME NEW t \in Threads, Arrival(t) PROVE UNCHANGED registry
  BY <1>5 DEF Arrival, CompatRequest, AdminRequest, OpenRequest, UnknownRequest, Arrives
<1>6. ASSUME NEW t \in Threads, Step(t), ~Overloaded(t), ~Emit(t) PROVE UNCHANGED registry
  BY <1>6 DEF Step, Denied, Authorized, Admitted, RunReturns, AdminDenied, AdminAuthorized,
     Check, NoteError, ReadError, Scan, Emitted, Render, Answer
<1> QED
  BY <1>2, <1>3, <1>4, <1>5, <1>6
  DEF Next, vars, StorageChanges, WriterCommits, RunPanics

(* What a scrape has copied, and what it has yet to copy. *)
ScrapeHolds(t) ==
    /\ pc[t] \notin {"render", "answer"} => scrape[t].next = 1
    /\ pc[t] = "render" => \A s \in CounterSeries : floor[t][s] <= registry[s]
    /\ pc[t] \in {"render", "answer"} => \A s \in CounterSeries : ShardOf[s] < scrape[t].next =>
         floor[t][s] <= scrape[t].seen[s] /\ scrape[t].seen[s] <= registry[s]

ScrapeInv == \A t \in Threads : ScrapeHolds(t)

LEMMA ScrapeInit == Init => ScrapeInv
BY DEF Init, ScrapeInv, ScrapeHolds, NoScrape

(* A scrape that the step does not touch stays within its time. *)
LEMMA ScrapeKept ==
    ASSUME TypeOK, TypeOK', TodoInv, ScrapeInv, [Next]_vars, NEW t \in Threads,
           UNCHANGED <<scrape[t], floor[t]>>,
           pc'[t] = pc[t] \/ (pc[t] \notin {"render", "answer"} /\ pc'[t] # "render")
    PROVE  ScrapeHolds(t)'
<1>1. ASSUME NEW s \in CounterSeries
      PROVE  /\ registry[s] \in Nat /\ registry'[s] \in Nat /\ registry[s] <= registry'[s]
             /\ floor[t][s] \in Nat /\ scrape[t].seen[s] \in Nat
             /\ ShardOf[s] \in Nat /\ ShardOf[s] >= 1
  BY CountersGrow, ShardAssumption DEF TypeOK, Series
<1>2. CASE pc'[t] = pc[t]
  BY <1>1, <1>2 DEF ScrapeInv, ScrapeHolds
<1>3. CASE pc[t] \notin {"render", "answer"} /\ pc'[t] # "render"
  BY <1>1, <1>3 DEF ScrapeInv, ScrapeHolds
<1> QED
  BY <1>2, <1>3

LEMMA ScrapeStep ==
    ASSUME TypeOK, TypeOK', TodoInv, ScrapeInv, [Next]_vars
    PROVE  ScrapeInv'
<1> USE DEF TypeOK, storage, history
<1>1. CASE UNCHANGED vars
  BY <1>1, ScrapeKept DEF vars, ScrapeInv
<1>2. CASE StorageChanges
  BY <1>2, ScrapeKept DEF StorageChanges, ScrapeInv
<1>3. CASE WriterCommits
  BY <1>3, ScrapeKept DEF WriterCommits, ScrapeInv
<1>4. ASSUME NEW t \in Threads, NEW r \in RouteTemplates, NEW k \in Credentials,
             CompatRequest(t, r, k) PROVE ScrapeInv'
  BY <1>4, ScrapeKept DEF CompatRequest, Arrives, Goto, ScrapeInv
<1>5. ASSUME NEW t \in Threads, NEW e \in {"admin_storage", "admin_queries"}, NEW k \in Credentials,
             AdminRequest(t, e, k) PROVE ScrapeInv'
  BY <1>5, ScrapeKept DEF AdminRequest, Arrives, Goto, ScrapeInv
<1>6. ASSUME NEW t \in Threads, NEW e \in {"healthz", "metrics"}, OpenRequest(t, e) PROVE ScrapeInv'
  BY <1>6, ScrapeKept DEF OpenRequest, Arrives, Goto, ScrapeInv
<1>7. ASSUME NEW t \in Threads, UnknownRequest(t) PROVE ScrapeInv'
  BY <1>7, ScrapeKept DEF UnknownRequest, Arrives, Goto, ScrapeInv
<1>8. ASSUME NEW t \in Threads, Denied(t) PROVE ScrapeInv'
  BY <1>8, ScrapeKept DEF Denied, Decide, ScrapeInv
<1>9. ASSUME NEW t \in Threads, Authorized(t) PROVE ScrapeInv'
  BY <1>9, ScrapeKept DEF Authorized, Goto, ScrapeInv
<1>10. ASSUME NEW t \in Threads, Admitted(t) PROVE ScrapeInv'
  BY <1>10, ScrapeKept DEF Admitted, Goto, ScrapeInv
<1>11. ASSUME NEW t \in Threads, Overloaded(t) PROVE ScrapeInv'
  BY <1>11, ScrapeKept DEF Overloaded, Decide, ScrapeInv
<1>12. ASSUME NEW t \in Threads, NEW reason \in Results(t), RunReturns(t, reason) PROVE ScrapeInv'
  BY <1>12, ScrapeKept DEF RunReturns, Decide, ScrapeInv
<1>13. ASSUME NEW t \in Threads, RunPanics(t) PROVE ScrapeInv'
  BY <1>13, ScrapeKept DEF RunPanics, Goto, ScrapeInv
<1>14. ASSUME NEW t \in Threads, AdminDenied(t) PROVE ScrapeInv'
  BY <1>14, ScrapeKept DEF AdminDenied, Answers, Goto, ScrapeInv
<1>15. ASSUME NEW t \in Threads, AdminAuthorized(t) PROVE ScrapeInv'
  BY <1>15, ScrapeKept DEF AdminAuthorized, Goto, ScrapeInv
<1>16. ASSUME NEW t \in Threads, Check(t) PROVE ScrapeInv'
  BY <1>16, ScrapeKept DEF Check, Goto, ScrapeInv
<1>17. ASSUME NEW t \in Threads, NoteError(t) PROVE ScrapeInv'
  BY <1>17, ScrapeKept DEF NoteError, Goto, ScrapeInv
<1>18. ASSUME NEW t \in Threads, ReadError(t) PROVE ScrapeInv'
  BY <1>18, ScrapeKept DEF ReadError, Answers, Goto, ScrapeInv
<1>19. ASSUME NEW t \in Threads, Scan(t) PROVE ScrapeInv'
  BY <1>19, ScrapeKept DEF Scan, Scanned, Answers, Goto, ScrapeInv
<1>20. ASSUME NEW t \in Threads, Emit(t) PROVE ScrapeInv'
  BY <1>20, ScrapeKept DEF Emit, ScrapeInv
<1>21. ASSUME NEW t \in Threads, Emitted(t) PROVE ScrapeInv'
  <2>1. ASSUME NEW u \in Threads, u # t \/ request[t].endpoint # "metrics" PROVE ScrapeHolds(u)'
    BY <1>21, <2>1, ScrapeKept DEF Emitted, Goto
  <2>2. CASE request[t].endpoint = "metrics"
    <3>1. pc'[t] = "render" /\ scrape'[t].next = 1 /\ floor'[t] = Counters /\ registry' = registry
      BY <1>21, <2>2 DEF Emitted, Goto, ScrapeInv, ScrapeHolds
    <3>2. \A s \in CounterSeries : /\ registry[s] \in Nat /\ Counters[s] = registry[s]
                                   /\ ShardOf[s] \in Nat /\ ShardOf[s] >= 1
      BY ShardAssumption DEF Counters, Series
    <3>3. ScrapeHolds(t)'
      BY <3>1, <3>2 DEF ScrapeHolds
    <3> QED
      BY <2>1, <3>3 DEF ScrapeInv
  <2> QED
    BY <2>1, <2>2 DEF ScrapeInv
<1>22. ASSUME NEW t \in Threads, Render(t) PROVE ScrapeInv'
  <2>1. ASSUME NEW u \in Threads, u # t PROVE ScrapeHolds(u)'
    BY <1>22, <2>1, ScrapeKept DEF Render, Goto
  <2>2. /\ pc[t] = "render" /\ pc'[t] \in {"render", "answer"}
        /\ UNCHANGED <<registry, floor>>
        /\ scrape'[t] = CopyShard(scrape[t])
    BY <1>22 DEF Render, Goto
  <2>3. ASSUME NEW s \in CounterSeries, ShardOf[s] < scrape'[t].next
        PROVE  floor[t][s] <= scrape'[t].seen[s] /\ scrape'[t].seen[s] <= registry[s]
    <3>1. scrape[t].next \in Nat /\ registry[s] \in Nat /\ ShardOf[s] \in Nat
      BY ShardAssumption DEF Series
    <3>2. CASE ShardOf[s] = scrape[t].next
      BY <2>2, <3>1, <3>2 DEF CopyShard, ScrapeInv, ScrapeHolds
    <3>3. CASE ShardOf[s] # scrape[t].next
      <4>1. ShardOf[s] < scrape[t].next /\ scrape'[t].seen[s] = scrape[t].seen[s]
        BY <2>2, <2>3, <3>1, <3>3 DEF CopyShard
      <4> QED
        BY <2>2, <4>1 DEF ScrapeInv, ScrapeHolds
    <3> QED
      BY <3>2, <3>3
  <2>4. ScrapeHolds(t)'
    BY <2>2, <2>3 DEF ScrapeHolds, ScrapeInv
  <2> QED
    BY <2>1, <2>4 DEF ScrapeInv
<1>23. ASSUME NEW t \in Threads, Answer(t) PROVE ScrapeInv'
  <2>1. ASSUME NEW u \in Threads, u # t PROVE ScrapeHolds(u)'
    BY <1>23, <2>1, ScrapeKept DEF Answer, Goto
  <2>2. ScrapeHolds(t)'
    BY <1>23 DEF Answer, Goto, NoScrape, ScrapeHolds
  <2> QED
    BY <2>1, <2>2 DEF ScrapeInv
<1> QED
  BY <1>1, <1>2, <1>3, <1>4, <1>5, <1>6, <1>7, <1>8, <1>9, <1>10, <1>11, <1>12,
     <1>13, <1>14, <1>15, <1>16, <1>17, <1>18, <1>19, <1>20, <1>21, <1>22, <1>23
  DEF Next, Step, Arrival

-----------------------------------------------------------------------------
(* The inductive invariant of the service. *)
ServiceInv ==
    /\ TypeOK
    /\ PlaceInv
    /\ KeyInv
    /\ AlarmInv
    /\ TodoInv
    /\ CountedOnce
    /\ ScrapeInv

LEMMA ServiceInvariant == Spec => []ServiceInv
<1>1. Init => ServiceInv
  BY TypeInit, PlaceInit, KeyInit, AlarmInit, TodoInit, CountInit, ScrapeInit DEF ServiceInv
<1>2. ServiceInv /\ [Next]_vars => ServiceInv'
  BY TypeStep, PlaceStep, KeyStep, AlarmStep, TodoStep, CountStep, ScrapeStep DEF ServiceInv
<1> QED
  BY <1>1, <1>2, PTL DEF Spec

(* The handlers, the registry and the histories keep their types.          *)
THEOREM TypeCorrect == Spec => []TypeOK
<1>1. ServiceInv => TypeOK
  BY DEF ServiceInv
<1> QED
  BY <1>1, ServiceInvariant, PTL

(* Every decided result of a compatibility request is counted exactly once *)
(* in every series of record_query_metrics, however the writes interleave. *)
THEOREM CountedOnceAlways == Spec => []CountedOnce
<1>1. ServiceInv => CountedOnce
  BY DEF ServiceInv
<1> QED
  BY <1>1, ServiceInvariant, PTL

(* merged_shards copies no counter from before its scrape or after it, for *)
(* any number of shards and any hash.                                      *)
THEOREM ScrapeWithinItsTimeAlways == Spec => []ScrapeWithinItsTime
<1>1. ServiceInv => ScrapeWithinItsTime
  BY DEF ServiceInv, ScrapeInv, ScrapeHolds, ScrapeWithinItsTime
<1> QED
  BY <1>1, ServiceInvariant, PTL

(* A 503 of a health endpoint means that storage was unsound during the    *)
(* request.                                                                *)
THEOREM NoFalseAlarmAlways == Spec => []NoFalseAlarm
<1>1. ServiceInv => NoFalseAlarm
  BY DEF ServiceInv, AlarmInv, NoFalseAlarm
<1> QED
  BY <1>1, ServiceInvariant, PTL

(* A 429 means that requests with the API key hold every slot of the class. *)
THEOREM RefusedOnlyByKeyHoldersAlways == Spec => RefusedOnlyByKeyHolders
<1>1. ServiceInv /\ [Next]_vars =>
        [\A t \in Threads :
           pc[t] = "admit" /\ pc'[t] = "emit" =>
             Cardinality({u \in Adm!Holders(class[t]) : request[u].key = Some(ApiKey)})
               >= Capacity[class[t]]]_vars
  <2> SUFFICES ASSUME ServiceInv, Next, NEW t \in Threads, pc[t] = "admit", pc'[t] = "emit"
               PROVE  Cardinality({u \in Adm!Holders(class[t]) : request[u].key = Some(ApiKey)})
                        >= Capacity[class[t]]
    OBVIOUS
  <2> USE DEF ServiceInv
  <2>1. {u \in Adm!Holders(class[t]) : request[u].key = Some(ApiKey)} = Adm!Holders(class[t])
    BY DEF KeyInv, Adm!Holders
  <2>2. pc \in [Threads -> PCs]
    BY DEF TypeOK
  <2>3. Overloaded(t)
    <3>1. ASSUME NEW u \in Threads, Arrival(u) PROVE FALSE
      BY <2>2, <3>1 DEF Arrival, CompatRequest, AdminRequest, OpenRequest, UnknownRequest,
         Arrives, Goto
    <3>2. ASSUME NEW u \in Threads, RunPanics(u) PROVE FALSE
      BY <2>2, <3>2 DEF RunPanics, Goto
    <3>3. ~StorageChanges /\ ~WriterCommits
      BY DEF StorageChanges, WriterCommits
    <3>4. ASSUME NEW u \in Threads, Step(u) PROVE u = t
      BY <2>2, <3>4 DEF Step, Denied, Authorized, Admitted, Overloaded, RunReturns, Decide,
         AdminDenied, AdminAuthorized, Check, NoteError, ReadError, Scan, Scanned, Emit,
         Emitted, Render, Answer, Answers, Goto
    <3>5. Step(t)
      BY <3>1, <3>2, <3>3, <3>4 DEF Next
    <3> QED
      BY <2>2, <3>5 DEF Step, Denied, Authorized, Admitted, RunReturns, AdminDenied,
         AdminAuthorized, Check, NoteError, ReadError, Scan, Emit, Emitted, Render, Answer,
         Answers, Goto
  <2>4. Cardinality(Adm!Holders(class[t])) >= Capacity[class[t]]
    BY <2>3 DEF Overloaded, Adm!Refuse, Cardinality, Adm!Cardinality
  <2> QED
    BY <2>1, <2>4
<1> QED
  BY <1>1, ServiceInvariant, PTL DEF RefusedOnlyByKeyHolders, Spec
=============================================================================
