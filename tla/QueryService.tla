---------------------------- MODULE QueryService ----------------------------
(***************************************************************************)
(* src/http/router.rs and src/http/compat_routes.rs: what a handler thread *)
(* does with a request, from the match of the route to the answer, with    *)
(* the parts the threads share: admission (AdmissionSpec, which Admission  *)
(* implements), the metrics registry (Metrics) and the storage health of   *)
(* src/storage/health.rs, whose last_error has a mutex of its own that is  *)
(* taken anew for every read and write.  The gauges of admission, which a  *)
(* scrape refreshes before it looks at storage, are those of Admission.    *)
(***************************************************************************)
EXTENDS Metrics, RouteTable, FiniteSets, Options

CONSTANTS Threads,        \* the handler threads
          Capacity,       \* Capacity[c]: the slots of class c
          RunReasons,     \* how the query of an admitted request can end
          Scans,          \* the parts of a health report, in the order of the scans
          GaugeOrder,     \* the same parts in the order of their gauges
          Loads,          \* bound: cases of the endpoints each thread is asked for
                          \* and of the number of compatibility requests
          MaxData         \* bound: changes of the stored data

V == INSTANCE Validation
ApiKey == <<1, 1>>        \* operator.api_key; validate wants the two to differ
AdminKey == <<1, 2>>      \* operator.admin_api_key
Credentials == {None, Some(ApiKey), Some(AdminKey)}

(* The admission of a compatibility route. *)
Admission(r) == COMPAT_ROUTES[CompatRoute("GET", r)].admission

AdmissionFull == [c \in QueryClasses |->
    IF c = "cheap" THEN "cheap_query_admission_full" ELSE "heavy_query_admission_full"]

Endpoints == {"compat", "healthz", "metrics", "admin_storage", "admin_queries", "not_found"}

ASSUME ServiceAssumption ==
    /\ IsFiniteSet(Threads)
    /\ \A r \in RouteTemplates : r \in Templates /\ Admission(r) \in QueryClasses \cup {"none"}
    /\ RunReasons \subseteq Reasons /\ "not_ready" \notin Reasons
    /\ {"ok", "missing_api_key", "bad_api_key", "query_timeout"} \subseteq Reasons
    /\ \A c \in QueryClasses : AdmissionFull[c] \in Reasons
    /\ Scans \in Seq(StorageParts) /\ GaugeOrder \in Seq(StorageParts)
    /\ \A i \in DOMAIN GaugeOrder : \E j \in DOMAIN Scans : Scans[j] = GaugeOrder[i]
    /\ Loads \subseteq [serves : [Threads -> SUBSET Endpoints], queries : Nat]
    /\ MaxData \in Nat

VARIABLES
    pc,         \* pc[t]: where thread t is
    request,    \* request[t]: its endpoint, route template and credential
    call,       \* AdmissionSpec: the state of its admission call
    class,      \* AdmissionSpec: the class of that call
    todo,       \* todo[t]: the metric updates it still has to make
    scrape,     \* scrape[t]: the progress of its render_prometheus
    report,     \* report[t]: the StorageProbe or StorageHealth it fills in
    status,     \* status[t]: the outcome its answer reports
    last_error, \* Storage.last_error: is there one?
    sound,      \* does storage answer every statement?
    data,       \* the version of the stored data
    load,       \* the case of Loads
    queries,    \* history: compatibility requests so far
    ended,      \* history: ended[<<template, reason>>], decided results
    floor,      \* history: the counters when t's scrape began
    troubled    \* history: was storage unsound since t's health request arrived?

storage == <<last_error, sound, data, load>>
history == <<queries, ended, floor, troubled>>
vars == <<registry, pc, request, call, class, todo, scrape, report, status, storage, history>>

Adm == INSTANCE AdmissionSpec WITH QueryClass <- QueryClasses

PCs == {"idle", "auth", "admit", "run", "emit", "check", "note", "read", "scan",
        "render", "answer"}
NoReport == [healthy |-> FALSE, last_error |-> FALSE, parts |-> <<>>]
NoRequest == [endpoint |-> "not_found", template |-> <<>>, key |-> None]

Goto(t, from, to) == pc[t] = from /\ pc' = [pc EXCEPT ![t] = to]
Answers(t, from, outcome) == Goto(t, from, "answer") /\ status' = [status EXCEPT ![t] = outcome]

Init ==
    /\ registry = EmptyRegistry
    /\ pc = [t \in Threads |-> "idle"]
    /\ request = [t \in Threads |-> NoRequest]
    /\ call = [t \in Threads |-> "none"]
    /\ class = [t \in Threads |-> "cheap"]
    /\ todo = [t \in Threads |-> <<>>]
    /\ scrape = [t \in Threads |-> NoScrape]
    /\ report = [t \in Threads |-> NoReport]
    /\ status = [t \in Threads |-> "none"]
    /\ last_error = FALSE /\ sound = TRUE /\ data = 0
    /\ load \in Loads
    /\ queries = 0
    /\ ended = [x \in RouteTemplates \X Reasons |-> 0]
    /\ floor = [t \in Threads |-> NoScrape.seen]
    /\ troubled = [t \in Threads |-> FALSE]

-----------------------------------------------------------------------------
(* The environment: requests, the writer of the data, and faults. *)

(* The endpoints whose answer says whether storage is ready. *)
Reporting == {"healthz", "admin_storage", "admin_queries"}

Arrives(t, r, to) ==
    /\ r.endpoint \in load.serves[t]
    /\ Goto(t, "idle", to)
    /\ request' = [request EXCEPT ![t] = r]
    /\ troubled' = [troubled EXCEPT ![t] = ~sound /\ r.endpoint \in Reporting]
    /\ UNCHANGED <<registry, call, class, todo, scrape, report, storage, ended, floor>>

(* route_inner finds a compatibility route: authenticate first. *)
CompatRequest(t, r, k) ==
    /\ queries < load.queries
    /\ queries' = queries + 1
    /\ Arrives(t, [endpoint |-> "compat", template |-> r, key |-> k], "auth")
    /\ UNCHANGED status

AdminRequest(t, e, k) ==
    /\ Arrives(t, [endpoint |-> e, template |-> <<>>, key |-> k], "auth")
    /\ UNCHANGED <<status, queries>>

(* /healthz and /metrics look at no key. *)
OpenRequest(t, e) ==
    /\ Arrives(t, [endpoint |-> e, template |-> <<>>, key |-> None], "check")
    /\ UNCHANGED <<status, queries>>

UnknownRequest(t) ==
    /\ Arrives(t, NoRequest, "answer")
    /\ status' = [status EXCEPT ![t] = "not_found"]
    /\ UNCHANGED queries

StorageChanges ==
    /\ sound' = ~sound
    /\ troubled' = [t \in Threads |->
           troubled[t] \/ (~sound' /\ request[t].endpoint \in Reporting)]
    /\ UNCHANGED <<registry, pc, request, call, class, todo, scrape, report, status,
                   last_error, data, load, queries, ended, floor>>

WriterCommits ==
    /\ data < MaxData
    /\ data' = data + 1
    /\ UNCHANGED <<registry, pc, request, call, class, todo, scrape, report, status,
                   last_error, sound, load, history>>

-----------------------------------------------------------------------------
(* Compatibility requests: route_compat. *)

(* record_query_metrics: what a decided result adds to the registry. *)
QueryMetrics(r, reason) == QueryRequest(r, reason) \o ObserveSeconds("phase", r)

Decide(t, reason) ==
    /\ pc' = [pc EXCEPT ![t] = "emit"]
    /\ todo' = [todo EXCEPT ![t] = QueryMetrics(request[t].template, reason)]
    /\ status' = [status EXCEPT ![t] = reason]
    /\ ended' = [ended EXCEPT ![<<request[t].template, reason>>] = @ + 1]

Verdict(t) ==
    V!ValidateApiKey([bearer |-> request[t].key, x_api_key |-> None],
                     IF request[t].endpoint = "compat" THEN ApiKey ELSE AdminKey)

(* authorize *)
Denied(t) ==
    /\ pc[t] = "auth" /\ request[t].endpoint = "compat" /\ Verdict(t) # "ok"
    /\ Decide(t, Verdict(t))
    /\ UNCHANGED <<registry, request, call, class, scrape, report, storage, queries, floor, troubled>>

(* Mutant: the slot is reserved before the key is looked at. *)
Authorized_AdmitFirst(t) ==
    /\ request[t].endpoint = "compat"
    /\ LET c == Admission(request[t].template) IN
         /\ Goto(t, "auth", IF c = "none" THEN "run" ELSE "admit")
         /\ IF c = "none" THEN UNCHANGED <<call, class>> ELSE Adm!Request(t, c)
    /\ UNCHANGED <<registry, request, todo, scrape, report, status, storage, history>>

(* with_query_admission *)
Authorized(t) ==
    /\ request[t].endpoint = "compat" /\ Verdict(t) = "ok"
    /\ LET c == Admission(request[t].template) IN
         /\ Goto(t, "auth", IF c = "none" THEN "run" ELSE "admit")
         /\ IF c = "none" THEN UNCHANGED <<call, class>> ELSE Adm!Request(t, c)
    /\ UNCHANGED <<registry, request, todo, scrape, report, status, storage, history>>

Admitted(t) ==
    /\ Goto(t, "admit", "run")
    /\ Adm!Grant(t)
    /\ UNCHANGED <<registry, request, todo, scrape, report, status, storage, history>>

(* reject_query_locked counts the rejection under the admission lock. *)
Overloaded(t) ==
    /\ pc[t] = "admit"
    /\ Adm!Refuse(t)
    /\ Apply(Inc(<<"rejections", class[t]>>))
    /\ Decide(t, AdmissionFull[class[t]])
    /\ UNCHANGED <<request, scrape, report, storage, queries, floor, troubled>>

ReleaseSlot(t) == IF call[t] = "held" THEN Adm!Release(t) ELSE UNCHANGED <<call, class>>

(* Without admission there is only the build information. *)
Results(t) == IF call[t] = "held" THEN RunReasons ELSE {"ok"}

(* Mutant: an error leaves by another way than the guard's scope. *)
RunReturns_LeaksOnError(t, reason) ==
    /\ pc[t] = "run"
    /\ IF reason = "ok" THEN ReleaseSlot(t) ELSE UNCHANGED <<call, class>>
    /\ Decide(t, reason)
    /\ UNCHANGED <<registry, request, scrape, report, storage, queries, floor, troubled>>

(* compat_value returns and the guard goes out of scope. *)
RunReturns(t, reason) ==
    /\ pc[t] = "run"
    /\ ReleaseSlot(t)
    /\ Decide(t, reason)
    /\ UNCHANGED <<registry, request, scrape, report, storage, queries, floor, troubled>>

(* A panic drops the guard and ends the connection: no metrics, no answer. *)
RunPanics(t) ==
    /\ Goto(t, "run", "idle")
    /\ ReleaseSlot(t)
    /\ request' = [request EXCEPT ![t] = NoRequest]
    /\ UNCHANGED <<registry, todo, scrape, report, status, storage, history>>

-----------------------------------------------------------------------------
(* The health endpoints. *)

AdminDenied(t) ==
    /\ request[t].endpoint # "compat" /\ Verdict(t) # "ok"
    /\ Answers(t, "auth", Verdict(t))
    /\ UNCHANGED <<registry, request, call, class, todo, scrape, report, storage, history>>

AdminAuthorized(t) ==
    /\ request[t].endpoint # "compat" /\ Verdict(t) = "ok"
    /\ Goto(t, "auth", "check")
    /\ UNCHANGED <<registry, request, call, class, todo, scrape, report, status, storage, history>>

(* check_health_target asks for one table only: it may succeed although    *)
(* storage is unsound.                                                     *)
Check(t) ==
    /\ Goto(t, "check", "note")
    /\ \E ok \in {TRUE, sound} : report' = [report EXCEPT ![t].healthy = ok]
    /\ UNCHANGED <<registry, request, call, class, todo, scrape, status, storage, history>>

(* Mutant: an error, once noted, stays. *)
NoteError_Sticky(t) ==
    /\ Goto(t, "note", "read")
    /\ last_error' = (last_error \/ ~report[t].healthy)
    /\ UNCHANGED <<registry, request, call, class, todo, scrape, report, status, sound, data, load, history>>

(* healthy writes last_error ... *)
NoteError(t) ==
    /\ Goto(t, "note", "read")
    /\ last_error' = ~report[t].healthy
    /\ UNCHANGED <<registry, request, call, class, todo, scrape, report, status, sound, data, load, history>>

(* Mutant: readiness is taken from last_error. *)
IsReady_LastError(r) == ~r.last_error

(* is_ready *)
IsReady(r) == r.healthy

Readiness(r) == IF IsReady(r) THEN "ok" ELSE "not_ready"

(* ... and probe and health read it again, under another lock.  A probe is *)
(* then complete, a health report goes on to its scans.                    *)
ReadError(t) ==
    LET r == [report[t] EXCEPT !.last_error = last_error] IN
    /\ report' = [report EXCEPT ![t] = r]
    /\ IF request[t].endpoint \in {"metrics", "admin_storage"}
       THEN Goto(t, "read", "scan") /\ UNCHANGED status
       ELSE Answers(t, "read", Readiness(r))
    /\ UNCHANGED <<registry, request, call, class, todo, scrape, storage, history>>

(* A failed scan leaves no value; a failed dir_size counts as 0 bytes. *)
Failure(part) == IF part = "physical_bytes" THEN Some(0) ELSE None

Found(parts, p) == parts[CHOOSE i \in DOMAIN parts : Scans[i] = p]

(* Mutant: the gauges end at the second one. *)
StorageGauges_FirstOnly(parts) ==
    <<Gauge(<<"storage", GaugeOrder[1]>>, Value(Found(parts, GaugeOrder[1])))>>

(* record_storage_operator_gauges: a gauge whose scan left no value stays  *)
(* as it is, which is to add nothing to it.                                *)
StorageGauges(parts) ==
    LET Write(p) == IF IsSome(Found(parts, p))
                    THEN Gauge(<<"storage", p>>, Value(Found(parts, p)))
                    ELSE [add |-> TRUE, series |-> <<"storage", p>>, value |-> 0]
    IN  [i \in DOMAIN GaugeOrder |-> Write(GaugeOrder[i])]

(* What a scan leads to: after the last the report is complete. *)
Scanned(t, parts) ==
    \/ /\ Len(parts) < Len(Scans)
       /\ report' = [report EXCEPT ![t].parts = parts]
       /\ UNCHANGED <<pc, status, todo>>
    \/ /\ Len(parts) = Len(Scans) /\ request[t].endpoint = "admin_storage"
       /\ report' = [report EXCEPT ![t].parts = parts]
       /\ Answers(t, "scan", Readiness(report[t]))
       /\ UNCHANGED todo
    \/ /\ Len(parts) = Len(Scans) /\ request[t].endpoint = "metrics"
       /\ report' = [report EXCEPT ![t] = NoReport]
       /\ Goto(t, "scan", "emit")
       /\ todo' = [todo EXCEPT ![t] = StorageGauges(parts)]
       /\ status' = [status EXCEPT ![t] = "ok"]

Scan(t) ==
    /\ pc[t] = "scan"
    /\ LET i == Len(report[t].parts) + 1 IN
       \E found \in {Some(data)} \cup (IF sound THEN {} ELSE {Failure(Scans[i])}) :
          Scanned(t, Append(report[t].parts, found))
    /\ UNCHANGED <<registry, request, call, class, scrape, storage, history>>

-----------------------------------------------------------------------------
(* The registry, one lock at a time. *)

Emit(t) ==
    /\ pc[t] = "emit" /\ todo[t] # <<>>
    /\ Apply(Head(todo[t]))
    /\ todo' = [todo EXCEPT ![t] = Tail(@)]
    /\ UNCHANGED <<pc, request, call, class, scrape, report, status, storage, history>>

(* What follows the last update: the answer, or the scrape. *)
Emitted(t) ==
    /\ todo[t] = <<>>
    /\ IF request[t].endpoint = "metrics"
       THEN Goto(t, "emit", "render") /\ floor' = [floor EXCEPT ![t] = Counters]
       ELSE Goto(t, "emit", "answer") /\ UNCHANGED floor
    /\ UNCHANGED <<registry, request, call, class, todo, scrape, report, status, storage,
                   queries, ended, troubled>>

Render(t) ==
    /\ Goto(t, "render", IF scrape[t].next = Shards THEN "answer" ELSE "render")
    /\ scrape' = [scrape EXCEPT ![t] = CopyShard(scrape[t])]
    /\ UNCHANGED <<registry, request, call, class, todo, report, status, storage, history>>

(* The answer is written; the request and what belongs to it are gone. *)
Answer(t) ==
    /\ Goto(t, "answer", "idle")
    /\ request' = [request EXCEPT ![t] = NoRequest]
    /\ report' = [report EXCEPT ![t] = NoReport]
    /\ scrape' = [scrape EXCEPT ![t] = NoScrape]
    /\ status' = [status EXCEPT ![t] = "none"]
    /\ floor' = [floor EXCEPT ![t] = NoScrape.seen]
    /\ troubled' = [troubled EXCEPT ![t] = FALSE]
    /\ UNCHANGED <<registry, call, class, todo, storage, queries, ended>>

-----------------------------------------------------------------------------
Step(t) ==
    \/ Denied(t)
    \/ Authorized(t)
    \/ Admitted(t)
    \/ Overloaded(t)
    \/ \E reason \in Results(t) : RunReturns(t, reason)
    \/ AdminDenied(t)
    \/ AdminAuthorized(t)
    \/ Check(t)
    \/ NoteError(t)
    \/ ReadError(t)
    \/ Scan(t)
    \/ Emit(t)
    \/ Emitted(t)
    \/ Render(t)
    \/ Answer(t)

Arrival(t) ==
    \/ \E r \in RouteTemplates, k \in Credentials : CompatRequest(t, r, k)
    \/ \E e \in {"admin_storage", "admin_queries"}, k \in Credentials : AdminRequest(t, e, k)
    \/ \E e \in {"healthz", "metrics"} : OpenRequest(t, e)
    \/ UnknownRequest(t)

Next ==
    \/ StorageChanges
    \/ WriterCommits
    \/ \E t \in Threads : Arrival(t) \/ Step(t) \/ RunPanics(t)

Spec == Init /\ [][Next]_vars

(* Handler threads run; a query ends (QueryConn), an admission call is     *)
(* answered (Admission).  Clients, the writer and faults owe nothing.      *)
Fairness == \A t \in Threads : WF_vars(Step(t))

FairSpec == Spec /\ Fairness

-----------------------------------------------------------------------------
Outcomes == Reasons \cup {"none", "not_ready", "not_found"}
Requests == [endpoint : Endpoints, template : RouteTemplates \cup {<<>>}, key : Credentials]
Reports == [healthy : BOOLEAN, last_error : BOOLEAN, parts : Seq(Seq(Nat))]

TypeOK ==
    /\ registry \in [Series -> Nat]
    /\ pc \in [Threads -> PCs]
    /\ request \in [Threads -> Requests]
    /\ call \in [Threads -> {"none", "pending", "held"}]
    /\ class \in [Threads -> QueryClasses]
    /\ todo \in [Threads -> Seq(Updates)]
    /\ scrape \in [Threads -> [next : Nat, seen : [CounterSeries -> Nat]]]
    /\ report \in [Threads -> Reports]
    /\ status \in [Threads -> Outcomes]
    /\ last_error \in BOOLEAN /\ sound \in BOOLEAN /\ data \in Nat
    /\ queries \in Nat
    /\ load \in Loads
    /\ ended \in [RouteTemplates \X Reasons -> Nat]
    /\ floor \in [Threads -> [CounterSeries -> Nat]]
    /\ troubled \in [Threads -> BOOLEAN]

(* The threads that have still to write series s, and what it will show    *)
(* once they have.                                                         *)
Owing(s) == {t \in Threads : \E i \in DOMAIN todo[t] : todo[t][i].series = s}
Balance(s) == registry[s] + Cardinality(Owing(s))

(* Each compatibility request that got a result (refused, unauthorised or  *)
(* timed out too) is counted once under its own template and reason, a     *)
(* timeout once more, and its two observations agree on how many there     *)
(* were, although the six or seven writes of two requests interleave.      *)
CountedOnce == \A r \in RouteTemplates :
    /\ \A reason \in Reasons : Balance(<<"requests", r, reason>>) = ended[<<r, reason>>]
    /\ Balance(<<"timeouts", r>>) = ended[<<r, "query_timeout">>]
    /\ \A x, y \in ObservationSeries : Balance(<<x, r>>) = Balance(<<y, r>>)

(* A scrape copies the shards at different moments, but no counter it      *)
(* shows is older than the scrape or newer than its end: from one scrape   *)
(* to the next, no counter goes backwards.                                 *)
ScrapeWithinItsTime == \A t \in Threads, s \in CounterSeries :
    pc[t] \in {"render", "answer"} /\ ShardOf[s] < scrape[t].next =>
        floor[t][s] <= scrape[t].seen[s] /\ scrape[t].seen[s] <= registry[s]

(* Requests without the API key cannot crowd anybody out: a 429 means that *)
(* every slot of the class is held by a request that has presented it.     *)
RefusedOnlyByKeyHolders == [][\A t \in Threads :
    pc[t] = "admit" /\ pc'[t] = "emit" =>
        Cardinality({u \in Adm!Holders(class[t]) : request[u].key = Some(ApiKey)})
            >= Capacity[class[t]]]_vars

(* /healthz and the admin health routes answer 503 only if storage was     *)
(* unsound at some time during the request itself: the error another       *)
(* thread has left in last_error does not decide.                          *)
NoFalseAlarm == \A t \in Threads : status[t] = "not_ready" => troubled[t]

(* Every request is answered, unless its thread panics: no slot, counter   *)
(* or lock is left in a state that stops the next one.                     *)
EveryRequestAnswered == \A t \in Threads : pc[t] # "idle" ~> pc[t] = "idle"

(* Probes leave last_error behind out of order, and an answer may show an  *)
(* error of somebody else.  Once storage stays sound and checks go on, all *)
(* that is over for good.                                                  *)
HealthConverges ==
    <>[]sound /\ []<><<\E t \in Threads : Check(t)>>_vars
        => <>[](/\ ~last_error
                /\ \A t \in Threads : pc[t] = "answer" =>
                       ~report[t].last_error /\ status[t] # "not_ready")

(* Scrapes write the storage gauges from reports of different ages, and    *)
(* skip the parts whose scan failed.  Once storage stays sound, the data   *)
(* stands still and scrapes go on, the gauges show the data for good.      *)
GaugesSettle ==
    <>[]sound /\ []<><<\E t \in Threads : request[t].endpoint = "metrics" /\ Check(t)>>_vars
        => <>[](\A p \in StorageParts : registry[<<"storage", p>>] = data)
=============================================================================
