----------------------------- MODULE HttpServer -----------------------------
(***************************************************************************)
(* src/http/server.rs: the accept loop (serve_until), one handler thread   *)
(* per connection (handle_stream), the counter of active connections they  *)
(* share, and the drain on shutdown.                                       *)
(*                                                                         *)
(* Bytes are counted, not represented: a client sends them in pieces of    *)
(* its own choosing, closes its side when it likes, and reconnects.  A     *)
(* blocked read ends with bytes, the peer's close, or the socket timeout.  *)
(* Metrics and log events are left out, except for the one event           *)
(* (outcome) that tells an operator how the shutdown went.                 *)
(***************************************************************************)
EXTENDS Naturals, Sequences, FiniteSets

CONSTANTS Conns,              \* the clients' connections
          MaxConns,           \* operator.max_concurrent_connections
          KeepaliveLimit,     \* KEEPALIVE_REQUEST_LIMIT
          MaxLineBytes,       \* MAX_REQUEST_LINE_BYTES, MAX_HEADER_LINE_BYTES
          MaxHeaderBytes,     \* MAX_HEADER_BYTES
          MaxHeaderCount,     \* MAX_HEADER_COUNT
          MaxBodyBytes        \* operator.max_body_bytes

(* OperatorConfig::validate refuses zero limits; the others are constants. *)
ASSUME LimitsAssumption ==
    /\ IsFiniteSet(Conns)
    /\ {MaxConns, KeepaliveLimit, MaxLineBytes, MaxHeaderBytes,
        MaxHeaderCount, MaxBodyBytes} \subseteq Nat \ {0}

VARIABLES active,    \* the AtomicUsize of live connections
          shutdown,  \* SHUTDOWN_REQUESTED, set by the signal handler
          server,    \* where the accept thread is
          current,   \* the connection it has accepted and not yet disposed of
          expired,   \* the drain deadline has passed
          outcome,   \* how serve_until ended
          backlog,   \* the listener's queue of connections not yet accepted
          conn,      \* where each connection (and its handler) is
          open,      \* the peer has not closed its side
          requests,  \* requests served on the connection
          told,      \* the connection header of the last response
          req        \* progress through the request being read

serverVars == <<shutdown, server, current, expired, outcome>>
connVars == <<conn, open, requests, told, req>>
vars == <<active, serverVars, backlog, connVars>>

ServerPCs == {"test", "accept", "count", "overflow", "refuse", "spawn",
              "drain", "drained", "returned"}
Outcomes == {"none", "complete", "drain_timeout", "accept_error", "panicked"}

(* Handler threads by what they do; "exit": handle_stream has returned and *)
(* closed the socket, the ConnectionGuard is not dropped yet.              *)
Reading == {"line", "header", "body"}
Running == Reading \cup {"respond", "exit"}
ConnPCs == Running \cup {"away", "backlog", "held"}
Handlers == {c \in Conns : conn[c] \in Running}

(* line: bytes of the current line; bytes, count: header_bytes and         *)
(* headers.len(); body: bytes of the body still to come.                   *)
Progress == [line : Nat, bytes : Nat, count : Nat, body : Nat]
NoProgress == [line |-> 0, bytes |-> 0, count |-> 0, body |-> 0]

Init ==
    /\ active = 0
    /\ shutdown = FALSE
    /\ server = "test"
    /\ current \in Conns
    /\ expired = FALSE
    /\ outcome = "none"
    /\ backlog = <<>>
    /\ conn = [c \in Conns |-> "away"]
    /\ open = [c \in Conns |-> FALSE]
    /\ requests = [c \in Conns |-> 0]
    /\ told = [c \in Conns |-> "none"]
    /\ req = [c \in Conns |-> NoProgress]

-----------------------------------------------------------------------------
(* The environment: clients, and the operator's signal. *)
Connect(c) ==
    /\ conn[c] = "away" /\ server # "returned"
    /\ conn' = [conn EXCEPT ![c] = "backlog"]
    /\ open' = [open EXCEPT ![c] = TRUE]
    /\ backlog' = Append(backlog, c)
    /\ UNCHANGED <<active, serverVars, requests, told, req>>

PeerCloses(c) ==
    /\ open[c]
    /\ open' = [open EXCEPT ![c] = FALSE]
    /\ UNCHANGED <<active, serverVars, backlog, conn, requests, told, req>>

RequestShutdown ==
    /\ ~shutdown
    /\ shutdown' = TRUE
    /\ UNCHANGED <<active, server, current, expired, outcome, backlog, connVars>>

-----------------------------------------------------------------------------
(* The accept thread. *)
ServerGoes(from, to) == server = from /\ server' = to

(* Mutant: a busy accept loop does not look at the flag. *)
TestShutdown_WhenIdle ==
    /\ server = "test"
    /\ server' = IF shutdown /\ backlog = <<>> THEN "drain" ELSE "accept"
    /\ UNCHANGED <<active, shutdown, current, expired, outcome, backlog, connVars>>

TestShutdown ==
    /\ server = "test"
    /\ server' = IF shutdown THEN "drain" ELSE "accept"
    /\ UNCHANGED <<active, shutdown, current, expired, outcome, backlog, connVars>>

Accept ==
    /\ backlog # <<>>
    /\ ServerGoes("accept", "count")
    /\ current' = Head(backlog)
    /\ backlog' = Tail(backlog)
    /\ conn' = [conn EXCEPT ![Head(backlog)] = "held"]
    /\ UNCHANGED <<active, shutdown, expired, outcome, open, requests, told, req>>

(* WouldBlock, or Interrupted by one of the two signals with a handler. *)
AcceptNothing ==
    /\ backlog = <<>> \/ shutdown
    /\ ServerGoes("accept", "test")
    /\ UNCHANGED <<active, shutdown, current, expired, outcome, backlog, connVars>>

(* Any other error ends the server at once, handlers or not. *)
AcceptFails ==
    /\ ServerGoes("accept", "returned")
    /\ outcome' = "accept_error"
    /\ UNCHANGED <<active, shutdown, current, expired, backlog, connVars>>

(* Mutant: one connection too many. *)
FetchAdd_OffByOne ==
    /\ ServerGoes("count", IF active > MaxConns THEN "overflow" ELSE "spawn")
    /\ active' = active + 1
    /\ UNCHANGED <<shutdown, current, expired, outcome, backlog, connVars>>

FetchAdd ==
    /\ ServerGoes("count", IF active >= MaxConns THEN "overflow" ELSE "spawn")
    /\ active' = active + 1
    /\ UNCHANGED <<shutdown, current, expired, outcome, backlog, connVars>>

(* Mutant: the refused connection stays counted. *)
Overflow_KeepsCount ==
    /\ ServerGoes("overflow", "refuse")
    /\ UNCHANGED <<active, shutdown, current, expired, outcome, backlog, connVars>>

Overflow ==
    /\ ServerGoes("overflow", "refuse")
    /\ active' = active - 1
    /\ UNCHANGED <<shutdown, current, expired, outcome, backlog, connVars>>

(* The connection leaves the server's hands and its socket is closed. *)
Release(c) ==
    /\ conn' = [conn EXCEPT ![c] = "away"]
    /\ open' = [open EXCEPT ![c] = FALSE]
    /\ requests' = [requests EXCEPT ![c] = 0]
    /\ told' = [told EXCEPT ![c] = "none"]
    /\ req' = [req EXCEPT ![c] = NoProgress]

(* Mutant: the write of the 503 has no timeout and waits for the peer. *)
Refuse_Waits ==
    /\ ~open[current]
    /\ ServerGoes("refuse", "test")
    /\ Release(current)
    /\ UNCHANGED <<active, shutdown, current, expired, outcome, backlog>>

(* The 503 is written (or fails, or times out) on the accept thread. *)
Refuse ==
    /\ ServerGoes("refuse", "test")
    /\ Release(current)
    /\ UNCHANGED <<active, shutdown, current, expired, outcome, backlog>>

Spawn ==
    /\ ServerGoes("spawn", "test")
    /\ conn' = [conn EXCEPT ![current] = "line"]
    /\ UNCHANGED <<active, shutdown, current, expired, outcome, backlog,
                   open, requests, told, req>>

(* thread::spawn panics when the OS refuses a thread; no guard exists yet. *)
SpawnPanics ==
    /\ ServerGoes("spawn", "returned")
    /\ outcome' = "panicked"
    /\ Release(current)
    /\ UNCHANGED <<active, shutdown, current, expired, backlog>>

(* drain_active_connections polls until nothing is active or time is up... *)
DrainPoll ==
    /\ active = 0 \/ expired
    /\ ServerGoes("drain", "drained")
    /\ UNCHANGED <<active, shutdown, current, expired, outcome, backlog, connVars>>

DrainDeadline ==
    /\ server = "drain" /\ ~expired
    /\ expired' = TRUE
    /\ UNCHANGED <<active, shutdown, server, current, outcome, backlog, connVars>>

(* Mutant: ending the drain counts as having drained. *)
DrainEnds_Complete ==
    /\ ServerGoes("drained", "returned")
    /\ outcome' = "complete"
    /\ UNCHANGED <<active, shutdown, current, expired, backlog, connVars>>

(* ... and then looks at the counter once more. *)
DrainEnds ==
    /\ ServerGoes("drained", "returned")
    /\ outcome' = IF active > 0 THEN "drain_timeout" ELSE "complete"
    /\ UNCHANGED <<active, shutdown, current, expired, backlog, connVars>>

-----------------------------------------------------------------------------
(* The handler thread of connection c: handle_stream. *)
HandlerFrame == UNCHANGED <<active, serverVars, backlog, open>>

HandlerGoes(c, to, r) ==
    /\ conn' = [conn EXCEPT ![c] = to]
    /\ req' = [req EXCEPT ![c] = r]
    /\ HandlerFrame

(* handle_stream returns; r is forgotten. *)
Return(c) == HandlerGoes(c, "exit", NoProgress)

(* A 400 is written and handle_stream returns; the write may fail. *)
BadRequest(c) ==
    /\ Return(c)
    /\ told' = [told EXCEPT ![c] = "close"]
    /\ UNCHANGED requests

(* read_bounded_line: more bytes of a line, without its end. *)
LineGrows(c) ==
    /\ conn[c] \in {"line", "header"} /\ open[c]
    /\ req[c].line < MaxLineBytes
    /\ HandlerGoes(c, conn[c], [req[c] EXCEPT !.line = @ + 1])
    /\ UNCHANGED <<requests, told>>

LineTooLong(c) ==
    /\ conn[c] \in {"line", "header"} /\ open[c]
    /\ req[c].line = MaxLineBytes
    /\ BadRequest(c)

(* The values of LineRead::Read: up to the newline, or to the peer's close. *)
LineRead(c) ==
    IF open[c] THEN {n \in {req[c].line + 1} : n <= MaxLineBytes} ELSE {req[c].line}

(* The request line: nothing at all means the peer has gone. *)
RequestLine(c) ==
    /\ conn[c] = "line"
    /\ \E n \in LineRead(c) :
         IF n = 0 THEN Return(c) ELSE HandlerGoes(c, "header", NoProgress)
    /\ UNCHANGED <<requests, told>>

(* Mutant: header_bytes holds the last line only. *)
HeaderBytes_LastLine(c, n) == n

HeaderBytes(c, n) == req[c].bytes + n

OverHeaderLimit(c, n) ==
    HeaderBytes(c, n) > MaxHeaderBytes \/ req[c].count >= MaxHeaderCount

HeaderOverLimit(c) ==
    /\ conn[c] = "header"
    /\ \E n \in LineRead(c) : OverHeaderLimit(c, n)
    /\ BadRequest(c)

(* A header line; fresh = 0 for a repeated name or a line without a colon. *)
HeaderLine(c, fresh) ==
    /\ conn[c] = "header" /\ req[c].line > 0
    /\ \E n \in LineRead(c) :
         /\ ~OverHeaderLimit(c, n)
         /\ HandlerGoes(c, "header",
                [req[c] EXCEPT !.line = 0, !.bytes = HeaderBytes(c, n), !.count = @ + fresh])
    /\ UNCHANGED <<requests, told>>

(* The blank line, or the peer's close in its place, ends the headers. *)
HeadersEnd(c) ==
    /\ conn[c] = "header" /\ req[c].line = 0
    /\ \E n \in LineRead(c) : ~OverHeaderLimit(c, n)

(* content-length, when there is such a header, is accepted ... *)
HeadersDone(c, length) ==
    /\ HeadersEnd(c)
    /\ length > 0 => req[c].count > 0
    /\ HandlerGoes(c, "body", [req[c] EXCEPT !.body = length])
    /\ UNCHANGED <<requests, told>>

(* ... or does not parse, or is over max_body_bytes. *)
BadContentLength(c) ==
    /\ HeadersEnd(c)
    /\ req[c].count > 0
    /\ BadRequest(c)

BodyArrives(c) ==
    /\ conn[c] = "body" /\ open[c]
    /\ req[c].body > 0
    /\ HandlerGoes(c, "body", [req[c] EXCEPT !.body = @ - 1])
    /\ UNCHANGED <<requests, told>>

(* A read times out or fails, or read_exact meets the peer's close. *)
ReadFails(c) ==
    /\ conn[c] \in Reading
    /\ conn[c] = "body" => req[c].body > 0
    /\ Return(c)
    /\ UNCHANGED <<requests, told>>

BodyRead(c) == conn[c] = "body" /\ req[c].body = 0

(* Mutant: the limit is the last request that is kept alive. *)
KeepAlive_OffByOne(client_close, served) == ~client_close /\ served <= KeepaliveLimit

(* should_keep_connection_alive *)
KeepAlive(client_close, served) == ~client_close /\ served < KeepaliveLimit

(* route_owned answers, and the response's connection header is decided. *)
Route(c, client_close) ==
    /\ BodyRead(c)
    /\ client_close => req[c].count > 0
    /\ requests' = [requests EXCEPT ![c] = @ + 1]
    /\ told' = [told EXCEPT ![c] =
            IF KeepAlive(client_close, requests[c] + 1) THEN "keep-alive" ELSE "close"]
    /\ HandlerGoes(c, "respond", NoProgress)

(* A panic in the route unwinds the thread; its guard is still dropped. *)
RoutePanics(c) ==
    /\ BodyRead(c)
    /\ Return(c)
    /\ UNCHANGED <<requests, told>>

Responded(c) ==
    /\ conn[c] = "respond"
    /\ IF told[c] = "keep-alive" THEN HandlerGoes(c, "line", NoProgress) ELSE Return(c)
    /\ UNCHANGED <<requests, told>>

WriteFails(c) ==
    /\ conn[c] = "respond"
    /\ Return(c)
    /\ UNCHANGED <<requests, told>>

(* ConnectionGuard::drop *)
DropGuard(c) ==
    /\ conn[c] = "exit"
    /\ active' = active - 1
    /\ Release(c)
    /\ UNCHANGED <<serverVars, backlog>>

-----------------------------------------------------------------------------
Environment == RequestShutdown \/ \E c \in Conns : Connect(c) \/ PeerCloses(c)

Server ==
    \/ TestShutdown
    \/ Accept
    \/ AcceptNothing
    \/ FetchAdd
    \/ Overflow
    \/ Refuse
    \/ Spawn
    \/ DrainPoll
    \/ DrainEnds

ServerFailure == AcceptFails \/ SpawnPanics

Handler(c) ==
    \/ LineGrows(c)
    \/ LineTooLong(c)
    \/ RequestLine(c)
    \/ HeaderOverLimit(c)
    \/ \E fresh \in {0, 1} : HeaderLine(c, fresh)
    \/ \E length \in 0 .. MaxBodyBytes : HeadersDone(c, length)
    \/ BadContentLength(c)
    \/ BodyArrives(c)
    \/ ReadFails(c)
    \/ \E client_close \in BOOLEAN : Route(c, client_close)
    \/ RoutePanics(c)
    \/ Responded(c)
    \/ WriteFails(c)
    \/ DropGuard(c)

Next ==
    \/ Environment
    \/ Server
    \/ ServerFailure
    \/ DrainDeadline
    \/ \E c \in Conns : Handler(c)

Spec == Init /\ [][Next]_vars

(* The threads run, and time passes.  A handler blocked in a read or a     *)
(* write is released by the socket timeouts, one blocked in a route by the *)
(* admission wait and the query timeout (modules Admission, QueryConn).    *)
(* Clients and the operator owe nothing.                                   *)
Fairness ==
    /\ WF_vars(Server)
    /\ WF_vars(DrainDeadline)
    /\ \A c \in Conns : WF_vars(Handler(c))

LiveSpec == Spec /\ Fairness

-----------------------------------------------------------------------------
TypeOK ==
    /\ active \in Nat
    /\ shutdown \in BOOLEAN
    /\ server \in ServerPCs
    /\ current \in Conns
    /\ expired \in BOOLEAN
    /\ outcome \in Outcomes
    /\ backlog \in Seq(Conns)
    /\ conn \in [Conns -> ConnPCs]
    /\ open \in [Conns -> BOOLEAN]
    /\ requests \in [Conns -> Nat]
    /\ told \in [Conns -> {"none", "keep-alive", "close"}]
    /\ req \in [Conns -> Progress]

(* The accept thread has counted a connection that has no handler yet; a   *)
(* panic in spawn leaves it counted for good.                              *)
CountedByServer == server \in {"overflow", "spawn"} \/ outcome = "panicked"

(* The counter is the number of connections being handled, whatever mix of *)
(* refusals, panics, timeouts and closes has happened.                     *)
ActiveIsExact ==
    active = Cardinality(Handlers) + (IF CountedByServer THEN 1 ELSE 0)

(* server.rs:66: at most max_concurrent_connections OS threads serve       *)
(* sockets at any time.                                                    *)
WithinMaxConns == Cardinality(Handlers) <= MaxConns

(* What the accept thread has in hand is still at the head of the queue    *)
(* until FetchAdd refuses it, Spawn starts its handler or spawn panics.    *)
Waiting == IF server \in {"count", "spawn"} THEN <<current>> \o backlog ELSE backlog
Refused == IF server \in {"overflow", "refuse"} THEN {current} ELSE {}
Phase == IF outcome # "none" THEN outcome
         ELSE IF server \in {"drain", "drained"} THEN "draining" ELSE "serving"

(* serve_until and its handlers implement a pool with a waiting queue:     *)
(* connections are disposed of in their order of arrival, each is served   *)
(* or refused by the number of handlers that exist at that moment, nobody  *)
(* is taken in once the drain has begun, and the final report tells        *)
(* whether a handler was left.                                             *)
Pool == INSTANCE ConnectionPool
            WITH queue <- Waiting, serving <- Handlers, refused <- Refused,
                 asked <- shutdown, phase <- Phase

ImplementsPool == Pool!Spec

(* A client gets the 503 only while that many handlers really exist.       *)
RefusesOnlyWhenFull ==
    [][server = "count" /\ server' = "overflow"
         => Cardinality(Handlers) >= MaxConns]_vars

(* "shutdown_complete": no handler is running and none will start;         *)
(* "shutdown_drain_timeout" is logged only once the deadline has passed.   *)
ShutdownReportIsTrue ==
    /\ outcome = "complete" => Handlers = {}
    /\ outcome = "drain_timeout" => expired

(* Only requests that fit the parser limits reach the router, and a        *)
(* connection is read again only after a response that said keep-alive and *)
(* before its request limit.                                               *)
RequestsWithinLimits == \A c \in Handlers :
    /\ conn[c] = "body" => req[c].bytes <= MaxHeaderBytes /\ req[c].count < MaxHeaderCount
    /\ conn[c] \in Reading /\ requests[c] > 0
         => requests[c] < KeepaliveLimit /\ told[c] = "keep-alive"

(* No client holds a handler thread forever, however slowly it sends: the  *)
(* byte limits, the socket timeout and the request limit end every         *)
(* connection.                                                             *)
EveryConnectionEnds == \A c \in Conns : c \in Handlers ~> c \notin Handlers

(* A client in the listener's queue is served or refused, or the server    *)
(* has stopped.                                                            *)
EveryClientAnswered ==
    \A c \in Conns : conn[c] = "backlog" ~> (conn[c] # "backlog" \/ server = "returned")

(* After SIGTERM the server returns, under any load.                       *)
ShutdownCompletes == shutdown ~> server = "returned"
-----------------------------------------------------------------------------
(* What the proofs need: the queue holds distinct waiting connections, the *)
(* accept thread's position says what it has in hand and how much room     *)
(* there is ...                                                            *)
QueueInv ==
    /\ \A i \in 1 .. Len(backlog) : conn[backlog[i]] = "backlog"
    /\ \A i, j \in 1 .. Len(backlog) : backlog[i] = backlog[j] => i = j

ServerInv ==
    /\ server \in {"count", "overflow", "refuse", "spawn"} => conn[current] = "held"
    /\ server = "spawn" => Cardinality(Handlers) < MaxConns
    /\ server = "drained" => active = 0 \/ expired
    /\ outcome # "none" => server = "returned"

PoolInv ==
    /\ TypeOK
    /\ QueueInv
    /\ ServerInv
    /\ ActiveIsExact
    /\ WithinMaxConns
    /\ ShutdownReportIsTrue

(* ... and a connection without a handler has served nothing.              *)
RequestInv ==
    /\ RequestsWithinLimits
    /\ \A c \in Conns :
         /\ conn[c] \notin Running => requests[c] = 0
         /\ conn[c] = "respond" /\ told[c] = "keep-alive" => requests[c] < KeepaliveLimit
=============================================================================
