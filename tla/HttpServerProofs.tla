-------------------------- MODULE HttpServerProofs --------------------------
(***************************************************************************)
(* Theorems about HttpServer for any number of connections and any         *)
(* positive limits.                                                        *)
(***************************************************************************)
EXTENDS HttpServer, FiniteSetTheorems, TLAPS

-----------------------------------------------------------------------------
(* How the set of handlers changes with one connection. *)
LEMMA HandlersFinite == IsFiniteSet(Handlers) /\ Cardinality(Handlers) \in Nat
BY LimitsAssumption, FS_Subset, FS_CardinalityType DEF Handlers

LEMMA HandlersSame ==
    ASSUME TypeOK, NEW c \in Conns, NEW to, conn' = [conn EXCEPT ![c] = to],
           conn[c] \in Running <=> to \in Running
    PROVE  Handlers' = Handlers
BY DEF TypeOK, Handlers

LEMMA HandlersGrow ==
    ASSUME TypeOK, NEW c \in Conns, NEW to, conn' = [conn EXCEPT ![c] = to],
           conn[c] \notin Running, to \in Running
    PROVE  Cardinality(Handlers') = Cardinality(Handlers) + 1
<1>1. Handlers' = Handlers \cup {c} /\ c \notin Handlers
  BY DEF TypeOK, Handlers
<1> QED
  BY <1>1, HandlersFinite, FS_AddElement

LEMMA HandlersShrink ==
    ASSUME TypeOK, NEW c \in Conns, NEW to, conn' = [conn EXCEPT ![c] = to],
           conn[c] \in Running, to \notin Running
    PROVE  /\ Cardinality(Handlers') = Cardinality(Handlers) - 1
           /\ Cardinality(Handlers) \in Nat \ {0}
           /\ Handlers # {}
<1>1. Handlers' = Handlers \ {c} /\ c \in Handlers
  BY DEF TypeOK, Handlers
<1>2. Cardinality(Handlers') = Cardinality(Handlers) - 1
  BY <1>1, HandlersFinite, FS_RemoveElement
<1>3. Cardinality(Handlers) # 0
  BY <1>1, HandlersFinite, FS_EmptySet
<1> QED
  BY <1>1, <1>2, <1>3, HandlersFinite

-----------------------------------------------------------------------------
(* Every step of a handler before its last moves it from one running       *)
(* position to another.                                                    *)
HandlerMove(c) ==
    /\ conn[c] \in Running \ {"exit"}
    /\ \E to \in Running : conn' = [conn EXCEPT ![c] = to]
    /\ \E r \in Progress : req' = [req EXCEPT ![c] = r]
    /\ requests' \in [Conns -> Nat]
    /\ told' \in [Conns -> {"none", "keep-alive", "close"}]
    /\ HandlerFrame

LEMMA HandlerMoves ==
    ASSUME TypeOK, NEW c \in Conns, Handler(c)
    PROVE  HandlerMove(c) \/ DropGuard(c)
<1> USE DEF HandlerMove, Running, Reading, Progress, NoProgress
<1>0. req[c] \in Progress /\ requests[c] \in Nat /\ told[c] \in {"none", "keep-alive", "close"}
  BY DEF TypeOK
<1>a. ASSUME NEW to \in Running, NEW r \in Progress, HandlerGoes(c, to, r),
             conn[c] \in Running \ {"exit"}, UNCHANGED <<requests, told>>
      PROVE  HandlerMove(c)
  BY <1>a DEF HandlerGoes, TypeOK
<1>b. ASSUME BadRequest(c), conn[c] \in Running \ {"exit"} PROVE HandlerMove(c)
  BY <1>b DEF BadRequest, Return, HandlerGoes, TypeOK
<1>1. CASE LineGrows(c)
  BY <1>0, <1>1, <1>a DEF LineGrows
<1>2. CASE LineTooLong(c)
  BY <1>2, <1>b DEF LineTooLong
<1>3. CASE RequestLine(c)
  BY <1>3, <1>a DEF RequestLine, Return
<1>4. CASE HeaderOverLimit(c)
  BY <1>4, <1>b DEF HeaderOverLimit
<1>5. ASSUME NEW fresh \in {0, 1}, HeaderLine(c, fresh) PROVE HandlerMove(c)
  <2>1. PICK n \in LineRead(c) : HandlerGoes(c, "header",
          [req[c] EXCEPT !.line = 0, !.bytes = HeaderBytes(c, n), !.count = @ + fresh])
    BY <1>5 DEF HeaderLine
  <2>2. n \in Nat
    BY <1>0 DEF LineRead
  <2>3. [req[c] EXCEPT !.line = 0, !.bytes = HeaderBytes(c, n), !.count = @ + fresh] \in Progress
    <3>1. PICK b \in Nat : b = HeaderBytes(c, n)
      BY <1>0, <2>2 DEF HeaderBytes
    <3>2. PICK k \in Nat : k = req[c].count + fresh
      BY <1>0
    <3>3. [req[c] EXCEPT !.line = 0, !.bytes = b, !.count = k] \in Progress
      BY <1>0
    <3> QED
      BY <3>1, <3>2, <3>3
  <2> QED
    BY <1>5, <2>1, <2>3, <1>a DEF HeaderLine
<1>6. ASSUME NEW length \in 0 .. MaxBodyBytes, HeadersDone(c, length) PROVE HandlerMove(c)
  <2>1. length \in Nat
    BY LimitsAssumption
  <2> QED
    BY <1>0, <1>6, <2>1, <1>a DEF HeadersDone, HeadersEnd
<1>7. CASE BadContentLength(c)
  BY <1>7, <1>b DEF BadContentLength, HeadersEnd
<1>8. CASE BodyArrives(c)
  BY <1>0, <1>8, <1>a DEF BodyArrives
<1>9. CASE ReadFails(c)
  BY <1>9, <1>a DEF ReadFails, Return
<1>10. ASSUME NEW client_close \in BOOLEAN, Route(c, client_close) PROVE HandlerMove(c)
  <2>1. conn[c] = "body" /\ HandlerGoes(c, "respond", NoProgress)
    BY <1>10 DEF Route, BodyRead
  <2>2. requests' \in [Conns -> Nat]
    BY <1>0, <1>10 DEF Route, TypeOK
  <2>3. told' \in [Conns -> {"none", "keep-alive", "close"}]
    BY <1>10 DEF Route, TypeOK
  <2> QED
    BY <2>1, <2>2, <2>3 DEF HandlerGoes
<1>11. CASE RoutePanics(c)
  BY <1>11, <1>a DEF RoutePanics, BodyRead, Return
<1>12. CASE Responded(c)
  BY <1>12, <1>a DEF Responded, Return
<1>13. CASE WriteFails(c)
  BY <1>13, <1>a DEF WriteFails, Return
<1> QED
  BY <1>1, <1>2, <1>3, <1>4, <1>5, <1>6, <1>7, <1>8, <1>9, <1>10, <1>11, <1>12, <1>13
  DEF Handler

-----------------------------------------------------------------------------
(* The state of the server keeps its types as long as the counter does.    *)
LEMMA TypeStep ==
    ASSUME TypeOK, [Next]_vars, active' \in Nat
    PROVE  TypeOK'
<1> USE DEF TypeOK, ServerPCs, Outcomes, ConnPCs, Running, Reading, ServerGoes,
            serverVars, connVars
<1>0. NoProgress \in Progress
  BY DEF NoProgress, Progress
<1>1. CASE UNCHANGED vars
  BY <1>1 DEF vars
<1>2. CASE RequestShutdown
  BY <1>2 DEF RequestShutdown
<1>3. ASSUME NEW c \in Conns, Connect(c) PROVE TypeOK'
  BY <1>3 DEF Connect
<1>4. ASSUME NEW c \in Conns, PeerCloses(c) PROVE TypeOK'
  BY <1>4 DEF PeerCloses
<1>5. CASE TestShutdown
  BY <1>5 DEF TestShutdown
<1>6. CASE Accept
  BY <1>6 DEF Accept
<1>7. CASE AcceptNothing \/ AcceptFails
  BY <1>7 DEF AcceptNothing, AcceptFails
<1>8. CASE FetchAdd \/ Overflow
  BY <1>8 DEF FetchAdd, Overflow
<1>9. CASE Refuse
  BY <1>0, <1>9 DEF Refuse, Release
<1>10. CASE Spawn
  BY <1>10 DEF Spawn
<1>11. CASE SpawnPanics
  BY <1>0, <1>11 DEF SpawnPanics, Release
<1>12. CASE DrainPoll \/ DrainEnds \/ DrainDeadline
  BY <1>12 DEF DrainPoll, DrainEnds, DrainDeadline
<1>13. ASSUME NEW c \in Conns, HandlerMove(c) PROVE TypeOK'
  <2>1. conn' \in [Conns -> ConnPCs]
    <3>1. PICK to \in Running : conn' = [conn EXCEPT ![c] = to]
      BY <1>13 DEF HandlerMove
    <3> QED
      BY <3>1
  <2>2. req' \in [Conns -> Progress]
    <3>1. PICK r \in Progress : req' = [req EXCEPT ![c] = r]
      BY <1>13 DEF HandlerMove
    <3>2. req \in [Conns -> Progress]
      OBVIOUS
    <3> HIDE DEF TypeOK
    <3> QED
      BY <3>1, <3>2
  <2>3. /\ requests' \in [Conns -> Nat]
        /\ told' \in [Conns -> {"none", "keep-alive", "close"}]
        /\ HandlerFrame
    BY <1>13 DEF HandlerMove
  <2> QED
    BY <2>1, <2>2, <2>3 DEF HandlerFrame
<1>14. ASSUME NEW c \in Conns, DropGuard(c) PROVE TypeOK'
  BY <1>0, <1>14 DEF DropGuard, Release
<1> QED
  BY <1>1, <1>2, <1>3, <1>4, <1>5, <1>6, <1>7, <1>8, <1>9, <1>10, <1>11, <1>12, <1>13,
     <1>14, HandlerMoves
  DEF Next, Environment, Server, ServerFailure

-----------------------------------------------------------------------------
(* The queue keeps its invariant when a connection outside it moves. *)
LEMMA QueueKept ==
    ASSUME TypeOK, QueueInv, UNCHANGED backlog, NEW c \in Conns, NEW to,
           conn[c] # "backlog", conn' = [conn EXCEPT ![c] = to]
    PROVE  QueueInv'
BY DEF TypeOK, QueueInv

(* A step of the accept thread that touches no connection and no count. *)
LEMMA ServerOnly ==
    ASSUME PoolInv, UNCHANGED <<active, backlog, conn>>
    PROVE  /\ QueueInv'
           /\ Handlers' = Handlers
           /\ WithinMaxConns'
           /\ CountedByServer' = CountedByServer => ActiveIsExact'
BY DEF PoolInv, QueueInv, Handlers, WithinMaxConns, ActiveIsExact

LEMMA PoolInit == Init => PoolInv
<1> SUFFICES ASSUME Init PROVE PoolInv
  OBVIOUS
<1>0. shutdown \in BOOLEAN /\ expired \in BOOLEAN
  BY Zenon DEF Init
<1>1. Handlers = {}
  BY DEF Init, Handlers, Running, Reading
<1>2. Cardinality(Handlers) = 0
  BY <1>1, FS_EmptySet
<1>3. TypeOK
  BY <1>0 DEF Init, TypeOK, ServerPCs, Outcomes, ConnPCs, Progress, NoProgress
<1>4. ActiveIsExact /\ WithinMaxConns
  BY <1>2, LimitsAssumption DEF Init, ActiveIsExact, WithinMaxConns, CountedByServer
<1> QED
  BY <1>3, <1>4 DEF Init, PoolInv, QueueInv, ServerInv, ShutdownReportIsTrue

LEMMA PoolStep == PoolInv /\ [Next]_vars => PoolInv'
<1> SUFFICES ASSUME PoolInv, [Next]_vars PROVE PoolInv'
  OBVIOUS
<1>n. TypeOK /\ Cardinality(Handlers) \in Nat /\ MaxConns \in Nat \ {0}
  BY HandlersFinite, LimitsAssumption DEF PoolInv
<1>t. ASSUME active' \in Nat PROVE TypeOK'
  BY <1>n, <1>t, TypeStep
<1> USE <1>n DEF PoolInv, serverVars, connVars, ServerGoes
<1>1. CASE UNCHANGED vars
  BY <1>1, <1>t, ServerOnly
  DEF vars, TypeOK, CountedByServer, ServerInv, ShutdownReportIsTrue
<1>2. CASE RequestShutdown
  BY <1>2, <1>t, ServerOnly
  DEF RequestShutdown, TypeOK, CountedByServer, ServerInv, ShutdownReportIsTrue
<1>3. ASSUME NEW c \in Conns, Connect(c) PROVE PoolInv'
  <2>1. Handlers' = Handlers
    BY <1>3, HandlersSame DEF Connect, Running, Reading
  <2>2. QueueInv'
    <3>1. conn' = [conn EXCEPT ![c] = "backlog"] /\ conn[c] = "away" /\ backlog' = Append(backlog, c)
      BY <1>3 DEF Connect
    <3>2. Len(backlog') = Len(backlog) + 1 /\ Len(backlog) \in Nat
      BY <3>1 DEF TypeOK
    <3>3. /\ \A i \in 1 .. Len(backlog) : backlog'[i] = backlog[i] /\ backlog[i] # c
                                            /\ backlog[i] \in Conns
          /\ backlog'[Len(backlog) + 1] = c
      BY <3>1 DEF TypeOK, QueueInv
    <3>4. \A i \in 1 .. Len(backlog') : i \in 1 .. Len(backlog) \/ i = Len(backlog) + 1
      BY <3>2
    <3>5. \A i \in 1 .. Len(backlog') : conn'[backlog'[i]] = "backlog"
      BY <3>1, <3>3, <3>4 DEF TypeOK, QueueInv
    <3>6. \A i, j \in 1 .. Len(backlog') : backlog'[i] = backlog'[j] => i = j
      BY <3>3, <3>4 DEF QueueInv
    <3> QED
      BY <3>5, <3>6 DEF QueueInv
  <2> QED
    BY <1>3, <1>t, <2>1, <2>2
    DEF Connect, TypeOK, ServerInv, ActiveIsExact, CountedByServer, WithinMaxConns,
        ShutdownReportIsTrue
<1>4. ASSUME NEW c \in Conns, PeerCloses(c) PROVE PoolInv'
  BY <1>4, <1>t, ServerOnly
  DEF PeerCloses, TypeOK, CountedByServer, ServerInv, ShutdownReportIsTrue
<1>5. CASE TestShutdown \/ AcceptNothing \/ AcceptFails
  BY <1>5, <1>t, ServerOnly
  DEF TestShutdown, AcceptNothing, AcceptFails, TypeOK, CountedByServer, ServerInv,
      ShutdownReportIsTrue
<1>6. CASE Accept
  <2> DEFINE h == Head(backlog)
  <2>1. backlog # <<>> /\ backlog \in Seq(Conns) /\ Len(backlog) \in Nat \ {0}
    BY <1>6 DEF Accept, TypeOK
  <2>2. PICK c \in Conns : c = Head(backlog) /\ c = backlog[1]
    BY <2>1
  <2>3. conn[c] = "backlog"
    BY <2>1, <2>2 DEF QueueInv
  <2>4. conn' = [conn EXCEPT ![c] = "held"] /\ current' = c /\ backlog' = Tail(backlog)
    BY <1>6, <2>2 DEF Accept
  <2>5. Handlers' = Handlers
    BY <2>3, <2>4, HandlersSame DEF Running, Reading
  <2>6. QueueInv'
    <3>1. /\ Len(backlog') = Len(backlog) - 1
          /\ \A i \in 1 .. Len(backlog') : backlog'[i] = backlog[i + 1]
      BY <2>1, <2>4
    <3>2. \A i \in 1 .. Len(backlog') : i + 1 \in 1 .. Len(backlog) /\ i + 1 # 1
      BY <2>1, <3>1
    <3>3. \A i \in 1 .. Len(backlog') : backlog[i + 1] # c /\ backlog[i + 1] \in Conns
      BY <2>1, <2>2, <3>2 DEF QueueInv
    <3>4. \A i \in 1 .. Len(backlog') : conn'[backlog'[i]] = "backlog"
      BY <2>4, <3>1, <3>2, <3>3 DEF QueueInv, TypeOK
    <3>5. \A i, j \in 1 .. Len(backlog') : backlog'[i] = backlog'[j] => i + 1 = j + 1
      BY <3>1, <3>2 DEF QueueInv
    <3>6. \A i, j \in 1 .. Len(backlog') : i + 1 = j + 1 => i = j
      BY <2>1, <3>1
    <3> QED
      BY <3>4, <3>5, <3>6 DEF QueueInv
  <2> QED
    BY <1>6, <1>t, <2>4, <2>5, <2>6
    DEF Accept, TypeOK, ServerInv, ActiveIsExact, CountedByServer, WithinMaxConns,
        ShutdownReportIsTrue
<1>7. CASE FetchAdd
  <2>1. QueueInv' /\ Handlers' = Handlers
    BY <1>7 DEF FetchAdd, QueueInv, Handlers
  <2>2. active = Cardinality(Handlers) /\ outcome = "none"
    BY <1>7 DEF FetchAdd, ActiveIsExact, CountedByServer, ServerInv
  <2> QED
    BY <1>7, <1>t, <2>1, <2>2
    DEF FetchAdd, TypeOK, ServerInv, ActiveIsExact, CountedByServer, WithinMaxConns,
        ShutdownReportIsTrue
<1>8. CASE Overflow
  <2>1. QueueInv' /\ Handlers' = Handlers
    BY <1>8 DEF Overflow, QueueInv, Handlers
  <2>2. active = Cardinality(Handlers) + 1 /\ outcome = "none"
    BY <1>8 DEF Overflow, ActiveIsExact, CountedByServer, ServerInv
  <2>3. active' = Cardinality(Handlers) /\ active' \in Nat
    BY <1>8, <2>2 DEF Overflow
  <2> QED
    BY <1>8, <1>t, <2>1, <2>2, <2>3
    DEF Overflow, ServerInv, ActiveIsExact, CountedByServer, WithinMaxConns,
        ShutdownReportIsTrue
<1>9. ASSUME Refuse \/ SpawnPanics PROVE PoolInv'
  <2>1. /\ conn[current] = "held" /\ outcome = "none"
        /\ conn' = [conn EXCEPT ![current] = "away"]
        /\ current \in Conns
        /\ UNCHANGED <<active, backlog>>
    BY <1>9 DEF Refuse, SpawnPanics, Release, ServerInv, TypeOK
  <2>2. Handlers' = Handlers
    BY <2>1, HandlersSame DEF Running, Reading
  <2>3. QueueInv'
    BY <2>1, QueueKept
  <2> QED
    BY <1>9, <1>t, <2>1, <2>2, <2>3
    DEF Refuse, SpawnPanics, TypeOK, ServerInv, ActiveIsExact, CountedByServer,
        WithinMaxConns, ShutdownReportIsTrue
<1>10. CASE Spawn
  <2>1. /\ conn[current] = "held" /\ outcome = "none"
        /\ conn' = [conn EXCEPT ![current] = "line"]
        /\ current \in Conns
        /\ Cardinality(Handlers) < MaxConns
    BY <1>10 DEF Spawn, ServerInv, TypeOK
  <2>2. Cardinality(Handlers') = Cardinality(Handlers) + 1
    BY <2>1, HandlersGrow DEF Running, Reading
  <2>3. QueueInv'
    BY <1>10, <2>1, QueueKept DEF Spawn
  <2>4. active = Cardinality(Handlers) + 1
    BY <1>10, <2>1 DEF Spawn, ActiveIsExact, CountedByServer
  <2>5. active' = Cardinality(Handlers') /\ Cardinality(Handlers') <= MaxConns
    BY <1>10, <2>1, <2>2, <2>4 DEF Spawn
  <2> QED
    BY <1>10, <1>t, <2>1, <2>3, <2>5
    DEF Spawn, TypeOK, ServerInv, ActiveIsExact, CountedByServer, WithinMaxConns,
        ShutdownReportIsTrue
<1>11. CASE DrainPoll \/ DrainDeadline
  BY <1>11, <1>t, ServerOnly
  DEF DrainPoll, DrainDeadline, TypeOK, CountedByServer, ServerInv, ShutdownReportIsTrue
<1>12. CASE DrainEnds
  <2>1. active = Cardinality(Handlers) /\ outcome = "none"
    BY <1>12 DEF DrainEnds, ActiveIsExact, CountedByServer, ServerInv
  <2>2. active = 0 => Handlers = {}
    BY <2>1, HandlersFinite, FS_EmptySet
  <2> QED
    BY <1>12, <1>t, <2>1, <2>2, ServerOnly
    DEF DrainEnds, TypeOK, CountedByServer, ServerInv, ShutdownReportIsTrue
<1>13. ASSUME NEW c \in Conns, HandlerMove(c) PROVE PoolInv'
  <2>1. PICK to \in Running : conn' = [conn EXCEPT ![c] = to]
    BY <1>13 DEF HandlerMove
  <2>2. Handlers' = Handlers
    BY <1>13, <2>1, HandlersSame DEF HandlerMove
  <2>3. QueueInv' /\ conn[c] # "held"
    BY <1>13, <2>1, QueueKept DEF HandlerMove, HandlerFrame, Running, Reading
  <2> QED
    BY <1>13, <1>t, <2>1, <2>2, <2>3
    DEF HandlerMove, HandlerFrame, TypeOK, ServerInv, ActiveIsExact, CountedByServer,
        WithinMaxConns, ShutdownReportIsTrue
<1>14. ASSUME NEW c \in Conns, DropGuard(c) PROVE PoolInv'
  <2>1. conn[c] = "exit" /\ conn' = [conn EXCEPT ![c] = "away"] /\ active' = active - 1
    BY <1>14 DEF DropGuard, Release
  <2>2. /\ Cardinality(Handlers') = Cardinality(Handlers) - 1
        /\ Cardinality(Handlers) \in Nat \ {0}
        /\ Handlers # {}
    BY <2>1, HandlersShrink DEF Running, Reading
  <2>3. QueueInv'
    BY <1>14, <2>1, QueueKept DEF DropGuard
  <2>4. active \in Nat \ {0} /\ active' \in Nat /\ CountedByServer' = CountedByServer
    BY <1>14, <2>1, <2>2 DEF DropGuard, ActiveIsExact, CountedByServer
  <2>5. ActiveIsExact'
    BY <2>1, <2>2, <2>4 DEF ActiveIsExact
  <2>6. WithinMaxConns' /\ ShutdownReportIsTrue'
    BY <1>14, <2>2 DEF DropGuard, WithinMaxConns, ShutdownReportIsTrue
  <2>7. ServerInv'
    BY <1>14, <2>1, <2>2, <2>4 DEF DropGuard, ServerInv, TypeOK
  <2> QED
    BY <1>t, <2>3, <2>4, <2>5, <2>6, <2>7
<1> QED
  BY <1>1, <1>2, <1>3, <1>4, <1>5, <1>6, <1>7, <1>8, <1>9, <1>10, <1>11, <1>12, <1>13,
     <1>14, HandlerMoves
  DEF Next, Environment, Server, ServerFailure

(* The pool invariant holds in every behaviour. *)
LEMMA PoolInvariant == Spec => []PoolInv
BY PoolInit, PoolStep, PTL DEF Spec

(* The accept loop's and the handlers' state always has its type; the      *)
(* counter never goes below zero.                                          *)
THEOREM TypeCorrect == Spec => []TypeOK
<1>1. PoolInv => TypeOK
  BY DEF PoolInv
<1> QED
  BY <1>1, PoolInvariant, PTL

(* The counter is the number of handlers, plus the connection the accept   *)
(* thread is about to refuse or to spawn for.                              *)
THEOREM ActiveIsExactAlways == Spec => []ActiveIsExact
<1>1. PoolInv => ActiveIsExact
  BY DEF PoolInv
<1> QED
  BY <1>1, PoolInvariant, PTL

(* The server never runs more than max_concurrent_connections handlers.    *)
THEOREM WithinMaxConnsAlways == Spec => []WithinMaxConns
<1>1. PoolInv => WithinMaxConns
  BY DEF PoolInv
<1> QED
  BY <1>1, PoolInvariant, PTL

(* "shutdown_complete" means that every handler has finished.              *)
THEOREM ShutdownReportIsTrueAlways == Spec => []ShutdownReportIsTrue
<1>1. PoolInv => ShutdownReportIsTrue
  BY DEF PoolInv
<1> QED
  BY <1>1, PoolInvariant, PTL

(* A connection is refused only while the pool is full.                    *)
THEOREM RefusesOnlyWhenFullAlways == Spec => RefusesOnlyWhenFull
<1>1. ASSUME PoolInv, [Next]_vars, server = "count", server' = "overflow"
      PROVE  Cardinality(Handlers) >= MaxConns
  <2>1. \A c \in Conns : Handler(c) => server' = server
    BY <1>1, HandlerMoves DEF HandlerMove, HandlerFrame, DropGuard, serverVars, PoolInv
  <2>2. FetchAdd
    BY <1>1, <2>1 DEF Next, Environment, Server, ServerFailure, RequestShutdown, Connect,
       PeerCloses, TestShutdown, Accept, AcceptNothing, AcceptFails, Overflow, Refuse,
       Spawn, SpawnPanics, DrainPoll, DrainDeadline, DrainEnds, ServerGoes, serverVars,
       vars
  <2>3. active >= MaxConns
    BY <1>1, <2>2 DEF FetchAdd, ServerGoes
  <2>4. active = Cardinality(Handlers)
    BY <1>1, HandlersFinite DEF PoolInv, ActiveIsExact, CountedByServer, ServerInv
  <2> QED
    BY <2>3, <2>4
<1> QED
  BY <1>1, PoolInvariant, PTL DEF Spec, RefusesOnlyWhenFull

-----------------------------------------------------------------------------
LEMMA RequestInit == Init => RequestInv
BY DEF Init, RequestInv, RequestsWithinLimits, Handlers, Running, Reading

LEMMA RequestStep == PoolInv /\ RequestInv /\ [Next]_vars => RequestInv'
<1> SUFFICES ASSUME PoolInv, RequestInv, [Next]_vars PROVE RequestInv'
  OBVIOUS
<1>t. TypeOK /\ TypeOK'
  BY PoolStep DEF PoolInv
<1> DEFINE Within(c) ==
      /\ conn[c] = "body" => req[c].bytes <= MaxHeaderBytes /\ req[c].count < MaxHeaderCount
      /\ conn[c] \in Reading /\ requests[c] > 0
           => requests[c] < KeepaliveLimit /\ told[c] = "keep-alive"
      /\ conn[c] \notin Running => requests[c] = 0
      /\ conn[c] = "respond" /\ told[c] = "keep-alive" => requests[c] < KeepaliveLimit
<1>w. RequestInv <=> \A c \in Conns : Within(c)
  BY DEF RequestInv, RequestsWithinLimits, Handlers, Running, Reading
<1>v. RequestInv' <=> \A c \in Conns : Within(c)'
  BY DEF RequestInv, RequestsWithinLimits, Handlers, Running, Reading
<1>o. \A c \in Conns : UNCHANGED <<conn[c], req[c], requests[c], told[c]>> => Within(c)'
  BY <1>w
<1> HIDE DEF Within
<1>k. UNCHANGED <<conn, req, requests, told>> => RequestInv'
  BY <1>o, <1>v
<1>m. ASSUME NEW c \in Conns, Within(c)',
             \E to, r, n, h : /\ conn' = [conn EXCEPT ![c] = to]
                              /\ req' = [req EXCEPT ![c] = r]
                              /\ requests' = [requests EXCEPT ![c] = n]
                              /\ told' = [told EXCEPT ![c] = h]
      PROVE  RequestInv'
  BY <1>m, <1>o, <1>v, <1>t DEF TypeOK
<1>1. CASE UNCHANGED vars
  BY <1>1, <1>k DEF vars, connVars
<1>2. CASE RequestShutdown \/ TestShutdown \/ AcceptNothing \/ AcceptFails \/ FetchAdd
           \/ Overflow \/ DrainPoll \/ DrainDeadline \/ DrainEnds
  BY <1>2, <1>k DEF RequestShutdown, TestShutdown, AcceptNothing, AcceptFails, FetchAdd,
     Overflow, DrainPoll, DrainDeadline, DrainEnds, connVars
<1>3. ASSUME NEW c \in Conns, Connect(c) \/ PeerCloses(c) PROVE RequestInv'
  <2>1. CASE PeerCloses(c)
    BY <2>1, <1>k DEF PeerCloses
  <2>2. CASE Connect(c)
    <3>1. Within(c)'
      BY <2>2, <1>t, <1>w DEF Connect, TypeOK, Within, Running, Reading
    <3>2. /\ conn' = [conn EXCEPT ![c] = "backlog"]
          /\ req' = [req EXCEPT ![c] = req[c]]
          /\ requests' = [requests EXCEPT ![c] = requests[c]]
          /\ told' = [told EXCEPT ![c] = told[c]]
      BY <2>2, <1>t DEF Connect, TypeOK
    <3> QED
      BY <3>1, <3>2, <1>m
  <2> QED
    BY <1>3, <2>1, <2>2
<1>4. CASE Accept
  <2>1. PICK c \in Conns : c = Head(backlog) /\ conn[c] = "backlog"
    <3>1. backlog \in Seq(Conns) /\ backlog # <<>>
      BY <1>4, <1>t DEF Accept, TypeOK
    <3>2. Head(backlog) \in Conns /\ Head(backlog) = backlog[1] /\ 1 \in 1 .. Len(backlog)
      BY <3>1
    <3> QED
      BY <3>2 DEF PoolInv, QueueInv
  <2>2. Within(c)'
    BY <1>4, <2>1, <1>t, <1>w DEF Accept, TypeOK, Within, Running, Reading
  <2>3. /\ conn' = [conn EXCEPT ![c] = "held"]
        /\ req' = [req EXCEPT ![c] = req[c]]
        /\ requests' = [requests EXCEPT ![c] = requests[c]]
        /\ told' = [told EXCEPT ![c] = told[c]]
    BY <1>4, <2>1, <1>t DEF Accept, TypeOK
  <2> QED
    BY <2>2, <2>3, <1>m
<1>r. ASSUME NEW c \in Conns, Release(c) PROVE RequestInv'
  <2>1. Within(c)'
    BY <1>r, <1>t DEF Release, TypeOK, Within, Running, Reading
  <2> QED
    BY <1>r, <2>1, <1>m DEF Release
<1>5. CASE Refuse \/ SpawnPanics
  BY <1>5, <1>r, <1>t DEF Refuse, SpawnPanics, TypeOK
<1>6. CASE Spawn
  <2>1. PICK c \in Conns : c = current /\ conn[c] = "held"
    BY <1>6, <1>t DEF Spawn, ServerGoes, TypeOK, PoolInv, ServerInv
  <2>a. requests[c] = 0
    BY <2>1, <1>w DEF Within, Running, Reading
  <2>b. conn'[c] = "line" /\ requests'[c] = 0
    BY <1>6, <2>1, <2>a, <1>t DEF Spawn, TypeOK
  <2>2. Within(c)'
    BY <2>b DEF Within, Running, Reading
  <2>3. /\ conn' = [conn EXCEPT ![c] = "line"]
        /\ req' = [req EXCEPT ![c] = req[c]]
        /\ requests' = [requests EXCEPT ![c] = requests[c]]
        /\ told' = [told EXCEPT ![c] = told[c]]
    BY <1>6, <2>1, <1>t DEF Spawn, TypeOK
  <2> QED
    BY <2>2, <2>3, <1>m
<1>7. ASSUME NEW c \in Conns, DropGuard(c) PROVE RequestInv'
  BY <1>7, <1>r DEF DropGuard
<1>g. ASSUME NEW c \in Conns, NEW to \in Running \ {"respond"}, NEW r,
             HandlerGoes(c, to, r), UNCHANGED <<requests, told>>,
             to = "body" => r.bytes <= MaxHeaderBytes /\ r.count < MaxHeaderCount,
             to \in Reading /\ requests[c] > 0
               => requests[c] < KeepaliveLimit /\ told[c] = "keep-alive"
      PROVE  RequestInv'
  <2>1. Within(c)'
    BY <1>g, <1>t DEF HandlerGoes, TypeOK, Within
  <2>2. /\ conn' = [conn EXCEPT ![c] = to]
        /\ req' = [req EXCEPT ![c] = r]
        /\ requests' = [requests EXCEPT ![c] = requests[c]]
        /\ told' = [told EXCEPT ![c] = told[c]]
    BY <1>g, <1>t DEF HandlerGoes, TypeOK
  <2> QED
    BY <2>1, <2>2, <1>m
<1>x. ASSUME NEW c \in Conns, Return(c), UNCHANGED <<requests, told>> PROVE RequestInv'
  BY <1>x, <1>g DEF Return, Running, Reading
<1>b. ASSUME NEW c \in Conns, BadRequest(c) PROVE RequestInv'
  <2>1. Within(c)'
    BY <1>b, <1>t DEF BadRequest, Return, HandlerGoes, TypeOK, Within, Running, Reading
  <2>2. /\ conn' = [conn EXCEPT ![c] = "exit"]
        /\ req' = [req EXCEPT ![c] = NoProgress]
        /\ requests' = [requests EXCEPT ![c] = requests[c]]
        /\ told' = [told EXCEPT ![c] = "close"]
    BY <1>b, <1>t DEF BadRequest, Return, HandlerGoes, TypeOK
  <2> QED
    BY <2>1, <2>2, <1>m
<1>8. ASSUME NEW c \in Conns, Handler(c) PROVE RequestInv'
  <2>0. /\ Within(c)
        /\ conn[c] \in Reading /\ requests[c] > 0
             => requests[c] < KeepaliveLimit /\ told[c] = "keep-alive"
    BY <1>w DEF Within
  <2>p. req[c] \in Progress
    BY <1>t DEF TypeOK
  <2>1. CASE LineGrows(c)
    BY <2>0, <2>1, <1>g DEF LineGrows, Running, Reading
  <2>2. CASE LineTooLong(c) \/ HeaderOverLimit(c) \/ BadContentLength(c)
    BY <2>2, <1>b DEF LineTooLong, HeaderOverLimit, BadContentLength
  <2>3. CASE RequestLine(c)
    <3>1. HandlerGoes(c, "header", NoProgress) \/ Return(c)
      BY <2>3 DEF RequestLine
    <3> QED
      BY <2>0, <2>3, <3>1, <1>g, <1>x DEF RequestLine, Running, Reading
  <2>4. ASSUME NEW fresh \in {0, 1}, HeaderLine(c, fresh) PROVE RequestInv'
    <3>1. PICK r : HandlerGoes(c, "header", r)
      BY <2>4 DEF HeaderLine
    <3> QED
      BY <2>0, <2>4, <3>1, <1>g DEF HeaderLine, Running, Reading
  <2>5. ASSUME NEW length \in 0 .. MaxBodyBytes, HeadersDone(c, length) PROVE RequestInv'
    <3>1. PICK n \in LineRead(c) : ~OverHeaderLimit(c, n)
      BY <2>5 DEF HeadersDone, HeadersEnd
    <3>2. n \in Nat
      BY <2>p, <3>1 DEF LineRead, Progress
    <3>3. req[c].bytes <= MaxHeaderBytes /\ req[c].count < MaxHeaderCount
      BY <2>p, <3>1, <3>2, LimitsAssumption DEF OverHeaderLimit, HeaderBytes, Progress
    <3>b. /\ [req[c] EXCEPT !.body = length].bytes = req[c].bytes
          /\ [req[c] EXCEPT !.body = length].count = req[c].count
      BY <2>p DEF Progress
    <3>4. PICK r : /\ r = [req[c] EXCEPT !.body = length]
                   /\ r.bytes = req[c].bytes /\ r.count = req[c].count
      BY <3>b, Zenon
    <3> QED
      BY <2>0, <2>5, <3>3, <3>4, <1>g DEF HeadersDone, HeadersEnd, Running, Reading
  <2>6. CASE BodyArrives(c)
    <3>1. req[c].bytes <= MaxHeaderBytes /\ req[c].count < MaxHeaderCount
      BY <2>0, <2>6 DEF BodyArrives, Within
    <3>b. /\ [req[c] EXCEPT !.body = @ - 1].bytes = req[c].bytes
          /\ [req[c] EXCEPT !.body = @ - 1].count = req[c].count
      BY <2>p DEF Progress
    <3>2. PICK r : /\ r = [req[c] EXCEPT !.body = @ - 1]
                   /\ r.bytes = req[c].bytes /\ r.count = req[c].count
      BY <3>b, Zenon
    <3> QED
      BY <2>0, <2>6, <3>1, <3>2, <1>g DEF BodyArrives, Running, Reading
  <2>7. CASE ReadFails(c) \/ RoutePanics(c) \/ WriteFails(c)
    BY <2>7, <1>x DEF ReadFails, RoutePanics, WriteFails
  <2>8. ASSUME NEW client_close \in BOOLEAN, Route(c, client_close) PROVE RequestInv'
    <3>1. PICK h \in {"keep-alive", "close"} :
            /\ told' = [told EXCEPT ![c] = h]
            /\ h = "keep-alive" => requests[c] + 1 < KeepaliveLimit
      <4>1. CASE KeepAlive(client_close, requests[c] + 1)
        BY <2>8, <4>1 DEF Route, KeepAlive
      <4>2. CASE ~KeepAlive(client_close, requests[c] + 1)
        BY <2>8, <4>2 DEF Route
      <4> QED
        BY <4>1, <4>2
    <3>2. /\ conn' = [conn EXCEPT ![c] = "respond"]
          /\ req' = [req EXCEPT ![c] = NoProgress]
          /\ requests' = [requests EXCEPT ![c] = requests[c] + 1]
      BY <2>8 DEF Route, HandlerGoes
    <3>3. Within(c)'
      BY <3>1, <3>2, <1>t DEF Within, TypeOK, Running, Reading
    <3> QED
      BY <3>1, <3>2, <3>3, <1>m
  <2>9. CASE Responded(c)
    <3>1. CASE told[c] = "keep-alive"
      BY <2>0, <2>9, <3>1, <1>g DEF Responded, Within, Running, Reading
    <3>2. CASE told[c] # "keep-alive"
      BY <2>9, <3>2, <1>x DEF Responded
    <3> QED
      BY <3>1, <3>2
  <2> QED
    BY <1>7, <1>8, <2>1, <2>2, <2>3, <2>4, <2>5, <2>6, <2>7, <2>8, <2>9 DEF Handler
<1> QED
  BY <1>1, <1>2, <1>3, <1>4, <1>5, <1>6, <1>8 DEF Next, Environment, Server, ServerFailure

(* Only requests within the parser limits are routed, and a connection is  *)
(* reused only after a keep-alive response below the request limit.        *)
THEOREM RequestsWithinLimitsAlways == Spec => []RequestsWithinLimits
<1>1. RequestInv => RequestsWithinLimits
  BY DEF RequestInv
<1> QED
  BY <1>1, RequestInit, RequestStep, PoolInvariant, PTL DEF Spec
-----------------------------------------------------------------------------
(* The refinement: a connection put back in front of the queue. *)
LEMMA FrontOfQueue ==
    ASSUME NEW x \in Conns, NEW s \in Seq(Conns)
    PROVE  /\ <<x>> \o s # <<>>
           /\ Head(<<x>> \o s) = x /\ Tail(<<x>> \o s) = s
           /\ \A c \in Conns : Append(<<x>> \o s, c) = <<x>> \o Append(s, c)
           /\ \A i \in 1 .. Len(<<x>> \o s) :
                  (<<x>> \o s)[i] = x \/ \E j \in 1 .. Len(s) : (<<x>> \o s)[i] = s[j]
OBVIOUS

LEMMA BackInFront ==
    ASSUME NEW s \in Seq(Conns), s # <<>>
    PROVE  Head(s) \in Conns /\ Tail(s) \in Seq(Conns) /\ <<Head(s)>> \o Tail(s) = s
OBVIOUS

LEMMA SameCardinality == \A S : Pool!Cardinality(S) = Cardinality(S)
BY DEF Pool!Cardinality, Cardinality

LEMMA PoolRefinement == PoolInv /\ [Next]_vars => [Pool!Next]_(Pool!poolVars)
<1> SUFFICES ASSUME PoolInv, [Next]_vars
             PROVE  Pool!Next \/ UNCHANGED Pool!poolVars
  OBVIOUS
<1>t. TypeOK /\ QueueInv /\ ServerInv /\ ActiveIsExact
  BY DEF PoolInv
<1>n. /\ Cardinality(Handlers) \in Nat /\ MaxConns \in Nat \ {0} /\ active \in Nat
      /\ backlog \in Seq(Conns) /\ current \in Conns
  BY <1>t, HandlersFinite, LimitsAssumption DEF TypeOK
<1>k. ASSUME UNCHANGED <<Waiting, Handlers, Refused, shutdown, Phase>>
      PROVE  UNCHANGED Pool!poolVars
  BY <1>k DEF Pool!poolVars
<1>1. CASE UNCHANGED vars
  BY <1>1, <1>k DEF vars, serverVars, connVars, Waiting, Refused, Phase, Handlers
<1>2. CASE RequestShutdown
  <2>1. UNCHANGED <<Waiting, Handlers, Refused, Phase>>
    BY <1>2 DEF RequestShutdown, connVars, Waiting, Refused, Phase, Handlers
  <2>2. Pool!Ask
    BY <1>2, <2>1 DEF RequestShutdown, Pool!Ask
  <2> QED
    BY <2>2 DEF Pool!Next
<1>3. ASSUME NEW c \in Conns, Connect(c) PROVE Pool!Next
  <2>1. /\ conn[c] = "away" /\ conn' = [conn EXCEPT ![c] = "backlog"]
        /\ backlog' = Append(backlog, c) /\ server # "returned"
        /\ UNCHANGED <<shutdown, server, current, outcome>>
    BY <1>3 DEF Connect, serverVars
  <2>2. Handlers' = Handlers /\ c \notin Handlers
    BY <1>t, <2>1, HandlersSame DEF Running, Reading, Handlers
  <2>3. Refused' = Refused /\ c \notin Refused
    BY <1>t, <2>1 DEF Refused, ServerInv
  <2>4. Phase' = Phase /\ Phase \in {"serving", "draining"}
    BY <1>t, <2>1 DEF Phase, ServerInv
  <2>5. Waiting' = Append(Waiting, c)
    BY <1>n, <2>1, FrontOfQueue DEF Waiting
  <2>6. \A i \in 1 .. Len(Waiting) : Waiting[i] # c
    <3>1. \A j \in 1 .. Len(backlog) : backlog[j] # c
      BY <1>t, <2>1 DEF QueueInv
    <3>2. CASE server \in {"count", "spawn"}
      <4>1. current # c /\ Waiting = <<current>> \o backlog
        BY <1>t, <2>1, <3>2 DEF ServerInv, Waiting
      <4> QED
        BY <1>n, <3>1, <4>1, FrontOfQueue
    <3>3. CASE server \notin {"count", "spawn"}
      BY <3>1, <3>3 DEF Waiting
    <3> QED
      BY <3>2, <3>3
  <2>7. Pool!Arrive(c)
    BY <2>1, <2>2, <2>3, <2>4, <2>5, <2>6 DEF Pool!Arrive, Pool!Away
  <2> QED
    BY <2>7 DEF Pool!Next
<1>4. ASSUME NEW c \in Conns, PeerCloses(c) PROVE UNCHANGED Pool!poolVars
  BY <1>4, <1>k DEF PeerCloses, serverVars, Waiting, Refused, Phase, Handlers
<1>5. CASE TestShutdown
  <2>1. UNCHANGED <<Waiting, Handlers, Refused, shutdown>> /\ Refused = {}
    BY <1>5 DEF TestShutdown, connVars, Waiting, Refused, Handlers
  <2>2. outcome = "none" /\ outcome' = "none"
    BY <1>t, <1>5 DEF TestShutdown, ServerInv
  <2>3. CASE ~shutdown
    <3>1. Phase' = Phase
      BY <1>5, <2>2, <2>3 DEF TestShutdown, Phase
    <3> QED
      BY <2>1, <3>1, <1>k
  <2>4. CASE shutdown
    <3>1. Phase = "serving" /\ Phase' = "draining"
      BY <1>5, <2>2, <2>4 DEF TestShutdown, Phase
    <3>2. Pool!Drain
      BY <2>1, <2>4, <3>1 DEF Pool!Drain
    <3> QED
      BY <3>2 DEF Pool!Next
  <2> QED
    BY <2>3, <2>4
<1>6. CASE Accept
  <2>1. /\ backlog # <<>> /\ server = "accept" /\ server' = "count"
        /\ current' = Head(backlog) /\ backlog' = Tail(backlog)
        /\ UNCHANGED <<shutdown, outcome>>
    BY <1>6 DEF Accept, ServerGoes
  <2>2. Waiting' = Waiting
    BY <1>n, <2>1, BackInFront DEF Waiting
  <2>3. Handlers' = Handlers
    <3>1. PICK c \in Conns : c = Head(backlog) /\ c = backlog[1]
      BY <1>n, <2>1
    <3>2. conn[c] = "backlog"
      BY <1>t, <1>n, <2>1, <3>1 DEF QueueInv
    <3>3. conn' = [conn EXCEPT ![c] = "held"]
      BY <1>6, <3>1 DEF Accept
    <3> QED
      BY <1>t, <3>2, <3>3, HandlersSame DEF Running, Reading
  <2>4. Refused' = Refused /\ Phase' = Phase
    BY <2>1 DEF Refused, Phase
  <2> QED
    BY <2>1, <2>2, <2>3, <2>4, <1>k
<1>7. CASE AcceptNothing
  BY <1>7, <1>k DEF AcceptNothing, ServerGoes, connVars, Waiting, Refused, Phase, Handlers
<1>8. CASE AcceptFails
  <2>1. UNCHANGED <<Waiting, Handlers, Refused, shutdown>>
    BY <1>8 DEF AcceptFails, ServerGoes, connVars, Waiting, Refused, Handlers
  <2>2. Phase = "serving" /\ Phase' = "accept_error"
    BY <1>t, <1>8 DEF AcceptFails, ServerGoes, ServerInv, Phase
  <2>3. Pool!AcceptError
    BY <2>1, <2>2 DEF Pool!AcceptError
  <2> QED
    BY <2>3 DEF Pool!Next
<1>9. CASE FetchAdd
  <2>1. /\ server = "count" /\ outcome = "none" /\ Handlers' = Handlers
        /\ UNCHANGED <<shutdown, current, outcome, backlog>>
    BY <1>t, <1>9 DEF FetchAdd, ServerGoes, ServerInv, connVars, Handlers
  <2>2. active = Cardinality(Handlers)
    BY <1>t, <1>n, <2>1 DEF ActiveIsExact, CountedByServer
  <2>3. CASE active < MaxConns
    <3>1. server' = "spawn"
      BY <1>n, <1>9, <2>3 DEF FetchAdd, ServerGoes
    <3>2. Waiting' = Waiting /\ Refused' = Refused /\ Phase' = Phase
      BY <2>1, <3>1 DEF Waiting, Refused, Phase
    <3> QED
      BY <2>1, <3>2, <1>k
  <2>4. CASE active >= MaxConns
    <3>1. server' = "overflow"
      BY <1>9, <2>4 DEF FetchAdd, ServerGoes
    <3>2. /\ Waiting = <<current>> \o backlog /\ Waiting' = backlog
          /\ Refused = {} /\ Refused' = {current}
          /\ Phase = "serving" /\ Phase' = "serving"
      BY <2>1, <3>1 DEF Waiting, Refused, Phase
    <3>3. /\ Waiting # <<>> /\ Waiting' = Tail(Waiting)
          /\ Refused' = Refused \cup {Head(Waiting)}
      BY <1>n, <3>2, FrontOfQueue
    <3>4. Pool!Cardinality(Handlers) >= MaxConns
      BY <2>2, <2>4, SameCardinality
    <3>5. Pool!Refuse
      BY <2>1, <3>2, <3>3, <3>4 DEF Pool!Refuse
    <3> QED
      BY <3>5 DEF Pool!Next
  <2> QED
    BY <1>n, <2>3, <2>4
<1>10. CASE Overflow
  BY <1>10, <1>k DEF Overflow, ServerGoes, connVars, Waiting, Refused, Phase, Handlers
<1>11. CASE Refuse
  <2>1. /\ server = "refuse" /\ server' = "test" /\ conn[current] = "held"
        /\ conn' = [conn EXCEPT ![current] = "away"]
        /\ UNCHANGED <<shutdown, current, outcome, backlog>>
    BY <1>t, <1>11 DEF Refuse, Release, ServerGoes, ServerInv
  <2>2. Handlers' = Handlers
    BY <1>t, <1>n, <2>1, HandlersSame DEF Running, Reading
  <2>3. Waiting' = Waiting /\ Phase' = Phase /\ Refused = {current} /\ Refused' = {}
    BY <2>1 DEF Waiting, Phase, Refused
  <2>4. Pool!TurnAway(current)
    BY <2>1, <2>2, <2>3 DEF Pool!TurnAway
  <2> QED
    BY <1>n, <2>4 DEF Pool!Next
<1>12. CASE Spawn
  <2>1. /\ server = "spawn" /\ server' = "test" /\ conn[current] = "held"
        /\ conn' = [conn EXCEPT ![current] = "line"] /\ outcome = "none"
        /\ Cardinality(Handlers) < MaxConns
        /\ UNCHANGED <<shutdown, current, outcome, backlog>>
    BY <1>t, <1>12 DEF Spawn, ServerGoes, ServerInv
  <2>2. Handlers' = Handlers \cup {current}
    BY <1>t, <1>n, <2>1 DEF TypeOK, Handlers, Running, Reading
  <2>3. /\ Waiting = <<current>> \o backlog /\ Waiting' = backlog
        /\ Phase = "serving" /\ Phase' = "serving" /\ Refused' = Refused
    BY <2>1 DEF Waiting, Phase, Refused
  <2>4. Waiting # <<>> /\ Waiting' = Tail(Waiting) /\ Head(Waiting) = current
    BY <1>n, <2>3, FrontOfQueue
  <2>5. Pool!Admit
    BY <2>1, <2>2, <2>3, <2>4, SameCardinality DEF Pool!Admit
  <2> QED
    BY <2>5 DEF Pool!Next
<1>13. CASE SpawnPanics
  <2>1. /\ server = "spawn" /\ server' = "returned" /\ conn[current] = "held"
        /\ conn' = [conn EXCEPT ![current] = "away"]
        /\ outcome = "none" /\ outcome' = "panicked"
        /\ Cardinality(Handlers) < MaxConns
        /\ UNCHANGED <<shutdown, current, backlog>>
    BY <1>t, <1>13 DEF SpawnPanics, Release, ServerGoes, ServerInv
  <2>2. Handlers' = Handlers
    BY <1>t, <1>n, <2>1, HandlersSame DEF Running, Reading
  <2>3. /\ Waiting = <<current>> \o backlog /\ Waiting' = backlog
        /\ Phase = "serving" /\ Phase' = "panicked" /\ Refused' = Refused
    BY <2>1 DEF Waiting, Phase, Refused
  <2>4. Waiting # <<>> /\ Waiting' = Tail(Waiting)
    BY <1>n, <2>3, FrontOfQueue
  <2>5. Pool!Panic
    BY <2>1, <2>2, <2>3, <2>4, SameCardinality DEF Pool!Panic
  <2> QED
    BY <2>5 DEF Pool!Next
<1>14. CASE DrainPoll \/ DrainDeadline
  BY <1>14, <1>k DEF DrainPoll, DrainDeadline, ServerGoes, connVars, Waiting, Refused,
                     Phase, Handlers
<1>15. CASE DrainEnds
  <2>1. /\ server = "drained" /\ server' = "returned" /\ outcome = "none"
        /\ outcome' = IF active > 0 THEN "drain_timeout" ELSE "complete"
        /\ Handlers' = Handlers /\ UNCHANGED <<shutdown, current, backlog>>
    BY <1>t, <1>15 DEF DrainEnds, ServerGoes, ServerInv, connVars, Handlers
  <2>2. active = 0 <=> Handlers = {}
    <3>1. active = Cardinality(Handlers)
      BY <1>t, <1>n, <2>1 DEF ActiveIsExact, CountedByServer
    <3> QED
      BY <3>1, HandlersFinite, FS_EmptySet
  <2>3. outcome' = IF Handlers = {} THEN "complete" ELSE "drain_timeout"
    BY <1>n, <2>1, <2>2
  <2>4. /\ Phase = "draining" /\ Phase' = outcome'
        /\ Waiting' = Waiting /\ Refused' = Refused
    BY <2>1, <2>3 DEF Phase, Waiting, Refused
  <2>5. Pool!Stop
    BY <2>1, <2>3, <2>4 DEF Pool!Stop
  <2> QED
    BY <2>5 DEF Pool!Next
<1>16. ASSUME NEW c \in Conns, HandlerMove(c) PROVE UNCHANGED Pool!poolVars
  <2>1. PICK to \in Running : conn' = [conn EXCEPT ![c] = to]
    BY <1>16 DEF HandlerMove
  <2>2. Handlers' = Handlers
    BY <1>t, <1>16, <2>1, HandlersSame DEF HandlerMove
  <2>3. UNCHANGED <<shutdown, server, current, outcome, backlog>>
    BY <1>16 DEF HandlerMove, HandlerFrame, serverVars
  <2> QED
    BY <2>2, <2>3, <1>k DEF Waiting, Refused, Phase
<1>17. ASSUME NEW c \in Conns, DropGuard(c) PROVE Pool!Next
  <2>1. /\ conn[c] = "exit" /\ conn' = [conn EXCEPT ![c] = "away"]
        /\ UNCHANGED <<shutdown, server, current, outcome, backlog>>
    BY <1>17 DEF DropGuard, Release, serverVars
  <2>2. c \in Handlers /\ Handlers' = Handlers \ {c}
    BY <1>t, <2>1 DEF TypeOK, Handlers, Running, Reading
  <2>3. Pool!Leave(c)
    BY <2>1, <2>2 DEF Pool!Leave, Waiting, Refused, Phase
  <2> QED
    BY <2>3 DEF Pool!Next
<1> QED
  BY <1>t, <1>1, <1>2, <1>3, <1>4, <1>5, <1>6, <1>7, <1>8, <1>9, <1>10, <1>11, <1>12,
     <1>13, <1>14, <1>15, <1>16, <1>17, HandlerMoves
  DEF Next, Environment, Server, ServerFailure

(* The accept loop, the shared counter and the handler threads implement   *)
(* the pool (server.rs:37-145): clients are disposed of in order, served   *)
(* or refused by the number of handlers at that moment, nobody is taken in *)
(* once the drain has begun, and the report tells whether a handler was    *)
(* left.                                                                   *)
THEOREM ImplementsPoolAlways == Spec => ImplementsPool
<1>1. Init => Pool!Init
  BY DEF Init, Pool!Init, Waiting, Handlers, Refused, Phase, Running, Reading
<1> QED
  BY <1>1, PoolRefinement, PoolInvariant, PTL DEF Spec, ImplementsPool, Pool!Spec
=============================================================================
