--------------------------- MODULE ConnectionPool ---------------------------
(***************************************************************************)
(* What the HTTP server promises the clients that connect to it, with no   *)
(* accept loop, no atomic counter and no parser: a waiting queue in front  *)
(* of a pool of at most MaxConns places.  The head of the queue is served  *)
(* if a place is free at that moment and refused if none is.  Once asked   *)
(* to stop, the pool takes nobody else in, and what it reports in the end  *)
(* says whether somebody was still being served.  HttpServer implements    *)
(* this.                                                                   *)
(***************************************************************************)
EXTENDS Naturals, Sequences, FiniteSets

CONSTANTS Conns,     \* the clients' connections
          MaxConns   \* the number of places

VARIABLES queue,     \* the connections waiting, first come first
          serving,   \* the connections being served
          refused,   \* the connections being told that the pool is full
          asked,     \* the operator has asked the pool to stop
          phase      \* "serving", "draining", or how the pool ended

poolVars == <<queue, serving, refused, asked, phase>>

Init ==
    /\ queue = <<>>
    /\ serving = {}
    /\ refused = {}
    /\ asked = FALSE
    /\ phase = "serving"

Away(c) ==
    /\ \A i \in 1 .. Len(queue) : queue[i] # c
    /\ c \notin serving /\ c \notin refused

Arrive(c) ==
    /\ Away(c) /\ phase \in {"serving", "draining"}
    /\ queue' = Append(queue, c)
    /\ UNCHANGED <<serving, refused, asked, phase>>

Admit ==
    /\ phase = "serving" /\ queue # <<>>
    /\ Cardinality(serving) < MaxConns
    /\ serving' = serving \cup {Head(queue)}
    /\ queue' = Tail(queue)
    /\ UNCHANGED <<refused, asked, phase>>

Refuse ==
    /\ phase = "serving" /\ queue # <<>>
    /\ Cardinality(serving) >= MaxConns
    /\ refused' = refused \cup {Head(queue)}
    /\ queue' = Tail(queue)
    /\ UNCHANGED <<serving, asked, phase>>

TurnAway(c) ==
    /\ c \in refused
    /\ refused' = refused \ {c}
    /\ UNCHANGED <<queue, serving, asked, phase>>

Leave(c) ==
    /\ c \in serving
    /\ serving' = serving \ {c}
    /\ UNCHANGED <<queue, refused, asked, phase>>

Ask ==
    /\ ~asked
    /\ asked' = TRUE
    /\ UNCHANGED <<queue, serving, refused, phase>>

Drain ==
    /\ phase = "serving" /\ asked /\ refused = {}
    /\ phase' = "draining"
    /\ UNCHANGED <<queue, serving, refused, asked>>

Stop ==
    /\ phase = "draining"
    /\ phase' = IF serving = {} THEN "complete" ELSE "drain_timeout"
    /\ UNCHANGED <<queue, serving, refused, asked>>

(* The listener fails, or there is no thread for the head of the queue. *)
AcceptError ==
    /\ phase = "serving"
    /\ phase' = "accept_error"
    /\ UNCHANGED <<queue, serving, refused, asked>>

Panic ==
    /\ phase = "serving" /\ queue # <<>>
    /\ Cardinality(serving) < MaxConns
    /\ phase' = "panicked"
    /\ queue' = Tail(queue)
    /\ UNCHANGED <<serving, refused, asked>>

Next ==
    \/ Admit \/ Refuse \/ Ask \/ Drain \/ Stop \/ AcceptError \/ Panic
    \/ \E c \in Conns : Arrive(c) \/ TurnAway(c) \/ Leave(c)

Spec == Init /\ [][Next]_poolVars
=============================================================================
