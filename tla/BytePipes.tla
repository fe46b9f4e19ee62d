----------------------------- MODULE BytePipes -----------------------------
(***************************************************************************)
(* What the TLS terminator promises its two ends, with no loop, no buffer, *)
(* no socket and no handshake: a pair of one-way byte pipes.  An end is    *)
(* handed the other end's bytes in the order they were sent, none twice    *)
(* and none left out, and at most once it is told that no more will come:  *)
(* after the other end has stopped sending and everything it sent has been *)
(* handed over, unless that end closed outright and its bytes were lost.   *)
(* Once told, an end is handed nothing more.  TlsPump implements this.     *)
(***************************************************************************)
EXTENDS Naturals, Sequences

VARIABLES peer,  \* peer[e]: "open", "finished" (sends no more) or "closed"
          sent,  \* sent[e]: how many bytes e has sent, numbered from 1
          got,   \* got[e]: the bytes e has been handed
          told   \* told[e]: e knows that no more bytes will come

pipeVars == <<peer, sent, got, told>>

Ends == {"client", "backend"}
Other(e) == IF e = "client" THEN "backend" ELSE "client"

Init ==
    /\ peer = [e \in Ends |-> "open"]
    /\ sent = [e \in Ends |-> 0]
    /\ got = [e \in Ends |-> <<>>]
    /\ told = [e \in Ends |-> FALSE]

Send(e) ==
    /\ peer[e] = "open"
    /\ sent' = [sent EXCEPT ![e] = @ + 1]
    /\ UNCHANGED <<peer, got, told>>

Finish(e) ==
    /\ peer[e] = "open"
    /\ peer' = [peer EXCEPT ![e] = "finished"]
    /\ UNCHANGED <<sent, got, told>>

Close(e) ==
    /\ peer[e] # "closed"
    /\ peer' = [peer EXCEPT ![e] = "closed"]
    /\ UNCHANGED <<sent, got, told>>

(* The next n bytes of the other end. *)
Following(e, n) == [i \in 1 .. n |-> Len(got[e]) + i]

Deliver(e) ==
    /\ ~told[e]
    /\ \E n \in 1 .. (sent[Other(e)] - Len(got[e])) :
           got' = [got EXCEPT ![e] = @ \o Following(e, n)]
    /\ UNCHANGED <<peer, sent, told>>

Tell(e) ==
    /\ ~told[e]
    /\ \/ peer[Other(e)] = "finished" /\ Len(got[e]) = sent[Other(e)]
       \/ peer[Other(e)] = "closed"
    /\ told' = [told EXCEPT ![e] = TRUE]
    /\ UNCHANGED <<peer, sent, got>>

Next == \E e \in Ends :
    Send(e) \/ Finish(e) \/ Close(e) \/ Deliver(e) \/ Tell(e)

Spec == Init /\ [][Next]_pipeVars
=============================================================================
