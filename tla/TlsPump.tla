------------------------------ MODULE TlsPump ------------------------------
(***************************************************************************)
(* src/tls.rs: proxy_connection, the single-threaded loop that moves bytes *)
(* between a TLS client and the plaintext HTTP backend over non-blocking   *)
(* sockets, with rustls between the loop and the client's socket.          *)
(*                                                                         *)
(* The loop body does the same twice: read from one end (side), write what *)
(* was read to the other end, and pass an end of file on.  Only writes to  *)
(* the client go through rustls and are flushed.  Bytes are numbered by    *)
(* their sender, so a lost, repeated or reordered byte is visible.  Idle   *)
(* sleeps are left out; interrupted calls behave like blocked ones.        *)
(***************************************************************************)
EXTENDS Naturals, Sequences

CONSTANTS BufBytes,  \* BUF_BYTES, the most one read returns
          SockRoom,  \* bytes a socket accepts before it would block
          MaxSend    \* bound: bytes an end sends

ASSUME PumpAssumption == {BufBytes, SockRoom, MaxSend} \subseteq Nat \ {0}

VARIABLES step,      \* where the loop is
          side,      \* the end this half of the loop reads from
          pend,      \* c2b and b2c: bytes read from an end, not yet written
          eof,       \* client_eof, backend_eof
          wrClosed,  \* client_wr_closed, backend_wr_closed
          tls,       \* bytes rustls has taken and not yet put on the socket
          shaken,    \* the TLS handshake is complete
          peer,      \* what each end has done with its socket
          sent,      \* number of bytes each end has sent
          wire,      \* bytes from each end that the loop has not read
          room,      \* bytes the socket towards each end still accepts
          got        \* bytes put on the socket towards each end

loopVars == <<step, side, pend, eof, wrClosed>>
netVars == <<shaken, peer, sent, wire>>
outVars == <<tls, room, got>>
vars == <<loopVars, netVars, outVars>>

Ends == {"client", "backend"}
Other(e) == IF e = "client" THEN "backend" ELSE "client"
Steps == {"connect", "read", "write", "flush", "shut", "notify", "check", "ended"}
Peers == {"open", "finished", "closed"}
MinOf(a, b) == IF a <= b THEN a ELSE b
Drop(s, n) == SubSeq(s, n + 1, Len(s))

Init ==
    /\ step = "connect" /\ side = "client"
    /\ pend = [e \in Ends |-> <<>>]
    /\ eof = [e \in Ends |-> FALSE]
    /\ wrClosed = [e \in Ends |-> FALSE]
    /\ tls = <<>>
    /\ shaken = FALSE
    /\ peer = [e \in Ends |-> "open"]
    /\ sent = [e \in Ends |-> 0]
    /\ wire = [e \in Ends |-> <<>>]
    /\ room = [e \in Ends |-> SockRoom]
    /\ got = [e \in Ends |-> <<>>]

-----------------------------------------------------------------------------
(* The two ends and the kernel. *)
Handshake ==
    /\ peer["client"] = "open" /\ ~shaken
    /\ shaken' = TRUE
    /\ UNCHANGED <<loopVars, peer, sent, wire, outVars>>

PeerSends(e) ==
    /\ peer[e] = "open" /\ sent[e] < MaxSend
    /\ e = "client" => shaken
    /\ sent' = [sent EXCEPT ![e] = @ + 1]
    /\ wire' = [wire EXCEPT ![e] = Append(@, sent[e] + 1)]
    /\ UNCHANGED <<loopVars, shaken, peer, outVars>>

PeerReads(e) ==
    /\ peer[e] # "closed" /\ room[e] < SockRoom
    /\ room' = [room EXCEPT ![e] = SockRoom]
    /\ UNCHANGED <<loopVars, netVars, tls, got>>

(* The end shuts down its sending side and goes on reading. *)
PeerFinishes(e) ==
    /\ peer[e] = "open"
    /\ peer' = [peer EXCEPT ![e] = "finished"]
    /\ UNCHANGED <<loopVars, shaken, sent, wire, outVars>>

(* The end closes its socket, or dies: a reset may overtake what it sent.  *)
PeerCloses(e) ==
    /\ peer[e] # "closed"
    /\ peer' = [peer EXCEPT ![e] = "closed"]
    /\ wire' \in {wire, [wire EXCEPT ![e] = <<>>]}
    /\ UNCHANGED <<loopVars, shaken, sent, outVars>>

-----------------------------------------------------------------------------
(* The loop. *)
Goes(from, to) == step = from /\ step' = to

Connect ==
    /\ \E to \in {"read", "ended"} : Goes("connect", to)
    /\ UNCHANGED <<side, pend, eof, wrClosed, netVars, outVars>>

ReadSkipped ==
    /\ pend[side] # <<>> \/ eof[side]
    /\ Goes("read", "write")
    /\ UNCHANGED <<side, pend, eof, wrClosed, netVars, outVars>>

Reads == step = "read" /\ pend[side] = <<>> /\ ~eof[side]

ReadData ==
    /\ Reads /\ Goes("read", "write")
    /\ \E n \in 1 .. MinOf(BufBytes, Len(wire[side])) :
           /\ pend' = [pend EXCEPT ![side] = SubSeq(wire[side], 1, n)]
           /\ wire' = [wire EXCEPT ![side] = Drop(@, n)]
    /\ UNCHANGED <<side, eof, wrClosed, shaken, peer, sent, outVars>>

(* Mutant: a peer's close is noticed before its last bytes are. *)
ReadEof_Early ==
    /\ Reads /\ Goes("read", "write")
    /\ peer[side] # "open"
    /\ eof' = [eof EXCEPT ![side] = TRUE]
    /\ UNCHANGED <<side, pend, wrClosed, netVars, outVars>>

(* Ok(0), or one of the errors of peer_closed. *)
ReadEof ==
    /\ Reads /\ Goes("read", "write")
    /\ wire[side] = <<>> /\ peer[side] # "open"
    /\ eof' = [eof EXCEPT ![side] = TRUE]
    /\ UNCHANGED <<side, pend, wrClosed, netVars, outVars>>

ReadBlocks ==
    /\ Reads /\ Goes("read", "write")
    /\ wire[side] = <<>> /\ peer[side] = "open"
    /\ UNCHANGED <<side, pend, eof, wrClosed, netVars, outVars>>

WriteSkipped ==
    /\ pend[side] = <<>>
    /\ Goes("write", "shut")
    /\ UNCHANGED <<side, pend, eof, wrClosed, netVars, outVars>>

Writes(e) == step = "write" /\ side = Other(e) /\ pend[side] # <<>>

Advance(buf, n) == Drop(buf, n)

WroteBackend ==
    /\ Writes("backend") /\ Goes("write", "shut")
    /\ \E n \in 1 .. MinOf(room["backend"], Len(pend[side])) :
           /\ got' = [got EXCEPT !["backend"] = @ \o SubSeq(pend[side], 1, n)]
           /\ room' = [room EXCEPT !["backend"] = @ - n]
           /\ pend' = [pend EXCEPT ![side] = Advance(@, n)]
    /\ UNCHANGED <<side, eof, wrClosed, netVars, tls>>

(* rustls takes plaintext once the handshake is over, socket or no socket. *)
WroteClient ==
    /\ Writes("client") /\ Goes("write", "flush")
    /\ shaken
    /\ \E n \in 1 .. Len(pend[side]) :
           /\ tls' = tls \o SubSeq(pend[side], 1, n)
           /\ pend' = [pend EXCEPT ![side] = Advance(@, n)]
    /\ UNCHANGED <<side, eof, wrClosed, netVars, room, got>>

WriteBlocks ==
    /\ \/ /\ Writes("backend") /\ Goes("write", "shut")
          /\ room["backend"] = 0 /\ peer["backend"] # "closed"
       \/ /\ Writes("client") /\ Goes("write", "flush")
          /\ ~shaken /\ peer["client"] = "open"
    /\ UNCHANGED <<side, pend, eof, wrClosed, netVars, outVars>>

(* An end that has closed its socket, or gave up during the handshake. *)
Gone(e) == peer[e] = "closed" \/ (e = "client" /\ ~shaken /\ peer[e] # "open")

(* The write fails with an error of peer_closed: the bytes stay pending.   *)
(* Towards the client it is rustls' earlier output (complete_prior_io)     *)
(* that fails: handshake messages, or records left by a read.              *)
WriteFails ==
    /\ \E e \in Ends : /\ Writes(e) /\ Gone(e)
                       /\ eof' = [eof EXCEPT ![e] = TRUE]
    /\ Goes("write", "shut")
    /\ UNCHANGED <<side, pend, wrClosed, netVars, outVars>>

(* flush_spin: repeats until rustls has nothing left to send. *)
FlushSome ==
    /\ step = "flush" /\ shaken
    /\ \E n \in 1 .. MinOf(room["client"], Len(tls)) :
           /\ got' = [got EXCEPT !["client"] = @ \o SubSeq(tls, 1, n)]
           /\ room' = [room EXCEPT !["client"] = @ - n]
           /\ tls' = Drop(tls, n)
    /\ UNCHANGED <<loopVars, netVars>>

FlushDone ==
    /\ Goes("flush", "shut") /\ shaken /\ tls = <<>>
    /\ UNCHANGED <<side, pend, eof, wrClosed, netVars, outVars>>

(* Mutant: flush_spin retries whatever the error is. *)
Fails_FlushRetries ==
    /\ \/ Reads /\ Goes("read", "ended")
       \/ \E e \in Ends : Writes(e) /\ Goes("write", "ended")
    /\ UNCHANGED <<side, pend, eof, wrClosed, netVars, outVars>>

(* Every other error returns, dropping both sockets; so does a flush that  *)
(* finds the client gone.                                                  *)
Fails ==
    /\ \/ Goes("flush", "ended") /\ Gone("client")
       \/ Reads /\ Goes("read", "ended")
       \/ \E e \in Ends : Writes(e) /\ Goes("write", "ended")
    /\ UNCHANGED <<side, pend, eof, wrClosed, netVars, outVars>>

(* Mutant: an end of file is passed on only when both ends are done. *)
MustShut_AfterBoth ==
    (\A e \in Ends : eof[e]) /\ pend[side] = <<>> /\ ~wrClosed[Other(side)]

(* Mutant: an end of file overtakes the bytes still pending before it. *)
MustShut_Overtakes == eof[side] /\ ~wrClosed[Other(side)]

MustShut == eof[side] /\ pend[side] = <<>> /\ ~wrClosed[Other(side)]

LeavesShut ==
    /\ step' = IF side = "client" THEN "read" ELSE "check"
    /\ side' = "backend"

ShutSkipped ==
    /\ step = "shut" /\ ~MustShut
    /\ LeavesShut
    /\ UNCHANGED <<pend, eof, wrClosed, netVars, outVars>>

ShutBackend ==
    /\ step = "shut" /\ side = "client" /\ MustShut
    /\ LeavesShut
    /\ wrClosed' = [wrClosed EXCEPT !["backend"] = TRUE]
    /\ UNCHANGED <<pend, eof, netVars, outVars>>

(* send_close_notify, and another flush_spin whose errors are ignored. *)
ShutClient ==
    /\ side = "backend" /\ MustShut
    /\ Goes("shut", "notify")
    /\ UNCHANGED <<side, pend, eof, wrClosed, netVars, outVars>>

NotifyDone ==
    /\ step = "notify"
    /\ Gone("client") \/ (shaken /\ room["client"] > 0)
    /\ LeavesShut
    /\ wrClosed' = [wrClosed EXCEPT !["client"] = TRUE]
    /\ UNCHANGED <<pend, eof, netVars, outVars>>

(* Mutant: one end of file ends the whole connection. *)
Finished_Either == \E e \in Ends : eof[e] /\ pend[e] = <<>>

Finished == \A e \in Ends : eof[e] /\ pend[e] = <<>>

Check ==
    /\ Goes("check", IF Finished THEN "ended" ELSE "read")
    /\ side' = "client"
    /\ UNCHANGED <<pend, eof, wrClosed, netVars, outVars>>

Pump ==
    \/ Connect \/ ReadSkipped \/ ReadData \/ ReadEof \/ ReadBlocks
    \/ WriteSkipped \/ WroteBackend \/ WroteClient \/ WriteBlocks \/ WriteFails
    \/ FlushSome \/ FlushDone \/ Fails
    \/ ShutSkipped \/ ShutBackend \/ ShutClient \/ NotifyDone \/ Check

Environment ==
    \/ Handshake
    \/ \E e \in Ends : PeerSends(e) \/ PeerReads(e) \/ PeerFinishes(e) \/ PeerCloses(e)

Next == Pump \/ Environment
Spec == Init /\ [][Next]_vars
FairSpec == Spec /\ WF_vars(Pump)
-----------------------------------------------------------------------------
Bytes == Seq(Nat)

(* The loop's state keeps its types, and the sockets' room never goes      *)
(* below zero: a write is never longer than the socket accepts.            *)
TypeOK ==
    /\ step \in Steps /\ side \in Ends
    /\ pend \in [Ends -> Bytes]
    /\ eof \in [Ends -> BOOLEAN] /\ wrClosed \in [Ends -> BOOLEAN]
    /\ tls \in Bytes /\ shaken \in BOOLEAN
    /\ peer \in [Ends -> Peers] /\ sent \in [Ends -> 0 .. MaxSend]
    /\ wire \in [Ends -> Bytes]
    /\ room \in [Ends -> 0 .. SockRoom] /\ got \in [Ends -> Bytes]

(* proxy_connection gives each end a prefix of what the other end sent:    *)
(* no byte is lost, repeated or moved by partial reads, partial writes,    *)
(* Pending::advance, rustls' buffer or flush_spin.                         *)
ForwardsInOrder ==
    \A e \in Ends : /\ Len(got[e]) <= sent[Other(e)]
                    /\ \A i \in 1 .. Len(got[e]) : got[e][i] = i

(* proxy_connection implements a pair of one-way byte pipes: through every *)
(* partial read and write, Pending::advance, rustls' buffer, half-close    *)
(* and error, an end is handed the next bytes of the other end, told that  *)
(* no more will come only when that is so, and handed nothing after that.  *)
Pipes == INSTANCE BytePipes WITH told <- wrClosed

ImplementsPipes == Pipes!Spec

(* When the loop tells one end that no more is coming (shutdown(Write), or *)
(* close_notify), that end has been given everything the other sent,       *)
(* unless the other closed its socket outright.                            *)
CloseMeansComplete ==
    \A e \in Ends :
        wrClosed[e] /\ peer[Other(e)] # "closed" => Len(got[e]) = sent[Other(e)]

(* The loop's own exit (tls.rs:263) is taken only after both ends have     *)
(* been told that no more is coming.                                       *)
EndsAfterBothCloses ==
    [][step = "check" /\ step' = "ended" => \A e \in Ends : wrClosed[e]]_vars

(* Bytes that wait for an end whose socket is closed: the write fails again *)
(* on every turn, nothing clears the buffer, and the exit test wants it    *)
(* empty.                                                                  *)
Stuck == \E e \in Ends : pend[Other(e)] # <<>> /\ eof[e] /\ Gone(e)

(* Once both ends have closed their sockets the connection's thread ends,  *)
(* the one exception being bytes left over by a failed write.              *)
EndsWhenPeersClose ==
    (\A e \in Ends : peer[e] = "closed") ~> (step = "ended" \/ Stuck)

(* As long as both ends keep reading, a client that shuts down its sending *)
(* side has that passed on to the backend, which may be waiting for it.    *)
HalfClosePassedOn ==
    (\A e \in Ends : []<>(room[e] > 0)) =>
        (peer["client"] = "finished" ~> (wrClosed["backend"] \/ step = "ended" \/ Stuck))
=============================================================================
