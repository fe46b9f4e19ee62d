--------------------------- MODULE TlsPumpProofs ---------------------------
(* Proofs about TlsPump, for every buffer and socket size. *)
EXTENDS TlsPump, TLAPS

(* s holds consecutive byte numbers, the first one being k + 1. *)
RunsFrom(s, k) == \A i \in 1 .. Len(s) : s[i] = k + i

(* What rustls holds for an end: only the client's bytes pass through it. *)
Tls(e) == IF e = "client" THEN tls ELSE <<>>

(* The byte counts at which each stage on the way to e begins. *)
AtTls(e) == Len(got[e])
AtPend(e) == AtTls(e) + Len(Tls(e))
AtWire(e) == AtPend(e) + Len(pend[Other(e)])
AtSent(e) == AtWire(e) + Len(wire[Other(e)])

(* Every byte on its way to e is in exactly one stage, in order; what is   *)
(* missing was overtaken by the sender's reset.                            *)
Flow(e) ==
    /\ RunsFrom(got[e], 0)
    /\ RunsFrom(Tls(e), AtTls(e))
    /\ RunsFrom(pend[Other(e)], AtPend(e))
    /\ RunsFrom(wire[Other(e)], AtWire(e))
    /\ AtSent(e) <= sent[Other(e)]
    /\ peer[Other(e)] # "closed" => AtSent(e) = sent[Other(e)]

FlowInv == TypeOK /\ \A e \in Ends : Flow(e)

(* How an end of file travels: it is noticed after the last byte, and      *)
(* passed on when nothing is left of what came before it.                  *)
EofInv ==
    /\ ~shaken => wire["client"] = <<>>
    /\ \A e \in Ends : eof[e] /\ peer[e] # "closed" =>
                           wire[e] = <<>> /\ peer[e] = "finished"
    /\ \A e \in Ends : wrClosed[e] => eof[Other(e)] /\ pend[Other(e)] = <<>>
    /\ tls # <<>> => step \in {"flush", "ended"} /\ ~wrClosed["client"]
    /\ step = "flush" => side = "backend" /\ ~wrClosed["client"]
    /\ step = "notify" => side = "backend" /\ eof["backend"] /\ pend["backend"] = <<>>

(* Where in the loop each end of file has already been passed on. *)
PassedInv ==
    /\ step = "check" => side = "backend"
    /\ step = "check" /\ eof["backend"] /\ pend["backend"] = <<>> => wrClosed["client"]
    /\ side = "backend" /\ step # "ended" /\ eof["client"] /\ pend["client"] = <<>> =>
           wrClosed["backend"] \/ (pend["backend"] # <<>> /\ step \in {"shut", "check"})

LoopInv == FlowInv /\ EofInv /\ PassedInv

-----------------------------------------------------------------------------
(* Sequences: what SubSeq, Drop, Append and \o do to a run of numbers. *)
LEMMA TakeRun ==
    ASSUME NEW s \in Bytes, NEW n \in 1 .. Len(s), NEW k \in Nat, RunsFrom(s, k)
    PROVE  /\ SubSeq(s, 1, n) \in Bytes /\ Len(SubSeq(s, 1, n)) = n
           /\ RunsFrom(SubSeq(s, 1, n), k)
BY DEF Bytes, RunsFrom

LEMMA DropRun ==
    ASSUME NEW s \in Bytes, NEW n \in 1 .. Len(s), NEW k \in Nat, RunsFrom(s, k)
    PROVE  /\ Drop(s, n) \in Bytes /\ Len(Drop(s, n)) = Len(s) - n
           /\ RunsFrom(Drop(s, n), k + n)
BY DEF Bytes, RunsFrom, Drop

LEMMA JoinRuns ==
    ASSUME NEW s \in Bytes, NEW t \in Bytes, NEW k \in Nat,
           RunsFrom(s, k), RunsFrom(t, k + Len(s))
    PROVE  /\ s \o t \in Bytes /\ Len(s \o t) = Len(s) + Len(t)
           /\ RunsFrom(s \o t, k)
BY DEF Bytes, RunsFrom

LEMMA AppendRun ==
    ASSUME NEW s \in Bytes, NEW k \in Nat, RunsFrom(s, k)
    PROVE  /\ Append(s, k + Len(s) + 1) \in Bytes
           /\ Len(Append(s, k + Len(s) + 1)) = Len(s) + 1
           /\ RunsFrom(Append(s, k + Len(s) + 1), k)
BY DEF Bytes, RunsFrom

(* The two parts of a split sequence are sequences. *)
LEMMA SplitTypes ==
    ASSUME NEW s \in Bytes, NEW n \in 1 .. Len(s)
    PROVE  SubSeq(s, 1, n) \in Bytes /\ Drop(s, n) \in Bytes
BY DEF Bytes, Drop

LEMMA LenNat ==
    ASSUME NEW s \in Bytes PROVE Len(s) \in Nat
BY DEF Bytes

LEMMA EmptyRun ==
    ASSUME NEW k \in Nat
    PROVE  <<>> \in Bytes /\ Len(<<>>) = 0 /\ RunsFrom(<<>>, k)
BY DEF Bytes, RunsFrom

-----------------------------------------------------------------------------
LEMMA EndsFacts ==
    ASSUME NEW e \in Ends
    PROVE  /\ Other(e) \in Ends /\ Other(e) # e /\ Other(Other(e)) = e
           /\ \A d \in Ends : d = e \/ d = Other(e)
BY DEF Ends, Other

LEMMA FlowTypes ==
    ASSUME TypeOK, NEW e \in Ends
    PROVE  /\ got[e] \in Bytes /\ Tls(e) \in Bytes /\ tls \in Bytes
           /\ pend[e] \in Bytes /\ pend[Other(e)] \in Bytes
           /\ wire[e] \in Bytes /\ wire[Other(e)] \in Bytes
           /\ sent[e] \in Nat /\ sent[Other(e)] \in Nat
           /\ AtTls(e) \in Nat /\ AtPend(e) \in Nat /\ AtWire(e) \in Nat
           /\ AtSent(e) \in Nat
<1>1. /\ got[e] \in Bytes /\ tls \in Bytes
      /\ pend[e] \in Bytes /\ pend[Other(e)] \in Bytes
      /\ wire[e] \in Bytes /\ wire[Other(e)] \in Bytes
      /\ sent[e] \in Nat /\ sent[Other(e)] \in Nat
  BY EndsFacts, PumpAssumption DEF TypeOK
<1>2. Tls(e) \in Bytes
  BY <1>1, EmptyRun DEF Tls
<1>3. /\ Len(got[e]) \in Nat /\ Len(Tls(e)) \in Nat
      /\ Len(pend[Other(e)]) \in Nat /\ Len(wire[Other(e)]) \in Nat
  BY <1>1, <1>2, LenNat
<1>4. AtTls(e) \in Nat /\ AtPend(e) \in Nat
  BY <1>3 DEF AtTls, AtPend
<1>5. AtWire(e) \in Nat /\ AtSent(e) \in Nat
  BY <1>3, <1>4 DEF AtWire, AtSent
<1>6. QED
  BY <1>1, <1>2, <1>4, <1>5

(* A step that moves no byte towards e leaves that flow alone. *)
LEMMA FlowUntouched ==
    ASSUME NEW e \in Ends, Flow(e),
           got'[e] = got[e], Tls(e)' = Tls(e),
           pend'[Other(e)] = pend[Other(e)], wire'[Other(e)] = wire[Other(e)],
           sent'[Other(e)] = sent[Other(e)],
           peer'[Other(e)] # "closed" => peer[Other(e)] # "closed"
    PROVE  Flow(e)'
BY DEF Flow, AtTls, AtPend, AtWire, AtSent, RunsFrom

LEMMA TypeNext == TypeOK /\ [Next]_vars => TypeOK'
<1> SUFFICES ASSUME TypeOK, [Next]_vars PROVE TypeOK'
  OBVIOUS
<1> USE PumpAssumption
<1>1. CASE UNCHANGED vars
  BY <1>1 DEF TypeOK, vars, loopVars, netVars, outVars
<1>2. CASE Handshake
  BY <1>2 DEF TypeOK, Handshake, loopVars, outVars
<1>3. ASSUME NEW e \in Ends, PeerSends(e) PROVE TypeOK'
  <2>1. Append(wire[e], sent[e] + 1) \in Bytes
    BY DEF TypeOK, Bytes
  <2>2. QED
    BY <1>3, <2>1 DEF TypeOK, PeerSends, loopVars, outVars
<1>4. ASSUME NEW e \in Ends, PeerReads(e) PROVE TypeOK'
  BY <1>4 DEF TypeOK, PeerReads, loopVars, netVars
<1>5. ASSUME NEW e \in Ends, PeerFinishes(e) PROVE TypeOK'
  BY <1>5 DEF TypeOK, PeerFinishes, loopVars, outVars, Peers
<1>6. ASSUME NEW e \in Ends, PeerCloses(e) PROVE TypeOK'
  BY <1>6, EmptyRun DEF TypeOK, PeerCloses, loopVars, outVars, Peers
<1>7. CASE Connect \/ ReadSkipped \/ ReadBlocks \/ WriteSkipped \/ WriteBlocks
           \/ FlushDone \/ Fails \/ ShutSkipped \/ ShutClient \/ Check
  BY <1>7 DEF TypeOK, Connect, ReadSkipped, ReadBlocks, WriteSkipped, WriteBlocks,
              FlushDone, Fails, ShutSkipped, ShutClient, Check, LeavesShut, Goes,
              Steps, Ends, netVars, outVars
<1>8. CASE ReadEof \/ WriteFails
  BY <1>8 DEF TypeOK, ReadEof, WriteFails, Goes, Steps, netVars, outVars
<1>9. CASE ShutBackend \/ NotifyDone
  BY <1>9 DEF TypeOK, ShutBackend, NotifyDone, LeavesShut, Steps, Ends, netVars, outVars
<1>10. CASE ReadData
  <2>1. PICK n \in 1 .. MinOf(BufBytes, Len(wire[side])) :
           /\ pend' = [pend EXCEPT ![side] = SubSeq(wire[side], 1, n)]
           /\ wire' = [wire EXCEPT ![side] = Drop(@, n)]
    BY <1>10 DEF ReadData
  <2>2. wire[side] \in Bytes
    BY DEF TypeOK
  <2>3. SubSeq(wire[side], 1, n) \in Bytes /\ Drop(wire[side], n) \in Bytes
    BY <2>2 DEF Drop, Bytes, MinOf
  <2>4. QED
    BY <1>10, <2>1, <2>3 DEF TypeOK, ReadData, Goes, Steps, outVars
<1>11. CASE WroteBackend
  <2>1. PICK n \in 1 .. MinOf(room["backend"], Len(pend[side])) :
           /\ got' = [got EXCEPT !["backend"] = @ \o SubSeq(pend[side], 1, n)]
           /\ room' = [room EXCEPT !["backend"] = @ - n]
           /\ pend' = [pend EXCEPT ![side] = Advance(@, n)]
    BY <1>11 DEF WroteBackend
  <2>2. pend[side] \in Bytes /\ got["backend"] \in Bytes /\ room["backend"] \in 0 .. SockRoom
    BY DEF TypeOK, Ends
  <2>3. /\ SubSeq(pend[side], 1, n) \in Bytes /\ Advance(pend[side], n) \in Bytes
        /\ room["backend"] - n \in 0 .. SockRoom
    <3>1. n \in 1 .. Len(pend[side]) /\ room["backend"] - n \in 0 .. SockRoom
      BY <2>2, LenNat DEF MinOf
    <3>2. QED
      BY <2>2, <3>1, SplitTypes DEF Advance
  <2>4. got["backend"] \o SubSeq(pend[side], 1, n) \in Bytes
    BY <2>2, <2>3 DEF Bytes
  <2>5. QED
    BY <1>11, <2>1, <2>3, <2>4 DEF TypeOK, WroteBackend, Goes, Steps, netVars
<1>12. CASE WroteClient
  <2>1. PICK n \in 1 .. Len(pend[side]) :
           /\ tls' = tls \o SubSeq(pend[side], 1, n)
           /\ pend' = [pend EXCEPT ![side] = Advance(@, n)]
    BY <1>12 DEF WroteClient
  <2>2. pend[side] \in Bytes /\ tls \in Bytes
    BY DEF TypeOK
  <2>3. SubSeq(pend[side], 1, n) \in Bytes /\ Advance(pend[side], n) \in Bytes
    BY <2>2, SplitTypes DEF Advance
  <2>4. tls \o SubSeq(pend[side], 1, n) \in Bytes
    BY <2>2, <2>3 DEF Bytes
  <2>5. QED
    BY <1>12, <2>1, <2>3, <2>4 DEF TypeOK, WroteClient, Goes, Steps, netVars
<1>13. CASE FlushSome
  <2>1. PICK n \in 1 .. MinOf(room["client"], Len(tls)) :
           /\ got' = [got EXCEPT !["client"] = @ \o SubSeq(tls, 1, n)]
           /\ room' = [room EXCEPT !["client"] = @ - n]
           /\ tls' = Drop(tls, n)
    BY <1>13 DEF FlushSome
  <2>2. tls \in Bytes /\ got["client"] \in Bytes /\ room["client"] \in 0 .. SockRoom
    BY DEF TypeOK, Ends
  <2>3. /\ SubSeq(tls, 1, n) \in Bytes /\ Drop(tls, n) \in Bytes
        /\ room["client"] - n \in 0 .. SockRoom
    <3>1. n \in 1 .. Len(tls) /\ room["client"] - n \in 0 .. SockRoom
      BY <2>2, LenNat DEF MinOf
    <3>2. QED
      BY <2>2, <3>1, SplitTypes
  <2>4. got["client"] \o SubSeq(tls, 1, n) \in Bytes
    BY <2>2, <2>3 DEF Bytes
  <2>5. QED
    BY <1>13, <2>1, <2>3, <2>4 DEF TypeOK, FlushSome, loopVars, netVars
<1>14. QED
  BY <1>1, <1>2, <1>3, <1>4, <1>5, <1>6, <1>7, <1>8, <1>9, <1>10, <1>11, <1>12, <1>13
     DEF Next, Pump, Environment

LEMMA FlowNext == FlowInv /\ [Next]_vars => FlowInv'
<1> SUFFICES ASSUME FlowInv, [Next]_vars PROVE FlowInv'
  OBVIOUS
<1> DEFINE Calm(e) == /\ got'[e] = got[e] /\ Tls(e)' = Tls(e)
                      /\ pend'[Other(e)] = pend[Other(e)]
                      /\ wire'[Other(e)] = wire[Other(e)]
                      /\ sent'[Other(e)] = sent[Other(e)]
                      /\ peer'[Other(e)] # "closed" => peer[Other(e)] # "closed"
<1>t. TypeOK /\ TypeOK'
  BY TypeNext DEF FlowInv
<1>c. ASSUME NEW e \in Ends, Calm(e) PROVE Flow(e)'
  BY <1>c, FlowUntouched DEF FlowInv
<1>f. \A e \in Ends : Flow(e)
  BY DEF FlowInv
<1>q. SUFFICES ASSUME NEW e \in Ends PROVE Flow(e)'
  BY <1>t DEF FlowInv
<1> HIDE DEF Calm
<1>1. CASE UNCHANGED vars
  BY <1>1, <1>c DEF Calm, Tls, vars, loopVars, netVars, outVars
<1>2. CASE Handshake
  BY <1>2, <1>c DEF Calm, Tls, Handshake, loopVars, outVars
<1>3. ASSUME NEW d \in Ends, PeerSends(d) PROVE Flow(e)'
  <2>1. CASE d # Other(e)
    <3>1. d = e /\ Other(e) # e
      BY <2>1, EndsFacts
    <3>2. Calm(e)
      BY <1>3, <1>t, <3>1, EndsFacts DEF Calm, Tls, PeerSends, TypeOK, loopVars, outVars
    <3>3. QED
      BY <3>2, <1>c
  <2>2. CASE d = Other(e)
    <3>1. /\ got' = got /\ tls' = tls /\ pend' = pend /\ peer' = peer
          /\ peer[Other(e)] = "open"
          /\ sent'[Other(e)] = sent[Other(e)] + 1
          /\ wire'[Other(e)] = Append(wire[Other(e)], sent[Other(e)] + 1)
      BY <1>3, <1>t, <2>2 DEF PeerSends, TypeOK, loopVars, outVars
    <3>2. /\ RunsFrom(wire[Other(e)], AtWire(e))
          /\ AtWire(e) + Len(wire[Other(e)]) = sent[Other(e)]
      BY <1>f, <3>1 DEF Flow, AtSent
    <3>3. AtWire(e) \in Nat /\ wire[Other(e)] \in Bytes /\ sent[Other(e)] \in Nat
      BY <1>t, FlowTypes
    <3>4. /\ Len(wire'[Other(e)]) = Len(wire[Other(e)]) + 1
          /\ RunsFrom(wire'[Other(e)], AtWire(e))
      <4>1. wire'[Other(e)] =
                Append(wire[Other(e)], AtWire(e) + Len(wire[Other(e)]) + 1)
        BY <3>1, <3>2
      <4>2. QED
        BY <4>1, <3>2, <3>3, AppendRun
    <3>5. AtTls(e)' = AtTls(e) /\ AtPend(e)' = AtPend(e) /\ AtWire(e)' = AtWire(e)
      BY <3>1 DEF AtTls, AtPend, AtWire, Tls
    <3>6. AtSent(e)' = sent'[Other(e)]
      BY <3>1, <3>2, <3>3, <3>4, <3>5, LenNat DEF AtSent
    <3>7. RunsFrom(got[e], 0)' /\ RunsFrom(Tls(e), AtTls(e))'
          /\ RunsFrom(pend[Other(e)], AtPend(e))'
      BY <1>f, <3>1, <3>5 DEF Flow, RunsFrom, Tls
    <3>8. RunsFrom(wire[Other(e)], AtWire(e))'
      BY <3>4, <3>5 DEF RunsFrom
    <3>9. QED
      BY <3>1, <3>3, <3>6, <3>7, <3>8 DEF Flow
  <2>3. QED
    BY <2>1, <2>2
<1>4. ASSUME NEW d \in Ends, PeerReads(d) \/ PeerFinishes(d) PROVE Flow(e)'
  <2>1. Calm(e)
    BY <1>4, <1>t, EndsFacts
       DEF Calm, Tls, PeerReads, PeerFinishes, TypeOK, loopVars, netVars, outVars
  <2>2. QED
    BY <2>1, <1>c
<1>5. ASSUME NEW d \in Ends, PeerCloses(d) PROVE Flow(e)'
  <2>1. /\ got' = got /\ tls' = tls /\ pend' = pend /\ sent' = sent
        /\ peer' = [peer EXCEPT ![d] = "closed"]
        /\ wire' = wire \/ wire' = [wire EXCEPT ![d] = <<>>]
    BY <1>5 DEF PeerCloses, loopVars, outVars
  <2>2. CASE wire'[Other(e)] = wire[Other(e)]
    <3>1. Calm(e)
      BY <1>t, <2>1, <2>2, EndsFacts DEF Calm, Tls, TypeOK
    <3>2. QED
      BY <3>1, <1>c
  <2>3. CASE wire'[Other(e)] # wire[Other(e)]
    <3>1. d = Other(e) /\ wire'[Other(e)] = <<>> /\ peer'[Other(e)] = "closed"
      BY <1>t, <2>1, <2>3, EndsFacts DEF TypeOK
    <3>2. AtTls(e)' = AtTls(e) /\ AtPend(e)' = AtPend(e) /\ AtWire(e)' = AtWire(e)
      BY <2>1 DEF AtTls, AtPend, AtWire, Tls
    <3>3. /\ AtWire(e) \in Nat /\ Len(wire[Other(e)]) \in Nat
          /\ sent[Other(e)] \in Nat /\ AtWire(e) + Len(wire[Other(e)]) <= sent[Other(e)]
      BY <1>t, <1>f, FlowTypes, LenNat DEF Flow, AtSent
    <3>4. AtSent(e)' <= sent'[Other(e)]
      BY <2>1, <3>1, <3>2, <3>3, EmptyRun DEF AtSent
    <3>5. RunsFrom(got[e], 0)' /\ RunsFrom(Tls(e), AtTls(e))'
          /\ RunsFrom(pend[Other(e)], AtPend(e))'
      BY <1>f, <2>1, <3>2 DEF Flow, RunsFrom, Tls
    <3>6. RunsFrom(wire[Other(e)], AtWire(e))'
      BY <3>1, EmptyRun DEF RunsFrom
    <3>7. QED
      BY <3>1, <3>4, <3>5, <3>6 DEF Flow
  <2>4. QED
    BY <2>2, <2>3
<1>6. CASE Connect \/ ReadSkipped \/ ReadEof \/ ReadBlocks \/ WriteSkipped
           \/ WriteBlocks \/ WriteFails \/ FlushDone \/ Fails \/ ShutSkipped
           \/ ShutBackend \/ ShutClient \/ NotifyDone \/ Check
  <2>1. UNCHANGED <<pend, netVars, outVars>>
    BY <1>6 DEF Connect, ReadSkipped, ReadEof, ReadBlocks, WriteSkipped, WriteBlocks,
                WriteFails, FlushDone, Fails, ShutSkipped, ShutBackend, ShutClient,
                NotifyDone, Check
  <2>2. QED
    BY <2>1, <1>c DEF Calm, Tls, netVars, outVars
<1>7. CASE ReadData
  <2>1. PICK n \in 1 .. MinOf(BufBytes, Len(wire[side])) :
           /\ pend' = [pend EXCEPT ![side] = SubSeq(wire[side], 1, n)]
           /\ wire' = [wire EXCEPT ![side] = Drop(@, n)]
    BY <1>7 DEF ReadData
  <2>2. /\ got' = got /\ tls' = tls /\ sent' = sent /\ peer' = peer
        /\ pend[side] = <<>> /\ side \in Ends
    BY <1>7, <1>t DEF ReadData, Reads, outVars, TypeOK
  <2>3. CASE side # Other(e)
    <3>1. Calm(e)
      BY <1>t, <2>1, <2>2, <2>3, EndsFacts DEF Calm, Tls, TypeOK
    <3>2. QED
      BY <3>1, <1>c
  <2>4. CASE side = Other(e)
    <3>1. /\ pend'[Other(e)] = SubSeq(wire[Other(e)], 1, n)
          /\ wire'[Other(e)] = Drop(wire[Other(e)], n)
      BY <1>t, <2>1, <2>2, <2>4 DEF TypeOK
    <3>2. /\ AtPend(e) \in Nat /\ AtWire(e) = AtPend(e) /\ wire[Other(e)] \in Bytes
          /\ n \in 1 .. Len(wire[Other(e)]) /\ Len(wire[Other(e)]) \in Nat
      <4>1. AtPend(e) \in Nat /\ wire[Other(e)] \in Bytes
        BY <1>t, FlowTypes
      <4>2. n \in 1 .. Len(wire[Other(e)]) /\ Len(wire[Other(e)]) \in Nat
        BY <2>1, <2>4, <4>1, LenNat, PumpAssumption DEF MinOf
      <4>3. QED
        BY <2>2, <2>4, <4>1, <4>2, EmptyRun DEF AtWire
    <3>3. RunsFrom(wire[Other(e)], AtPend(e))
      BY <1>f, <3>2 DEF Flow
    <3>4. Len(pend'[Other(e)]) = n /\ RunsFrom(pend'[Other(e)], AtPend(e))
      BY <3>1, <3>2, <3>3, TakeRun
    <3>5. /\ Len(wire'[Other(e)]) = Len(wire[Other(e)]) - n
          /\ RunsFrom(wire'[Other(e)], AtPend(e) + n)
      BY <3>1, <3>2, <3>3, DropRun
    <3>6. /\ AtTls(e)' = AtTls(e) /\ AtPend(e)' = AtPend(e)
          /\ AtWire(e)' = AtPend(e) + n
      BY <2>2, <3>4 DEF AtTls, AtPend, AtWire, Tls
    <3>7. AtSent(e)' = AtSent(e)
      BY <3>2, <3>5, <3>6 DEF AtSent
    <3>8. RunsFrom(got[e], 0)' /\ RunsFrom(Tls(e), AtTls(e))'
      BY <1>f, <2>2, <3>6 DEF Flow, RunsFrom, Tls
    <3>9. RunsFrom(pend[Other(e)], AtPend(e))' /\ RunsFrom(wire[Other(e)], AtWire(e))'
      BY <3>4, <3>5, <3>6 DEF RunsFrom
    <3>10. AtSent(e)' <= sent'[Other(e)]
           /\ (peer'[Other(e)] # "closed" => AtSent(e)' = sent'[Other(e)])
      BY <1>f, <2>2, <3>7 DEF Flow
    <3>11. QED
      BY <3>8, <3>9, <3>10 DEF Flow
  <2>5. QED
    BY <2>3, <2>4
<1>8. CASE WroteBackend
  <2>1. PICK n \in 1 .. MinOf(room["backend"], Len(pend[side])) :
           /\ got' = [got EXCEPT !["backend"] = @ \o SubSeq(pend[side], 1, n)]
           /\ pend' = [pend EXCEPT ![side] = Drop(@, n)]
    BY <1>8 DEF WroteBackend, Advance
  <2>2. /\ tls' = tls /\ UNCHANGED netVars /\ side = "client"
        /\ room["backend"] \in Nat
    BY <1>8, <1>t, PumpAssumption DEF WroteBackend, Writes, Other, Ends, TypeOK
  <2>3. CASE e = "client"
    <3>1. Calm(e)
      BY <1>t, <2>1, <2>2, <2>3 DEF Calm, Tls, TypeOK, Other, Ends, netVars
    <3>2. QED
      BY <3>1, <1>c
  <2>4. CASE e = "backend"
    <3>1. /\ Other(e) = "client" /\ Tls(e) = <<>> /\ Tls(e)' = <<>>
      BY <2>4 DEF Other, Tls
    <3>2. /\ got[e] \in Bytes /\ pend[Other(e)] \in Bytes /\ AtTls(e) \in Nat
          /\ AtPend(e) = AtTls(e) /\ Len(pend[Other(e)]) \in Nat
      BY <1>t, <3>1, FlowTypes, LenNat, EmptyRun DEF AtPend
    <3>3. n \in 1 .. Len(pend[Other(e)])
      BY <2>1, <2>2, <3>1, <3>2 DEF MinOf
    <3>4. RunsFrom(got[e], 0) /\ RunsFrom(pend[Other(e)], Len(got[e]))
      BY <1>f, <3>2 DEF Flow, AtTls
    <3>5. /\ got'[e] = got[e] \o SubSeq(pend[Other(e)], 1, n)
          /\ pend'[Other(e)] = Drop(pend[Other(e)], n)
      BY <1>t, <2>1, <2>2, <2>4, <3>1 DEF TypeOK, Ends
    <3>6. /\ SubSeq(pend[Other(e)], 1, n) \in Bytes
          /\ Len(SubSeq(pend[Other(e)], 1, n)) = n
          /\ RunsFrom(SubSeq(pend[Other(e)], 1, n), Len(got[e]))
      BY <3>2, <3>3, <3>4, LenNat, TakeRun
    <3>7. Len(got'[e]) = Len(got[e]) + n /\ RunsFrom(got'[e], 0)
      BY <3>2, <3>4, <3>5, <3>6, LenNat, JoinRuns
    <3>8. /\ Len(pend'[Other(e)]) = Len(pend[Other(e)]) - n
          /\ RunsFrom(pend'[Other(e)], Len(got[e]) + n)
      BY <3>2, <3>3, <3>4, <3>5, LenNat, DropRun
    <3>9. /\ AtPend(e)' = Len(got[e]) + n /\ AtWire(e)' = AtWire(e)
      <4>1. AtPend(e)' = Len(got[e]) + n
        BY <3>1, <3>2, <3>7, EmptyRun, LenNat DEF AtPend, AtTls
      <4>2. Len(got[e]) \in Nat
        BY <3>2, LenNat
      <4>3. AtPend(e) = Len(got[e])
        BY <3>2 DEF AtTls
      <4>4. QED
        BY <4>1, <4>2, <4>3, <3>2, <3>3, <3>8 DEF AtWire
    <3>10. AtSent(e)' = AtSent(e)
      BY <2>2, <3>9 DEF AtSent, netVars
    <3>11. RunsFrom(got[e], 0)' /\ RunsFrom(pend[Other(e)], AtPend(e))'
      BY <3>7, <3>8, <3>9 DEF RunsFrom
    <3>12. RunsFrom(Tls(e), AtTls(e))'
      BY <3>1, EmptyRun DEF RunsFrom
    <3>13. RunsFrom(wire[Other(e)], AtWire(e))'
      BY <1>f, <2>2, <3>9 DEF Flow, RunsFrom, netVars
    <3>14. QED
      BY <1>f, <2>2, <3>10, <3>11, <3>12, <3>13 DEF Flow, netVars
  <2>5. QED
    BY <2>3, <2>4 DEF Ends
<1>9. CASE WroteClient
  <2>1. PICK n \in 1 .. Len(pend[side]) :
           /\ tls' = tls \o SubSeq(pend[side], 1, n)
           /\ pend' = [pend EXCEPT ![side] = Drop(@, n)]
    BY <1>9 DEF WroteClient, Advance
  <2>2. UNCHANGED <<netVars, got>> /\ side = "backend"
    BY <1>9, <1>t DEF WroteClient, Writes, Other, Ends, TypeOK
  <2>3. CASE e = "backend"
    <3>1. Calm(e)
      BY <1>t, <2>1, <2>2, <2>3 DEF Calm, Tls, TypeOK, Other, Ends, netVars
    <3>2. QED
      BY <3>1, <1>c
  <2>4. CASE e = "client"
    <3>1. Other(e) = "backend" /\ Tls(e) = tls /\ Tls(e)' = tls'
      BY <2>4 DEF Other, Tls
    <3>2. /\ tls \in Bytes /\ pend[Other(e)] \in Bytes /\ AtTls(e) \in Nat
          /\ AtPend(e) = AtTls(e) + Len(tls) /\ AtPend(e) \in Nat
          /\ Len(pend[Other(e)]) \in Nat /\ Len(tls) \in Nat
      BY <1>t, <3>1, FlowTypes, LenNat DEF AtPend
    <3>3. n \in 1 .. Len(pend[Other(e)])
      BY <2>1, <2>2, <3>1
    <3>4. RunsFrom(tls, AtTls(e)) /\ RunsFrom(pend[Other(e)], AtPend(e))
      BY <1>f, <3>1 DEF Flow
    <3>5. /\ tls' = tls \o SubSeq(pend[Other(e)], 1, n)
          /\ pend'[Other(e)] = Drop(pend[Other(e)], n)
      BY <1>t, <2>1, <2>2, <3>1 DEF TypeOK, Ends
    <3>6. /\ SubSeq(pend[Other(e)], 1, n) \in Bytes
          /\ Len(SubSeq(pend[Other(e)], 1, n)) = n
          /\ RunsFrom(SubSeq(pend[Other(e)], 1, n), AtTls(e) + Len(tls))
      BY <3>2, <3>3, <3>4, TakeRun
    <3>7. Len(tls') = Len(tls) + n /\ RunsFrom(tls', AtTls(e))
      BY <3>2, <3>4, <3>5, <3>6, JoinRuns
    <3>8. /\ Len(pend'[Other(e)]) = Len(pend[Other(e)]) - n
          /\ RunsFrom(pend'[Other(e)], AtPend(e) + n)
      BY <3>2, <3>3, <3>4, <3>5, DropRun
    <3>9. AtTls(e)' = AtTls(e)
      BY <2>2 DEF AtTls
    <3>10. AtPend(e)' = AtPend(e) + n
      BY <3>1, <3>2, <3>3, <3>7, <3>9 DEF AtPend
    <3>11. AtWire(e)' = AtWire(e)
      BY <3>2, <3>3, <3>8, <3>10 DEF AtWire
    <3>12. AtSent(e)' = AtSent(e)
      BY <2>2, <3>11 DEF AtSent, netVars
    <3>13. RunsFrom(Tls(e), AtTls(e))' /\ RunsFrom(pend[Other(e)], AtPend(e))'
      BY <3>1, <3>7, <3>8, <3>9, <3>10 DEF RunsFrom
    <3>14. RunsFrom(got[e], 0)' /\ RunsFrom(wire[Other(e)], AtWire(e))'
      BY <1>f, <2>2, <3>11 DEF Flow, RunsFrom, netVars
    <3>15. QED
      BY <1>f, <2>2, <3>12, <3>13, <3>14 DEF Flow, netVars
  <2>5. QED
    BY <2>3, <2>4 DEF Ends
<1>10. CASE FlushSome
  <2>1. PICK n \in 1 .. MinOf(room["client"], Len(tls)) :
           /\ got' = [got EXCEPT !["client"] = @ \o SubSeq(tls, 1, n)]
           /\ tls' = Drop(tls, n)
    BY <1>10 DEF FlushSome
  <2>2. UNCHANGED <<netVars, pend>> /\ room["client"] \in Nat
    BY <1>10, <1>t, PumpAssumption DEF FlushSome, loopVars, TypeOK, Ends
  <2>3. CASE e = "backend"
    <3>1. Calm(e)
      BY <1>t, <2>1, <2>2, <2>3 DEF Calm, Tls, TypeOK, Other, Ends, netVars
    <3>2. QED
      BY <3>1, <1>c
  <2>4. CASE e = "client"
    <3>1. Tls(e) = tls /\ Tls(e)' = tls'
      BY <2>4 DEF Tls
    <3>2. /\ tls \in Bytes /\ got[e] \in Bytes /\ Len(got[e]) \in Nat
          /\ Len(tls) \in Nat
      BY <1>t, FlowTypes, LenNat
    <3>3. n \in 1 .. Len(tls)
      BY <2>1, <2>2, <3>2 DEF MinOf
    <3>4. RunsFrom(got[e], 0) /\ RunsFrom(tls, Len(got[e]))
      BY <1>f, <3>1 DEF Flow, AtTls
    <3>5. got'[e] = got[e] \o SubSeq(tls, 1, n)
      BY <1>t, <2>1, <2>4 DEF TypeOK, Ends
    <3>6. /\ SubSeq(tls, 1, n) \in Bytes /\ Len(SubSeq(tls, 1, n)) = n
          /\ RunsFrom(SubSeq(tls, 1, n), Len(got[e]))
      BY <3>2, <3>3, <3>4, TakeRun
    <3>7. Len(got'[e]) = Len(got[e]) + n /\ RunsFrom(got'[e], 0)
      BY <3>2, <3>4, <3>5, <3>6, JoinRuns
    <3>8. Len(tls') = Len(tls) - n /\ RunsFrom(tls', Len(got[e]) + n)
      BY <2>1, <3>2, <3>3, <3>4, DropRun
    <3>9. AtTls(e)' = Len(got[e]) + n
      BY <3>7 DEF AtTls
    <3>10. AtPend(e)' = AtPend(e)
      BY <3>1, <3>2, <3>3, <3>8, <3>9 DEF AtPend, AtTls
    <3>11. AtWire(e)' = AtWire(e) /\ AtSent(e)' = AtSent(e)
      BY <2>2, <3>10 DEF AtWire, AtSent, netVars
    <3>12. RunsFrom(got[e], 0)' /\ RunsFrom(Tls(e), AtTls(e))'
      BY <3>1, <3>7, <3>8, <3>9 DEF RunsFrom
    <3>13. RunsFrom(pend[Other(e)], AtPend(e))' /\ RunsFrom(wire[Other(e)], AtWire(e))'
      BY <1>f, <2>2, <3>10, <3>11 DEF Flow, RunsFrom, netVars
    <3>14. QED
      BY <1>f, <2>2, <3>11, <3>12, <3>13 DEF Flow, netVars
  <2>5. QED
    BY <2>3, <2>4 DEF Ends
<1>11. QED
  BY <1>1, <1>2, <1>3, <1>4, <1>5, <1>6, <1>7, <1>8, <1>9, <1>10
     DEF Next, Pump, Environment

LEMMA FlowInit == Init => FlowInv
<1> SUFFICES ASSUME Init PROVE FlowInv
  OBVIOUS
<1>1. TypeOK
  <2>1. <<>> \in Bytes /\ 0 \in 0 .. MaxSend /\ SockRoom \in 0 .. SockRoom
    BY EmptyRun, PumpAssumption
  <2>2. QED
    BY <2>1 DEF Init, TypeOK, Steps, Ends, Peers
<1>2. ASSUME NEW e \in Ends PROVE Flow(e)
  <2>1. /\ got[e] = <<>> /\ Tls(e) = <<>> /\ pend[Other(e)] = <<>>
        /\ wire[Other(e)] = <<>> /\ sent[Other(e)] = 0
    BY EndsFacts DEF Init, Tls
  <2>2. AtTls(e) = 0 /\ AtPend(e) = 0 /\ AtWire(e) = 0 /\ AtSent(e) = 0
    BY <2>1, EmptyRun DEF AtTls, AtPend, AtWire, AtSent
  <2>3. QED
    BY <2>1, <2>2, EmptyRun DEF Flow
<1>3. QED
  BY <1>1, <1>2 DEF FlowInv

-----------------------------------------------------------------------------
LEMMA EofNext == FlowInv /\ EofInv /\ [Next]_vars => EofInv'
<1> SUFFICES ASSUME TypeOK, TypeOK', EofInv, [Next]_vars PROVE EofInv'
  BY TypeNext DEF FlowInv
<1>1. CASE UNCHANGED vars
  BY <1>1 DEF EofInv, vars, loopVars, netVars, outVars
<1>2. CASE Environment
  <2>1. CASE Handshake
    BY <2>1 DEF EofInv, Handshake, loopVars, outVars
  <2>2. ASSUME NEW e \in Ends, PeerSends(e) PROVE EofInv'
    <3>1. /\ wire' = [wire EXCEPT ![e] = Append(@, sent[e] + 1)]
          /\ peer[e] = "open" /\ (e = "client" => shaken)
          /\ UNCHANGED <<loopVars, shaken, peer, outVars>>
      BY <2>2 DEF PeerSends
    <3>2. ~eof[e]
      BY <3>1 DEF EofInv
    <3>3. \A d \in Ends : d # e => wire'[d] = wire[d]
      BY <3>1 DEF TypeOK
    <3>4. QED
      BY <3>1, <3>2, <3>3 DEF EofInv, loopVars, outVars, Ends
  <2>3. ASSUME NEW e \in Ends, PeerReads(e) \/ PeerFinishes(e) PROVE EofInv'
    BY <2>3 DEF EofInv, PeerReads, PeerFinishes, TypeOK, Ends, loopVars, netVars, outVars
  <2>4. ASSUME NEW e \in Ends, PeerCloses(e) PROVE EofInv'
    BY <2>4 DEF EofInv, PeerCloses, TypeOK, Ends, loopVars, outVars
  <2>5. QED
    BY <1>2, <2>1, <2>2, <2>3, <2>4 DEF Environment
<1>3. CASE Connect \/ ReadSkipped \/ ReadBlocks \/ WriteSkipped \/ WriteBlocks
           \/ FlushDone \/ Fails \/ ShutSkipped \/ ShutClient \/ Check
  BY <1>3 DEF EofInv, Connect, ReadSkipped, ReadBlocks, WriteSkipped, WriteBlocks,
              FlushDone, Fails, ShutSkipped, ShutClient, Check, LeavesShut, Goes,
              Reads, Writes, MustShut, TypeOK, Ends, Other, netVars, outVars
<1>4. CASE ReadEof \/ WriteFails
  BY <1>4 DEF EofInv, ReadEof, WriteFails, Goes, Reads, Writes, Gone, TypeOK, Ends,
              Peers, Other, netVars, outVars
<1>5. CASE ShutBackend \/ NotifyDone
  BY <1>5 DEF EofInv, ShutBackend, NotifyDone, LeavesShut, MustShut, TypeOK, Ends,
              Other, netVars, outVars
<1>6. CASE ReadData
  BY <1>6 DEF EofInv, ReadData, Reads, Goes, TypeOK, Ends, Other, outVars, Drop
<1>7. CASE WroteBackend
  BY <1>7 DEF EofInv, WroteBackend, Writes, Goes, TypeOK, Ends, Other, netVars
<1>8. CASE WroteClient
  BY <1>8 DEF EofInv, WroteClient, Writes, Goes, TypeOK, Ends, Other, netVars
<1>9. CASE FlushSome
  BY <1>9 DEF EofInv, FlushSome, loopVars, netVars
<1>10. QED
  BY <1>1, <1>2, <1>3, <1>4, <1>5, <1>6, <1>7, <1>8, <1>9 DEF Next, Pump

LEMMA PassedNext == FlowInv /\ EofInv /\ PassedInv /\ [Next]_vars => PassedInv'
<1> SUFFICES ASSUME TypeOK, TypeOK', EofInv, PassedInv, [Next]_vars PROVE PassedInv'
  BY TypeNext DEF FlowInv
<1>1. CASE UNCHANGED vars
  BY <1>1 DEF PassedInv, vars, loopVars
<1>2. CASE Environment
  BY <1>2 DEF PassedInv, Environment, Handshake, PeerSends, PeerReads, PeerFinishes,
              PeerCloses, loopVars
<1>3. CASE Connect \/ ReadSkipped \/ ReadBlocks \/ WriteSkipped \/ WriteBlocks
           \/ FlushDone \/ Fails \/ ShutSkipped \/ ShutClient \/ Check
  BY <1>3 DEF PassedInv, EofInv, Connect, ReadSkipped, ReadBlocks, WriteSkipped,
              WriteBlocks, FlushDone, Fails, ShutSkipped, ShutClient, Check,
              LeavesShut, Goes, Reads, Writes, MustShut, TypeOK, Ends, Other
<1>4. CASE ReadEof \/ WriteFails
  BY <1>4 DEF PassedInv, EofInv, ReadEof, WriteFails, Goes, Reads, Writes, TypeOK,
              Ends, Other
<1>5. CASE ShutBackend \/ NotifyDone
  BY <1>5 DEF PassedInv, EofInv, ShutBackend, NotifyDone, LeavesShut, MustShut,
              TypeOK, Ends, Other
<1>6. CASE ReadData
  BY <1>6 DEF PassedInv, ReadData, Reads, Goes, TypeOK, Ends, Other
<1>7. CASE WroteBackend
  BY <1>7 DEF PassedInv, WroteBackend, Writes, Goes, TypeOK, Ends, Other
<1>8. CASE WroteClient
  BY <1>8 DEF PassedInv, WroteClient, Writes, Goes, TypeOK, Ends, Other
<1>9. CASE FlushSome
  BY <1>9 DEF PassedInv, FlushSome, loopVars
<1>10. QED
  BY <1>1, <1>2, <1>3, <1>4, <1>5, <1>6, <1>7, <1>8, <1>9 DEF Next, Pump

(* LoopInv is inductive. *)
THEOREM LoopInvAlways == Spec => []LoopInv
<1>1. Init => LoopInv
  <2>1. Init => EofInv /\ PassedInv
    BY DEF Init, EofInv, PassedInv, Ends, Other
  <2>2. QED
    BY <2>1, FlowInit DEF LoopInv
<1>2. LoopInv /\ [Next]_vars => LoopInv'
  BY FlowNext, EofNext, PassedNext DEF LoopInv
<1>3. QED
  BY <1>1, <1>2, PTL DEF Spec

(* The loop's state keeps its types. *)
THEOREM TypeCorrect == Spec => []TypeOK
<1>1. LoopInv => TypeOK
  BY DEF LoopInv, FlowInv
<1>2. QED
  BY <1>1, LoopInvAlways, PTL

(* Each end receives a prefix of what the other end sent (tls.rs:218-256). *)
THEOREM ForwardsInOrderAlways == Spec => []ForwardsInOrder
<1>1. LoopInv => ForwardsInOrder
  <2> SUFFICES ASSUME LoopInv, NEW e \in Ends
               PROVE  /\ Len(got[e]) <= sent[Other(e)]
                      /\ \A i \in 1 .. Len(got[e]) : got[e][i] = i
    BY DEF ForwardsInOrder
  <2>1. TypeOK /\ Flow(e)
    BY DEF LoopInv, FlowInv
  <2>2. \A i \in 1 .. Len(got[e]) : got[e][i] = i
    <3>1. Len(got[e]) \in Nat
      BY <2>1, FlowTypes, LenNat
    <3>2. QED
      BY <2>1, <3>1 DEF Flow, RunsFrom
  <2>3. /\ Len(got[e]) \in Nat /\ Len(Tls(e)) \in Nat /\ Len(pend[Other(e)]) \in Nat
        /\ Len(wire[Other(e)]) \in Nat /\ sent[Other(e)] \in Nat
    BY <2>1, FlowTypes, LenNat
  <2>4. Len(got[e]) <= sent[Other(e)]
    <3>1. AtSent(e) <= sent[Other(e)]
      BY <2>1 DEF Flow
    <3>2. AtPend(e) \in Nat /\ AtPend(e) >= Len(got[e])
      BY <2>3 DEF AtPend, AtTls
    <3>3. AtWire(e) \in Nat /\ AtWire(e) >= AtPend(e)
      BY <2>3, <3>2 DEF AtWire
    <3>4. AtSent(e) \in Nat /\ AtSent(e) >= AtWire(e)
      BY <2>3, <3>3 DEF AtSent
    <3>5. QED
      BY <2>3, <3>1, <3>2, <3>3, <3>4
  <2>5. QED
    BY <2>2, <2>4
<1>2. QED
  BY <1>1, LoopInvAlways, PTL

(* An end is told that no more is coming only when it has been given all   *)
(* that the other end sent, resets apart (tls.rs:228-231, 257-261).        *)
THEOREM CloseMeansCompleteAlways == Spec => []CloseMeansComplete
<1>1. LoopInv => CloseMeansComplete
  <2> SUFFICES ASSUME LoopInv, NEW e \in Ends, wrClosed[e], peer[Other(e)] # "closed"
               PROVE  Len(got[e]) = sent[Other(e)]
    BY DEF CloseMeansComplete
  <2>1. TypeOK /\ Flow(e) /\ EofInv
    BY DEF LoopInv, FlowInv
  <2>2. pend[Other(e)] = <<>> /\ wire[Other(e)] = <<>> /\ Tls(e) = <<>>
    BY <2>1, EndsFacts DEF EofInv, Tls
  <2>3. Len(got[e]) \in Nat
    BY <2>1, FlowTypes, LenNat
  <2>4. AtSent(e) = Len(got[e])
    BY <2>2, <2>3, EmptyRun DEF AtSent, AtWire, AtPend, AtTls
  <2>5. QED
    BY <2>1, <2>4 DEF Flow
<1>2. QED
  BY <1>1, LoopInvAlways, PTL

(* The loop leaves by its own exit only after both half-closes             *)
(* (tls.rs:263-265).                                                       *)
THEOREM EndsAfterBothClosesAlways == Spec => EndsAfterBothCloses
<1>1. LoopInv /\ [Next]_vars =>
          [step = "check" /\ step' = "ended" => \A e \in Ends : wrClosed[e]]_vars
  <2> SUFFICES ASSUME LoopInv, Next, step = "check", step' = "ended"
               PROVE  \A e \in Ends : wrClosed[e]
    BY DEF vars
  <2>1. Check
    BY DEF Next, Pump, Environment, Connect, ReadSkipped, ReadData, ReadEof, ReadBlocks,
           WriteSkipped, WroteBackend, WroteClient, WriteBlocks, WriteFails, FlushSome,
           FlushDone, Fails, ShutSkipped, ShutBackend, ShutClient, NotifyDone, Goes,
           Handshake, PeerSends, PeerReads, PeerFinishes, PeerCloses, loopVars
  <2>2. Finished
    BY <2>1 DEF Check, Goes
  <2>3. QED
    BY <2>2 DEF Finished, LoopInv, PassedInv, EofInv, Ends
<1>2. QED
  BY <1>1, LoopInvAlways, PTL DEF Spec, EndsAfterBothCloses
-----------------------------------------------------------------------------
(* The refinement.  A stage's bytes towards e that leave it for got[e] are *)
(* the next ones the pipe owes e.                                          *)
LEMMA NextBytes ==
    ASSUME NEW e \in Ends, NEW s \in Bytes, NEW n \in 1 .. Len(s),
           RunsFrom(s, Len(got[e])), Len(got[e]) \in Nat
    PROVE  SubSeq(s, 1, n) = Pipes!Following(e, n)
<1>1. Pipes!Following(e, n) = [i \in 1 .. n |-> Len(got[e]) + i]
  BY DEF Pipes!Following
<1>2. SubSeq(s, 1, n) = [i \in 1 .. n |-> s[i]]
  BY DEF Bytes
<1>3. \A i \in 1 .. n : s[i] = Len(got[e]) + i
  BY LenNat DEF RunsFrom
<1>4. QED
  BY <1>1, <1>2, <1>3

(* What is on its way to e was sent. *)
LEMMA StageFits ==
    ASSUME TypeOK, NEW e \in Ends, Flow(e)
    PROVE  AtPend(e) <= sent[Other(e)] /\ AtWire(e) <= sent[Other(e)]
<1>1. /\ Len(pend[Other(e)]) \in Nat /\ Len(wire[Other(e)]) \in Nat
      /\ sent[Other(e)] \in Nat /\ AtPend(e) \in Nat
  BY FlowTypes, LenNat
<1>2. AtWire(e) \in Nat /\ AtWire(e) >= AtPend(e)
  BY <1>1 DEF AtWire
<1>3. AtSent(e) \in Nat /\ AtSent(e) >= AtWire(e)
  BY <1>1, <1>2 DEF AtSent
<1>4. AtSent(e) <= sent[Other(e)]
  BY DEF Flow
<1>5. QED
  BY <1>1, <1>2, <1>3, <1>4

(* Taking n bytes off a stage and putting them on e's socket is a Deliver  *)
(* of the abstract pipe.                                                   *)
LEMMA DeliverStep ==
    ASSUME TypeOK, NEW e \in Ends, NEW s \in Bytes, NEW n \in 1 .. Len(s),
           RunsFrom(s, Len(got[e])), Len(got[e]) + Len(s) <= sent[Other(e)],
           ~wrClosed[e],
           got' = [got EXCEPT ![e] = @ \o SubSeq(s, 1, n)],
           UNCHANGED <<peer, sent, wrClosed>>
    PROVE  Pipes!Next
<1>1. Len(got[e]) \in Nat /\ Len(s) \in Nat /\ sent[Other(e)] \in Nat
  BY FlowTypes, LenNat
<1>2. n \in 1 .. (sent[Other(e)] - Len(got[e]))
  BY <1>1
<1>3. got' = [got EXCEPT ![e] = @ \o Pipes!Following(e, n)]
  BY <1>1, NextBytes
<1>4. Pipes!Deliver(e)
  BY <1>2, <1>3 DEF Pipes!Deliver, Pipes!Other, Other
<1>5. QED
  BY <1>4 DEF Pipes!Next, Pipes!Ends, Ends

(* Passing an end of file on is a Tell of the abstract pipe. *)
LEMMA TellStep ==
    ASSUME LoopInv, NEW e \in Ends, ~wrClosed[e], eof[Other(e)],
           pend[Other(e)] = <<>>, Tls(e) = <<>>,
           wrClosed' = [wrClosed EXCEPT ![e] = TRUE],
           UNCHANGED <<peer, sent, got>>
    PROVE  Pipes!Next
<1>1. TypeOK /\ Flow(e) /\ EofInv
  BY DEF LoopInv, FlowInv
<1>2. \/ peer[Other(e)] = "finished" /\ Len(got[e]) = sent[Other(e)]
      \/ peer[Other(e)] = "closed"
  <2> SUFFICES ASSUME peer[Other(e)] # "closed"
               PROVE  peer[Other(e)] = "finished" /\ Len(got[e]) = sent[Other(e)]
    OBVIOUS
  <2>1. wire[Other(e)] = <<>> /\ peer[Other(e)] = "finished"
    BY <1>1, EndsFacts DEF EofInv
  <2>2. Len(got[e]) \in Nat
    BY <1>1, FlowTypes, LenNat
  <2>3. AtSent(e) = Len(got[e])
    BY <2>1, <2>2, EmptyRun DEF AtSent, AtWire, AtPend, AtTls
  <2>4. QED
    BY <1>1, <2>1, <2>3 DEF Flow
<1>3. Pipes!Tell(e)
  BY <1>2 DEF Pipes!Tell, Pipes!Other, Other
<1>4. QED
  BY <1>3 DEF Pipes!Next, Pipes!Ends, Ends

LEMMA PipesStep == LoopInv /\ [Next]_vars => [Pipes!Next]_(Pipes!pipeVars)
<1> SUFFICES ASSUME LoopInv, [Next]_vars
             PROVE  Pipes!Next \/ UNCHANGED Pipes!pipeVars
  OBVIOUS
<1>t. TypeOK /\ EofInv /\ \A e \in Ends : Flow(e)
  BY DEF LoopInv, FlowInv
<1>k. ASSUME UNCHANGED <<peer, sent, got, wrClosed>>
      PROVE  UNCHANGED Pipes!pipeVars
  BY <1>k DEF Pipes!pipeVars
<1>1. CASE UNCHANGED vars
  BY <1>1, <1>k DEF vars, loopVars, netVars, outVars
<1>2. CASE Handshake
  BY <1>2, <1>k DEF Handshake, loopVars, outVars
<1>3. ASSUME NEW e \in Ends, PeerSends(e) PROVE Pipes!Next
  <2>1. Pipes!Send(e)
    BY <1>3 DEF PeerSends, loopVars, outVars, Pipes!Send
  <2>2. QED
    BY <2>1 DEF Pipes!Next, Pipes!Ends, Ends
<1>4. ASSUME NEW e \in Ends, PeerReads(e) PROVE UNCHANGED Pipes!pipeVars
  BY <1>4, <1>k DEF PeerReads, loopVars, netVars
<1>5. ASSUME NEW e \in Ends, PeerFinishes(e) PROVE Pipes!Next
  <2>1. Pipes!Finish(e)
    BY <1>5 DEF PeerFinishes, loopVars, outVars, Pipes!Finish
  <2>2. QED
    BY <2>1 DEF Pipes!Next, Pipes!Ends, Ends
<1>6. ASSUME NEW e \in Ends, PeerCloses(e) PROVE Pipes!Next
  <2>1. Pipes!Close(e)
    BY <1>6 DEF PeerCloses, loopVars, outVars, Pipes!Close
  <2>2. QED
    BY <2>1 DEF Pipes!Next, Pipes!Ends, Ends
<1>7. CASE Connect \/ ReadSkipped \/ ReadData \/ ReadEof \/ ReadBlocks \/ WriteSkipped
           \/ WroteClient \/ WriteBlocks \/ WriteFails \/ FlushDone \/ Fails
           \/ ShutSkipped \/ ShutClient \/ Check
  <2>1. UNCHANGED <<peer, sent, got, wrClosed>>
    BY <1>7 DEF Connect, ReadSkipped, ReadData, ReadEof, ReadBlocks, WriteSkipped,
                WroteClient, WriteBlocks, WriteFails, FlushDone, Fails, ShutSkipped,
                ShutClient, Check, netVars, outVars
  <2>2. QED
    BY <2>1, <1>k
<1>8. CASE WroteBackend
  <2>1. PICK n \in 1 .. MinOf(room["backend"], Len(pend[side])) :
           got' = [got EXCEPT !["backend"] = @ \o SubSeq(pend[side], 1, n)]
    BY <1>8 DEF WroteBackend
  <2>2. /\ side = "client" /\ pend["client"] # <<>>
        /\ UNCHANGED <<peer, sent, wrClosed>>
    BY <1>8, <1>t DEF WroteBackend, Writes, Other, netVars
  <2>3. ~wrClosed["backend"]
    BY <1>t, <2>2 DEF EofInv, Ends, Other
  <2>4. Flow("backend") /\ Other("backend") = "client" /\ "backend" \in Ends
        /\ Tls("backend") = <<>>
    BY <1>t DEF Ends, Other, Tls
  <2>5. /\ pend["client"] \in Bytes /\ Len(pend["client"]) \in Nat
        /\ Len(got["backend"]) \in Nat
        /\ Len(got["backend"]) + Len(pend["client"]) <= sent["client"]
    <3>1. pend["client"] \in Bytes /\ got["backend"] \in Bytes
      BY <1>t, <2>4, FlowTypes
    <3>2. Len(pend["client"]) \in Nat /\ Len(got["backend"]) \in Nat
      BY <3>1, LenNat
    <3>3. AtWire("backend") = Len(got["backend"]) + Len(pend["client"])
      <4>1. AtPend("backend") = Len(got["backend"])
        BY <2>4, <3>2, EmptyRun DEF AtPend, AtTls
      <4>2. QED
        BY <2>4, <4>1 DEF AtWire
    <3>4. AtWire("backend") <= sent["client"]
      BY <1>t, <2>4, StageFits
    <3>5. QED
      BY <3>1, <3>2, <3>3, <3>4
  <2>6. n \in 1 .. Len(pend["client"])
    <3>1. room["backend"] \in 0 .. SockRoom
      BY <1>t, <2>4 DEF TypeOK
    <3>2. QED
      BY <2>1, <2>2, <2>5, <3>1, PumpAssumption DEF MinOf
  <2>7. RunsFrom(pend["client"], Len(got["backend"]))
    <3>1. AtPend("backend") = Len(got["backend"])
      BY <2>4, <2>5, EmptyRun DEF AtPend, AtTls
    <3>2. QED
      BY <2>4, <3>1 DEF Flow
  <2>8. QED
    BY <1>t, <2>1, <2>2, <2>3, <2>4, <2>5, <2>6, <2>7, DeliverStep
<1>9. CASE FlushSome
  <2>1. PICK n \in 1 .. MinOf(room["client"], Len(tls)) :
           got' = [got EXCEPT !["client"] = @ \o SubSeq(tls, 1, n)]
    BY <1>9 DEF FlushSome
  <2>2. UNCHANGED <<peer, sent, wrClosed>> /\ step = "flush"
    BY <1>9 DEF FlushSome, loopVars, netVars
  <2>3. ~wrClosed["client"]
    BY <1>t, <2>2 DEF EofInv
  <2>4. Flow("client") /\ Other("client") = "backend" /\ "client" \in Ends
        /\ Tls("client") = tls
    BY <1>t DEF Ends, Other, Tls
  <2>5. /\ tls \in Bytes /\ Len(tls) \in Nat /\ Len(got["client"]) \in Nat
        /\ Len(got["client"]) + Len(tls) <= sent["backend"]
    <3>1. tls \in Bytes /\ got["client"] \in Bytes
      BY <1>t, <2>4, FlowTypes
    <3>2. Len(tls) \in Nat /\ Len(got["client"]) \in Nat
      BY <3>1, LenNat
    <3>3. AtPend("client") = Len(got["client"]) + Len(tls)
      BY <2>4 DEF AtPend, AtTls
    <3>4. AtPend("client") <= sent["backend"]
      BY <1>t, <2>4, StageFits
    <3>5. QED
      BY <3>1, <3>2, <3>3, <3>4
  <2>6. n \in 1 .. Len(tls)
    <3>1. room["client"] \in 0 .. SockRoom
      BY <1>t, <2>4 DEF TypeOK
    <3>2. QED
      BY <2>1, <2>5, <3>1, PumpAssumption DEF MinOf
  <2>7. RunsFrom(tls, Len(got["client"]))
    BY <2>4 DEF Flow, AtTls
  <2>8. QED
    BY <1>t, <2>1, <2>2, <2>3, <2>4, <2>5, <2>6, <2>7, DeliverStep
<1>10. CASE ShutBackend
  <2>1. /\ ~wrClosed["backend"] /\ eof["client"] /\ pend["client"] = <<>>
        /\ wrClosed' = [wrClosed EXCEPT !["backend"] = TRUE]
        /\ UNCHANGED <<peer, sent, got>>
    BY <1>10 DEF ShutBackend, MustShut, Other, netVars, outVars
  <2>2. "backend" \in Ends /\ Other("backend") = "client" /\ Tls("backend") = <<>>
    BY DEF Ends, Other, Tls
  <2>3. QED
    BY <2>1, <2>2, TellStep
<1>11. CASE NotifyDone
  <2>1. /\ step = "notify"
        /\ wrClosed' = [wrClosed EXCEPT !["client"] = TRUE]
        /\ UNCHANGED <<peer, sent, got>>
    BY <1>11 DEF NotifyDone, netVars, outVars
  <2>2. /\ "client" \in Ends /\ Other("client") = "backend" /\ Tls("client") = tls
        /\ eof["backend"] /\ pend["backend"] = <<>> /\ tls = <<>>
    BY <1>t, <2>1 DEF Ends, Other, Tls, EofInv
  <2>3. CASE wrClosed["client"]
    <3>1. wrClosed' = wrClosed
      BY <1>t, <2>1, <2>3 DEF TypeOK
    <3>2. QED
      BY <2>1, <3>1, <1>k
  <2>4. CASE ~wrClosed["client"]
    BY <2>1, <2>2, <2>4, TellStep
  <2>5. QED
    BY <2>3, <2>4
<1>12. QED
  BY <1>1, <1>2, <1>3, <1>4, <1>5, <1>6, <1>7, <1>8, <1>9, <1>10, <1>11
     DEF Next, Pump, Environment

(* The loop implements a pair of byte pipes: for every buffer and socket   *)
(* size each end is handed the next bytes of the other, told that no more  *)
(* will come only when that is so, and handed nothing once it is told      *)
(* (tls.rs:203-271).                                                       *)
THEOREM ImplementsPipesAlways == Spec => ImplementsPipes
<1>1. Init => Pipes!Init
  BY DEF Init, Pipes!Init, Pipes!Ends, Ends
<1>2. QED
  BY <1>1, PipesStep, LoopInvAlways, PTL DEF Spec, ImplementsPipes, Pipes!Spec
=============================================================================
