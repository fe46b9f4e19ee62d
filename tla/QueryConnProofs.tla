-------------------------- MODULE QueryConnProofs --------------------------
(***************************************************************************)
(* Theorems about QueryConn for every set of concurrent queries, with or   *)
(* without spurious wakeups of the timer.                                  *)
(***************************************************************************)
EXTENDS QueryConn, TLAPS

LEMMA TypeInit == Init => TypeOK
<1> SUFFICES ASSUME Init PROVE TypeOK
  OBVIOUS
<1>1. scanning \in BOOLEAN
  BY Zenon DEF Init
<1> QED
  BY <1>1 DEF Init, TypeOK, QPCs, TPCs, Results, Answers

LEMMA TypeStep == TypeOK /\ [Next]_vars => TypeOK'
<1> SUFFICES ASSUME TypeOK, [Next]_vars PROVE TypeOK'
  OBVIOUS
<1> USE DEF TypeOK, QPCs, TPCs, Results, Answers, QGoto, TGoto, timerVars, scanVars
<1>1. CASE UNCHANGED vars
  BY <1>1 DEF vars
<1>2. CASE StartScan \/ EndScan
  <2>1. scanning' \in BOOLEAN
    BY <1>2, Zenon DEF StartScan, EndScan
  <2> QED
    BY <1>2, <2>1 DEF StartScan, EndScan
<1>3. ASSUME NEW q \in Queries, Call(q) \/ CallerStep(q) PROVE TypeOK'
  <2>1. CASE Call(q) \/ OpenConnection(q) \/ SpawnTimer(q) \/ SpawnPanics(q)
    BY <2>1 DEF Call, OpenConnection, SpawnTimer, SpawnPanics
  <2>2. CASE OpenFails(q)
    BY <2>2 DEF OpenFails
  <2>3. CASE SetDone(q) \/ Notify(q)
    BY <2>3 DEF SetDone, Notify
  <2>4. CASE JoinTimer(q)
    <3>1. AnswerOf(q) \in Answers
      BY DEF AnswerOf
    <3> QED
      BY <2>4, <3>1 DEF JoinTimer
  <2> QED
    BY <1>3, <2>1, <2>2, <2>3, <2>4 DEF CallerStep
<1>4. ASSUME NEW q \in Queries, NEW r \in {"ok", "err"}, RunReturns(q, r) PROVE TypeOK'
  BY <1>4 DEF RunReturns
<1>5. ASSUME NEW q \in Queries, RunPanics(q) PROVE TypeOK'
  BY <1>5 DEF RunPanics
<1>6. ASSUME NEW q \in Queries, TimerStep(q) \/ TimerWakesEarly(q) PROVE TypeOK'
  BY <1>6 DEF TimerStep, TimerWakesEarly, TimerStart, TimerTimesOut, TimerChecks,
              TimerGivesUp, TimerFires
<1> QED
  BY <1>1, <1>2, <1>3, <1>4, <1>5, <1>6 DEF Next

(* The callers, the timers and the flags between them keep their types. *)
THEOREM TypeCorrect == Spec => []TypeOK
BY TypeInit, TypeStep, PTL DEF Spec

-----------------------------------------------------------------------------
LEMMA TimerInit == Init => TimerInv
BY DEF Init, TimerInv

(* Every step of a caller, of a timer or of a scan keeps TimerInv. *)
LEMMA TimerInvStep == TypeOK /\ TimerInv /\ [Next]_vars => TimerInv'
<1> SUFFICES ASSUME TypeOK, TimerInv, [Next]_vars PROVE TimerInv'
  OBVIOUS
<1> USE DEF TypeOK, TimerInv, QGoto, TGoto, timerVars, scanVars
<1>1. CASE UNCHANGED vars
  BY <1>1 DEF vars
<1>2. CASE StartScan \/ EndScan
  BY <1>2 DEF StartScan, EndScan
<1>3. ASSUME NEW q \in Queries, Call(q) PROVE TimerInv'
  BY <1>3 DEF Call
<1>4. ASSUME NEW q \in Queries, OpenConnection(q) PROVE TimerInv'
  BY <1>4 DEF OpenConnection
<1>5. ASSUME NEW q \in Queries, OpenFails(q) PROVE TimerInv'
  BY <1>5 DEF OpenFails
<1>6. ASSUME NEW q \in Queries, SpawnTimer(q) PROVE TimerInv'
  BY <1>6 DEF SpawnTimer
<1>7. ASSUME NEW q \in Queries, SpawnPanics(q) PROVE TimerInv'
  BY <1>7 DEF SpawnPanics
<1>8. ASSUME NEW q \in Queries, NEW r \in {"ok", "err"}, RunReturns(q, r) PROVE TimerInv'
  BY <1>8 DEF RunReturns
<1>9. ASSUME NEW q \in Queries, RunPanics(q) PROVE TimerInv'
  BY <1>9 DEF RunPanics
<1>10. ASSUME NEW q \in Queries, SetDone(q) PROVE TimerInv'
  BY <1>10 DEF SetDone
<1>11. ASSUME NEW q \in Queries, Notify(q) PROVE TimerInv'
  BY <1>11 DEF Notify
<1>12. ASSUME NEW q \in Queries, JoinTimer(q) PROVE TimerInv'
  <2>1. AnswerOf(q) = "query_timeout" <=> fired[q]
    BY DEF AnswerOf
  <2> QED
    BY <1>12, <2>1 DEF JoinTimer
<1>13. ASSUME NEW q \in Queries, TimerStart(q) PROVE TimerInv'
  BY <1>13 DEF TimerStart
<1>14. ASSUME NEW q \in Queries, TimerTimesOut(q) PROVE TimerInv'
  BY <1>14 DEF TimerTimesOut
<1>15. ASSUME NEW q \in Queries, TimerWakesEarly(q) PROVE TimerInv'
  BY <1>15 DEF TimerWakesEarly
<1>16. ASSUME NEW q \in Queries, TimerChecks(q) PROVE TimerInv'
  BY <1>16 DEF TimerChecks
<1>17. ASSUME NEW q \in Queries, TimerGivesUp(q) PROVE TimerInv'
  BY <1>17 DEF TimerGivesUp
<1>18. ASSUME NEW q \in Queries, TimerFires(q) PROVE TimerInv'
  BY <1>18 DEF TimerFires
<1> QED
  BY <1>1, <1>2, <1>3, <1>4, <1>5, <1>6, <1>7, <1>8, <1>9, <1>10, <1>11, <1>12,
     <1>13, <1>14, <1>15, <1>16, <1>17, <1>18
  DEF Next, CallerStep, TimerStep

LEMMA TimerInvariant == Spec => [](TypeOK /\ TimerInv)
BY TypeCorrect, TimerInit, TimerInvStep, PTL DEF Spec

(* A returned call reports query_timeout exactly when its query was        *)
(* interrupted, whatever the race between the query, the timer and the     *)
(* clock.                                                                  *)
THEOREM TimeoutIffInterruptedAlways == Spec => []TimeoutIffInterrupted
<1>1. TimerInv => TimeoutIffInterrupted
  BY DEF TimerInv, TimeoutIffInterrupted
<1> QED
  BY <1>1, TimerInvariant, PTL

(* No interrupt is delivered to a query that has declared itself done, or  *)
(* on a connection whose call has returned.                                *)
THEOREM InterruptHitsOwnQueryAlways == Spec => InterruptHitsOwnQuery
<1>1. TypeOK /\ TimerInv /\ [Next]_vars =>
        [\A q \in Queries : ~interrupted[q] /\ interrupted'[q]
            => qpc[q] \in {"run", "finish", "unwound"}]_vars
  <2> SUFFICES ASSUME TypeOK, TimerInv, Next,
                      NEW q \in Queries, ~interrupted[q], interrupted'[q]
               PROVE  qpc[q] \in {"run", "finish", "unwound"}
    OBVIOUS
  <2>1. TimerFires(q)
    BY DEF Next, StartScan, EndScan, Call, CallerStep, OpenConnection, OpenFails,
           SpawnTimer, SpawnPanics, SetDone, Notify, JoinTimer, RunReturns, RunPanics,
           TimerStep, TimerStart, TimerTimesOut, TimerWakesEarly, TimerChecks,
           TimerGivesUp, TimerFires, timerVars, TypeOK
  <2>2. tpc[q] = "firing"
    BY <2>1 DEF TimerFires, TGoto
  <2> QED
    BY <2>2 DEF TypeOK, TimerInv, QPCs
<1> QED
  BY <1>1, TimerInvariant, PTL DEF Spec, InterruptHitsOwnQuery
=============================================================================
