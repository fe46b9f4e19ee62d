----------------------------- MODULE QueryConn -----------------------------
(***************************************************************************)
(* src/storage/query_conn.rs: a query on a connection of its own, raced by *)
(* a timer thread that interrupts it.                                      *)
(*                                                                         *)
(* with_query_conn clones the reader connection under the reader mutex     *)
(* (which health scans hold for as long as they run), starts a timer       *)
(* thread, runs the query closure, and then sets `done` under the mutex    *)
(* the timer uses, notifies, and joins the timer: a timer that fired turns *)
(* any result into a QueryTimeoutError.  Each query has its own `done`     *)
(* mutex and condition variable; queries share only the reader mutex.      *)
(***************************************************************************)
EXTENDS Naturals

CONSTANTS Queries,          \* calls of with_query_conn, one each
          SpuriousWakeups,  \* may Condvar::wait_timeout return early?
          MaxScans          \* bound: health scans started in a behaviour

ASSUME QueryConnAssumption == SpuriousWakeups \in BOOLEAN /\ MaxScans \in Nat

VARIABLES scanning,     \* a health scan holds the reader mutex (with_conn)
          scans,        \* history: scans started
          qpc,          \* where the calling thread is
          tpc,          \* where its timer thread is
          lock,         \* the `done` mutex: "free" or held by the firing "timer"
          done,         \* the flag the mutex protects
          timedOut,     \* WaitTimeoutResult::timed_out of the timer's wait
          interrupted,  \* InterruptHandle::interrupt was called
          fired,        \* the timer thread's return value
          result,       \* what the query closure returned
          answer        \* what the caller of run_interactive gets

vars == <<scanning, scans, qpc, tpc, lock, done, timedOut, interrupted, fired, result, answer>>

QPCs == {"idle", "open", "spawn", "run", "finish", "notify", "join", "returned", "unwound"}
TPCs == {"none", "start", "wait", "relock", "firing", "exited"}
Results == {"none", "ok", "err"}
Answers == {"none", "ok", "query_timeout", "query_storage_unavailable"}

Init ==
    /\ scanning = FALSE
    /\ scans = 0
    /\ qpc = [q \in Queries |-> "idle"]
    /\ tpc = [q \in Queries |-> "none"]
    /\ lock = [q \in Queries |-> "free"]
    /\ done = [q \in Queries |-> FALSE]
    /\ timedOut = [q \in Queries |-> FALSE]
    /\ interrupted = [q \in Queries |-> FALSE]
    /\ fired = [q \in Queries |-> FALSE]
    /\ result = [q \in Queries |-> "none"]
    /\ answer = [q \in Queries |-> "none"]

QGoto(q, from, to) ==
    /\ qpc[q] = from
    /\ qpc' = [qpc EXCEPT ![q] = to]

TGoto(q, from, to) ==
    /\ tpc[q] = from
    /\ tpc' = [tpc EXCEPT ![q] = to]

timerVars == <<tpc, lock, done, timedOut, interrupted, fired>>
scanVars == <<scanning, scans>>

-----------------------------------------------------------------------------
(* with_conn / check_health_target: a scan holds the reader mutex. *)
StartScan ==
    /\ scans < MaxScans
    /\ ~scanning
    /\ scanning' = TRUE
    /\ scans' = scans + 1
    /\ UNCHANGED <<qpc, timerVars, result, answer>>

EndScan ==
    /\ scanning
    /\ scanning' = FALSE
    /\ UNCHANGED <<scans, qpc, timerVars, result, answer>>

-----------------------------------------------------------------------------
(* The calling thread. *)
Call(q) ==
    /\ QGoto(q, "idle", "open")
    /\ UNCHANGED <<scanVars, timerVars, result, answer>>

(* open_scoped_query_connection and SET memory_limit: clone under the      *)
(* reader mutex, configure outside it.  No timer runs yet.                 *)
OpenConnection(q) ==
    /\ ~scanning
    /\ QGoto(q, "open", "spawn")
    /\ UNCHANGED <<scanVars, timerVars, result, answer>>

OpenFails(q) ==
    /\ ~scanning
    /\ QGoto(q, "open", "returned")
    /\ answer' = [answer EXCEPT ![q] = "query_storage_unavailable"]
    /\ UNCHANGED <<scanVars, timerVars, result>>

SpawnTimer(q) ==
    /\ QGoto(q, "spawn", "run")
    /\ tpc' = [tpc EXCEPT ![q] = "start"]
    /\ UNCHANGED <<scanVars, lock, done, timedOut, interrupted, fired, result, answer>>

(* thread::spawn panics when the OS has no thread to give. *)
SpawnPanics(q) ==
    /\ QGoto(q, "spawn", "unwound")
    /\ UNCHANGED <<scanVars, timerVars, result, answer>>

(* The closure returns; an interrupted query may still race to Ok. *)
RunReturns(q, r) ==
    /\ QGoto(q, "run", "finish")
    /\ result' = [result EXCEPT ![q] = r]
    /\ UNCHANGED <<scanVars, timerVars, answer>>

(* The closure panics: the connection is dropped, `done` is never set. *)
RunPanics(q) ==
    /\ QGoto(q, "run", "unwound")
    /\ UNCHANGED <<scanVars, timerVars, result, answer>>

(* Mutant: `done` is a plain flag, set without the mutex. *)
SetDone_Unlocked(q) ==
    /\ QGoto(q, "finish", "notify")
    /\ done' = [done EXCEPT ![q] = TRUE]
    /\ UNCHANGED <<scanVars, tpc, lock, timedOut, interrupted, fired, result, answer>>

SetDone(q) ==
    /\ QGoto(q, "finish", "notify")
    /\ lock[q] = "free"
    /\ done' = [done EXCEPT ![q] = TRUE]
    /\ UNCHANGED <<scanVars, tpc, lock, timedOut, interrupted, fired, result, answer>>

(* notify_one, after the unlock: a timer that is not asleep misses it. *)
Notify(q) ==
    /\ QGoto(q, "notify", "join")
    /\ tpc' = [tpc EXCEPT ![q] = IF @ = "wait" THEN "relock" ELSE @]
    /\ UNCHANGED <<scanVars, lock, done, timedOut, interrupted, fired, result, answer>>

(* Mutant: a query that raced to Ok is believed over its timer. *)
AnswerOf_PreferOk(q) ==
    CASE result[q] = "ok" -> "ok"
      [] result[q] # "ok" /\ fired[q] -> "query_timeout"
      [] OTHER -> "query_storage_unavailable"

(* run_interactive / storage_err: the answer for the caller. *)
AnswerOf(q) ==
    CASE fired[q] -> "query_timeout"
      [] ~fired[q] /\ result[q] = "ok" -> "ok"
      [] OTHER -> "query_storage_unavailable"

JoinTimer(q) ==
    /\ QGoto(q, "join", "returned")
    /\ tpc[q] = "exited"
    /\ answer' = [answer EXCEPT ![q] = AnswerOf(q)]
    /\ UNCHANGED <<scanVars, timerVars, result>>

-----------------------------------------------------------------------------
(* The timer thread.  It first takes the mutex; a query that is already    *)
(* done ends it, otherwise it goes to sleep (releasing the mutex).         *)
TimerStart(q) ==
    /\ TGoto(q, "start", IF done[q] THEN "exited" ELSE "wait")
    /\ UNCHANGED <<scanVars, qpc, lock, done, timedOut, interrupted, fired, result, answer>>

(* Mutant: the timer waits without a timeout. *)
TimerTimesOut_Never(q) == FALSE

TimerTimesOut(q) ==
    /\ TGoto(q, "wait", "relock")
    /\ timedOut' = [timedOut EXCEPT ![q] = TRUE]
    /\ UNCHANGED <<scanVars, qpc, lock, done, interrupted, fired, result, answer>>

(* The wait is not in a loop: an early wakeup is taken for a notification. *)
TimerWakesEarly(q) ==
    /\ SpuriousWakeups
    /\ TGoto(q, "wait", "relock")
    /\ UNCHANGED <<scanVars, qpc, lock, done, timedOut, interrupted, fired, result, answer>>

(* wait_timeout takes the mutex again; a timeout of a query that is not    *)
(* done keeps it ...                                                       *)
TimerChecks(q) ==
    /\ ~done[q] /\ timedOut[q]
    /\ TGoto(q, "relock", "firing")
    /\ lock' = [lock EXCEPT ![q] = "timer"]
    /\ UNCHANGED <<scanVars, qpc, done, timedOut, interrupted, fired, result, answer>>

(* Mutant: the timer may give up although the query ran out of time. *)
TimerGivesUp_Always(q) ==
    /\ TGoto(q, "relock", "exited")
    /\ UNCHANGED <<scanVars, qpc, lock, done, timedOut, interrupted, fired, result, answer>>

(* ... anything else ends the timer, which releases it. *)
TimerGivesUp(q) ==
    /\ done[q] \/ ~timedOut[q]
    /\ TGoto(q, "relock", "exited")
    /\ UNCHANGED <<scanVars, qpc, lock, done, timedOut, interrupted, fired, result, answer>>

(* interrupt(), return true, and the mutex guard is dropped. *)
TimerFires(q) ==
    /\ TGoto(q, "firing", "exited")
    /\ interrupted' = [interrupted EXCEPT ![q] = TRUE]
    /\ fired' = [fired EXCEPT ![q] = TRUE]
    /\ lock' = [lock EXCEPT ![q] = "free"]
    /\ UNCHANGED <<scanVars, qpc, done, timedOut, result, answer>>

-----------------------------------------------------------------------------
CallerStep(q) ==
    \/ OpenConnection(q)
    \/ OpenFails(q)
    \/ SpawnTimer(q)
    \/ SpawnPanics(q)
    \/ SetDone(q)
    \/ Notify(q)
    \/ JoinTimer(q)

TimerStep(q) ==
    \/ TimerStart(q)
    \/ TimerTimesOut(q)
    \/ TimerChecks(q)
    \/ TimerGivesUp(q)
    \/ TimerFires(q)

Next ==
    \/ StartScan
    \/ EndScan
    \/ \E q \in Queries :
        \/ Call(q)
        \/ CallerStep(q)
        \/ \E r \in {"ok", "err"} : RunReturns(q, r)
        \/ RunPanics(q)
        \/ TimerStep(q)
        \/ TimerWakesEarly(q)

Spec == Init /\ [][Next]_vars

(***************************************************************************)
(* Threads that can run do run and the clock advances.  The engine owes    *)
(* nothing to a query that is not interrupted: it may run forever.  Once   *)
(* interrupted it returns.  Scans end.                                     *)
(***************************************************************************)
Fairness ==
    /\ WF_vars(EndScan)
    /\ \A q \in Queries :
        /\ WF_vars(CallerStep(q))
        /\ WF_vars(TimerStep(q))
        /\ WF_vars(interrupted[q] /\ \E r \in {"ok", "err"} : RunReturns(q, r))

FairSpec == Spec /\ Fairness

-----------------------------------------------------------------------------
TypeOK ==
    /\ scanning \in BOOLEAN
    /\ scans \in Nat
    /\ qpc \in [Queries -> QPCs]
    /\ tpc \in [Queries -> TPCs]
    /\ lock \in [Queries -> {"free", "timer"}]
    /\ done \in [Queries -> BOOLEAN]
    /\ timedOut \in [Queries -> BOOLEAN]
    /\ interrupted \in [Queries -> BOOLEAN]
    /\ fired \in [Queries -> BOOLEAN]
    /\ result \in [Queries -> Results]
    /\ answer \in [Queries -> Answers]

(* An interrupt only ever reaches a query that has not declared itself     *)
(* done, on a connection that is still open (or was dropped by a panic).   *)
InterruptHitsOwnQuery ==
    [][\A q \in Queries : ~interrupted[q] /\ interrupted'[q]
            => qpc[q] \in {"run", "finish", "unwound"}]_vars

(* A call that returns reports a timeout exactly when its query was        *)
(* interrupted: an interrupted query is never passed off as a result or a  *)
(* storage error, and a query that finished in time never as a timeout.    *)
TimeoutIffInterrupted == \A q \in Queries :
    qpc[q] = "returned" => (answer[q] = "query_timeout" <=> interrupted[q])

(* The strengthening that makes the two properties inductive: the mutex is *)
(* held exactly while the timer fires, `done` is set exactly once the      *)
(* closure has returned, and a call returns only after its timer exited.   *)
TimerInv == \A q \in Queries :
    /\ lock[q] = "timer" <=> tpc[q] = "firing"
    /\ tpc[q] = "firing" => ~done[q]
    /\ qpc[q] \in {"idle", "open", "spawn"} => tpc[q] = "none"
    /\ qpc[q] \in {"notify", "join"} => done[q]
    /\ interrupted[q] <=> fired[q]
    /\ fired[q] => tpc[q] = "exited"
    /\ qpc[q] = "returned" => /\ tpc[q] \in {"none", "exited"}
                              /\ answer[q] = "query_timeout" <=> fired[q]

(* Server-owned timeouts: every call returns (or unwinds), although        *)
(* nothing but the interrupt stops a query that runs forever.  An early    *)
(* wakeup of the timer breaks this.                                        *)
EveryCallReturns == \A q \in Queries :
    qpc[q] = "open" ~> qpc[q] \in {"returned", "unwound"}

(* An early wakeup is the only way to lose the timeout: a call returns (or *)
(* unwinds) unless its timer left before the time was up.                  *)
ReturnsUnlessWokenEarly == \A q \in Queries :
    qpc[q] = "open" ~> \/ qpc[q] \in {"returned", "unwound"}
                       \/ tpc[q] = "exited" /\ ~timedOut[q]

(* No timer thread outlives its timeout, not even after a panic.           *)
EveryTimerExits == \A q \in Queries : tpc[q] = "start" ~> tpc[q] = "exited"
=============================================================================
