----------------------------- MODULE Admission -----------------------------
(***************************************************************************)
(* src/admission_control.rs: the two-class query admission controller.     *)
(*                                                                         *)
(* Every request-handler thread that runs a query calls                    *)
(* reserve_query_with_wait, keeps the returned guard while the query runs  *)
(* and drops it afterwards (with_query_admission, http/compat_routes.rs).  *)
(* The counters live under one Mutex, so everything between a lock and the *)
(* next unlock is one action here.  Both classes sleep on ONE Condvar, and *)
(* a released slot is announced with notify_one after the unlock, so the   *)
(* release and its announcement are two actions.  The gauges are written   *)
(* after the unlock, one at a time, from a snapshot taken under the lock.  *)
(***************************************************************************)
EXTENDS Naturals, FiniteSets

CONSTANTS Threads,         \* request-handler threads
          Concurrency,     \* operator.query_interactive.concurrency
          CheapAdmission,  \* operator.cheap_query_admission_capacity
          WaitIsZero,      \* is operator.query_admission_wait zero?
          MaxCalls         \* bound: admission calls made in a behaviour

QueryClass == {"cheap", "heavy"}

(* OperatorConfig::validate rejects every other pair at startup. *)
ASSUME ConfigAssumption ==
    /\ Concurrency \in Nat
    /\ CheapAdmission \in Nat \ {0}
    /\ Concurrency > CheapAdmission
    /\ WaitIsZero \in BOOLEAN

ASSUME ThreadsAssumption ==
    /\ IsFiniteSet(Threads)
    /\ MaxCalls \in Nat

AtLeast(lo, n) == IF n < lo THEN lo ELSE n
AtMost(hi, n) == IF n > hi THEN hi ELSE n
SaturatingSub(m, n) == IF m > n THEN m - n ELSE 0

(* AdmissionController::new: at least one slot of each class. *)
CheapCapacity == AtLeast(1, AtMost(SaturatingSub(Concurrency, 1), CheapAdmission))
(* Mutant: the cheap slots are not taken out of the heavy capacity. *)
HeavyCapacity_NotReduced == Concurrency
HeavyCapacity == AtLeast(1, SaturatingSub(Concurrency, CheapCapacity))
Capacity == [c \in QueryClass |-> IF c = "cheap" THEN CheapCapacity ELSE HeavyCapacity]

VARIABLES active,      \* AdmissionState: cheap_query_active, heavy_query_active
          rejections,  \* AdmissionState.query_rejections_total
          pc,          \* where each thread is
          class,       \* the class of the thread's current (or last) call
          expired,     \* has the call's deadline passed?
          guard,       \* does the thread own a QueryAdmissionGuard?
          snap,        \* the AdmissionSnapshot the thread is about to emit
          gauge,       \* the admission_in_use gauges in the metrics registry
          calls,       \* history: calls made (bounded by MaxCalls)
          sent,        \* history: the classes of the calls made
          admitted     \* history: calls that returned a guard

vars == <<active, rejections, pc, class, expired, guard, snap, gauge, calls, sent, admitted>>

(***************************************************************************)
(* "lock": about to take the mutex for an iteration of the reserve loop;   *)
(* "wait": asleep on query_available; "cheapGauge" / "heavyGauge": about   *)
(* to write that gauge; "run": the query runs; "notify": the slot is given *)
(* back, notify_one is still to come.                                      *)
(***************************************************************************)
PCs == {"idle", "lock", "wait", "cheapGauge", "heavyGauge", "run", "notify"}

ZeroSlots == [c \in QueryClass |-> 0]

Init ==
    /\ active = ZeroSlots
    /\ rejections = 0
    /\ pc = [t \in Threads |-> "idle"]
    /\ class = [t \in Threads |-> "cheap"]
    /\ expired = [t \in Threads |-> FALSE]
    /\ guard = [t \in Threads |-> FALSE]
    /\ snap = [t \in Threads |-> ZeroSlots]
    /\ gauge = ZeroSlots
    /\ calls = 0
    /\ sent = {}
    /\ admitted = 0

Goto(t, from, to) ==
    /\ pc[t] = from
    /\ pc' = [pc EXCEPT ![t] = to]

HasSlot(c) == active[c] < Capacity[c]

Sleepers == {t \in Threads : pc[t] = "wait"}

-----------------------------------------------------------------------------
(* A request of class c reaches with_query_admission. *)
Reserve(t, c) ==
    /\ calls < MaxCalls
    /\ Goto(t, "idle", "lock")
    /\ class' = [class EXCEPT ![t] = c]
    /\ calls' = calls + 1
    /\ sent' = sent \cup {c}
    /\ UNCHANGED <<active, rejections, expired, guard, snap, gauge, admitted>>

(* snapshot_from_state at the end of a critical section: the thread leaves *)
(* the lock with the counters as it left them and its deadline is gone.    *)
LeaveLock(t) ==
    /\ Goto(t, "lock", "cheapGauge")
    /\ snap' = [snap EXCEPT ![t] = active']
    /\ expired' = [expired EXCEPT ![t] = FALSE]

(* try_reserve_query_locked returned true. *)
Admit(t) ==
    /\ HasSlot(class[t])
    /\ active' = [active EXCEPT ![class[t]] = @ + 1]
    /\ guard' = [guard EXCEPT ![t] = TRUE]
    /\ LeaveLock(t)
    /\ admitted' = admitted + 1
    /\ UNCHANGED <<rejections, class, gauge, calls, sent>>

(* Mutant: the deadline is tested before the slot is tried. *)
Reject_DeadlineFirst(t) ==
    /\ WaitIsZero \/ expired[t]
    /\ rejections' = rejections + 1
    /\ UNCHANGED <<active, class, guard, gauge, calls, sent, admitted>>
    /\ LeaveLock(t)

(* The loop found no slot, and may not or may no longer wait: 429. *)
Reject(t) ==
    /\ ~HasSlot(class[t])
    /\ WaitIsZero \/ expired[t]
    /\ rejections' = rejections + 1
    /\ UNCHANGED <<active, class, guard, gauge, calls, sent, admitted>>
    /\ LeaveLock(t)

(* The loop found no slot and time is left: wait_timeout. *)
Sleep(t) ==
    /\ ~HasSlot(class[t])
    /\ ~WaitIsZero
    /\ ~expired[t]
    /\ Goto(t, "lock", "wait")
    /\ UNCHANGED <<active, rejections, class, expired, guard, snap, gauge, calls, sent, admitted>>

(* The clock reaches the deadline of a call that is still in the loop. *)
Expire(t) ==
    /\ pc[t] \in {"lock", "wait"}
    /\ ~WaitIsZero
    /\ ~expired[t]
    /\ expired' = [expired EXCEPT ![t] = TRUE]
    /\ UNCHANGED <<active, rejections, pc, class, guard, snap, gauge, calls, sent, admitted>>

(* Mutant: a plain wait, woken by notify_one only. *)
TimeoutWake_Never(t) == FALSE

(* wait_timeout returns because its time is up. *)
TimeoutWake(t) ==
    /\ expired[t]
    /\ Goto(t, "wait", "lock")
    /\ UNCHANGED <<active, rejections, class, expired, guard, snap, gauge, calls, sent, admitted>>

(* wait_timeout may also return for no reason at all. *)
SpuriousWake(t) ==
    /\ ~expired[t]
    /\ Goto(t, "wait", "lock")
    /\ UNCHANGED <<active, rejections, class, expired, guard, snap, gauge, calls, sent, admitted>>

-----------------------------------------------------------------------------
(* emit_admission_gauges, called with the lock released: the capacity      *)
(* gauges are constant, the in-use gauges are two separate writes.  The    *)
(* call then returns: to its query, or with a 429 / to the scrape.         *)
EmitCheap(t) ==
    /\ Goto(t, "cheapGauge", "heavyGauge")
    /\ gauge' = [gauge EXCEPT !["cheap"] = snap[t]["cheap"]]
    /\ UNCHANGED <<active, rejections, class, expired, guard, snap, calls, sent, admitted>>

(* Mutant: the heavy gauge is written only when a query was admitted. *)
EmitHeavy_OnAdmit(t) ==
    /\ Goto(t, "heavyGauge", IF guard[t] THEN "run" ELSE "idle")
    /\ gauge' = [gauge EXCEPT !["heavy"] = IF guard[t] THEN snap[t]["heavy"] ELSE @]
    /\ snap' = [snap EXCEPT ![t] = ZeroSlots]
    /\ UNCHANGED <<active, rejections, class, expired, guard, calls, sent, admitted>>

EmitHeavy(t) ==
    /\ Goto(t, "heavyGauge", IF guard[t] THEN "run" ELSE "idle")
    /\ gauge' = [gauge EXCEPT !["heavy"] = snap[t]["heavy"]]
    /\ snap' = [snap EXCEPT ![t] = ZeroSlots]
    /\ UNCHANGED <<active, rejections, class, expired, guard, calls, sent, admitted>>

(* record_metrics, from GET /metrics: snapshot under the lock, then emit.  *)
RecordMetrics(t) ==
    /\ Goto(t, "idle", "cheapGauge")
    /\ snap' = [snap EXCEPT ![t] = active]
    /\ UNCHANGED <<active, rejections, class, expired, guard, gauge, calls, sent, admitted>>

-----------------------------------------------------------------------------
(* The query returns (or unwinds) and the guard is dropped: the slot goes  *)
(* back under the lock ...                                                 *)
DropGuard(t) ==
    /\ Goto(t, "run", "notify")
    /\ active' = [active EXCEPT ![class[t]] = SaturatingSub(@, 1)]
    /\ guard' = [guard EXCEPT ![t] = FALSE]
    /\ UNCHANGED <<rejections, class, expired, snap, gauge, calls, sent, admitted>>

(* Mutant: the guard's drop forgets to notify. *)
NotifyOne_Forgotten(t) ==
    /\ Goto(t, "notify", "idle")
    /\ UNCHANGED <<active, rejections, class, expired, guard, snap, gauge, calls, sent, admitted>>

(* ... and notify_one, after the unlock, wakes any one sleeper, of either  *)
(* class; with nobody asleep it does nothing.                              *)
NotifyOne(t) ==
    /\ pc[t] = "notify"
    /\ \/ /\ Sleepers = {}
          /\ pc' = [pc EXCEPT ![t] = "idle"]
       \/ \E s \in Sleepers : pc' = [pc EXCEPT ![t] = "idle", ![s] = "lock"]
    /\ UNCHANGED <<active, rejections, class, expired, guard, snap, gauge, calls, sent, admitted>>

-----------------------------------------------------------------------------
LoopIteration(t) == Admit(t) \/ Reject(t) \/ Sleep(t)

AdmissionStep(t) ==
    \/ LoopIteration(t)
    \/ TimeoutWake(t)
    \/ EmitCheap(t)
    \/ EmitHeavy(t)
    \/ NotifyOne(t)

ThreadStep(t) == AdmissionStep(t) \/ DropGuard(t)

Next == \E t \in Threads :
    \/ \E c \in QueryClass : Reserve(t, c)
    \/ ThreadStep(t)
    \/ Expire(t)
    \/ SpuriousWake(t)
    \/ RecordMetrics(t)

Spec == Init /\ [][Next]_vars

(***************************************************************************)
(* A thread inside the controller runs (the mutex is only ever held for a  *)
(* few instructions) and the clock advances.  The queries owe nothing: one *)
(* that holds a slot may run forever.  Nothing makes requests or scrapes   *)
(* arrive, nothing makes a wakeup spurious.                                *)
(***************************************************************************)
Fairness == \A t \in Threads : WF_vars(AdmissionStep(t)) /\ WF_vars(Expire(t))

FairSpec == Spec /\ Fairness

-----------------------------------------------------------------------------
TypeOK ==
    /\ active \in [QueryClass -> Nat]
    /\ rejections \in Nat
    /\ pc \in [Threads -> PCs]
    /\ class \in [Threads -> QueryClass]
    /\ expired \in [Threads -> BOOLEAN]
    /\ guard \in [Threads -> BOOLEAN]
    /\ snap \in [Threads -> [QueryClass -> Nat]]
    /\ gauge \in [QueryClass -> Nat]
    /\ calls \in Nat
    /\ sent \subseteq QueryClass
    /\ admitted \in Nat

Owners(c) == {t \in Threads : guard[t] /\ class[t] = c}
Pending == {t \in Threads : pc[t] \in {"lock", "wait"}}
Awake == {t \in Threads : pc[t] \in {"notify", "lock"}}

(* The counter of each class is the number of guards of that class that    *)
(* exist: no path (429, timeout, unwinding, saturating_sub) leaks a slot   *)
(* or gives one back twice.                                                *)
SlotsMatchGuards == \A c \in QueryClass : active[c] = Cardinality(Owners(c))

(* The two classes together never run more queries than the configured     *)
(* interactive concurrency, and each stays within its own capacity.        *)
WithinConcurrency ==
    /\ \A c \in QueryClass : active[c] <= Capacity[c]
    /\ active["cheap"] + active["heavy"] <= Concurrency

(* Each call is answered exactly once: it is still in the loop, or it got  *)
(* a guard, or it was counted in query_rejections_total.                   *)
CallsAccountedFor == calls = Cardinality(Pending) + admitted + rejections

(* As long as the calls are of a single class, a slot is never free while  *)
(* a query sleeps unless a wakeup is on its way: somebody still has to    *)
(* notify, or is awake and about to try.  (Once both classes wait on the   *)
(* one condition variable a wakeup can go to a sleeper of the class that   *)
(* is still full.)                                                         *)
NoLostWakeup == \A c \in QueryClass :
    sent = {c} /\ Sleepers # {} =>
        Capacity[c] <= active[c] + Cardinality(Awake)

(* Every call leaves the reserve loop, whatever wakeups go astray and even *)
(* if no query ever gives its slot back: the deadline sees to it.          *)
EveryCallAnswered == \A t \in Threads : t \in Pending ~> t \notin Pending

(* In-use gauges are written out of order and not at all on release, but   *)
(* if /metrics keeps being scraped they settle on the true counts once the *)
(* (boundedly many) calls are over.                                        *)
GaugesConverge ==
    []<><<\E t \in Threads : RecordMetrics(t)>>_vars => <>[](gauge = active)

-----------------------------------------------------------------------------
(* The strengthening that makes the slot invariants inductive: a guard     *)
(* lives from the end of the reserve loop to the end of the query, each    *)
(* class stays within its capacity, and a call keeps the class it came     *)
(* with.                                                                   *)
GuardPositions == \A t \in Threads :
    /\ guard[t] => pc[t] \in {"cheapGauge", "heavyGauge", "run"}
    /\ pc[t] = "run" => guard[t]

CapacityRespected == \A c \in QueryClass : active[c] <= Capacity[c]

CalledClasses == \A t \in Threads :
    pc[t] \in {"lock", "wait"} \/ guard[t] => class[t] \in sent

SlotInv ==
    /\ TypeOK
    /\ SlotsMatchGuards
    /\ GuardPositions
    /\ CapacityRespected

(* Refinement: a guard is a held slot, a thread in the loop is pending.    *)
Semaphore == INSTANCE AdmissionSpec WITH
    call <- [t \in Threads |-> IF guard[t] THEN "held"
                               ELSE IF pc[t] \in {"lock", "wait"} THEN "pending"
                               ELSE "none"]

(* The controller implements the two-class semaphore: a query is admitted  *)
(* only into a free slot of its own class and gets a 429 only when its     *)
(* class is full at that moment, even at the deadline.                     *)
ImplementsSemaphore == Semaphore!Spec
=============================================================================
