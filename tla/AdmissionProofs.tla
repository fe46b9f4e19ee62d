-------------------------- MODULE AdmissionProofs --------------------------
(***************************************************************************)
(* Theorems about Admission for every set of threads, every valid pair of  *)
(* capacities and every bound on the number of calls.                      *)
(***************************************************************************)
EXTENDS Admission, FiniteSetTheorems, TLAPS

-----------------------------------------------------------------------------
(* Each class has at least one slot, and a valid configuration splits the  *)
(* interactive concurrency exactly between the classes.                    *)
LEMMA CapacitySplit ==
    /\ CheapCapacity \in Nat \ {0}
    /\ HeavyCapacity \in Nat \ {0}
    /\ CheapCapacity + HeavyCapacity = Concurrency
BY ConfigAssumption DEF CheapCapacity, HeavyCapacity, AtLeast, AtMost, SaturatingSub

(* Capacity is the pair of the two capacities. *)
LEMMA CapacityType ==
    /\ Capacity \in [QueryClass -> Nat \ {0}]
    /\ Capacity["cheap"] + Capacity["heavy"] = Concurrency
BY CapacitySplit DEF Capacity, QueryClass

-----------------------------------------------------------------------------
(* TypeOK holds initially ... *)
LEMMA TypeInit == Init => TypeOK
BY DEF Init, TypeOK, PCs, QueryClass, ZeroSlots

(* ... and every step keeps it. *)
LEMMA TypeStep == TypeOK /\ [Next]_vars => TypeOK'
<1> SUFFICES ASSUME TypeOK, [Next]_vars PROVE TypeOK'
  OBVIOUS
<1> USE DEF TypeOK, PCs, Goto, SaturatingSub
<1>1. CASE UNCHANGED vars
  BY <1>1 DEF vars
<1>2. ASSUME NEW t \in Threads, NEW c \in QueryClass, Reserve(t, c)
      PROVE TypeOK'
  BY <1>2 DEF Reserve
<1>3. ASSUME NEW t \in Threads, Admit(t) PROVE TypeOK'
  BY <1>3 DEF Admit, LeaveLock
<1>4. ASSUME NEW t \in Threads, Reject(t) PROVE TypeOK'
  BY <1>4 DEF Reject, LeaveLock
<1>5. ASSUME NEW t \in Threads, Sleep(t) PROVE TypeOK'
  BY <1>5 DEF Sleep
<1>6. ASSUME NEW t \in Threads, Expire(t) PROVE TypeOK'
  BY <1>6 DEF Expire
<1>7. ASSUME NEW t \in Threads, TimeoutWake(t) PROVE TypeOK'
  BY <1>7 DEF TimeoutWake
<1>8. ASSUME NEW t \in Threads, SpuriousWake(t) PROVE TypeOK'
  BY <1>8 DEF SpuriousWake
<1>9. ASSUME NEW t \in Threads, EmitCheap(t) PROVE TypeOK'
  BY <1>9 DEF EmitCheap, QueryClass
<1>10. ASSUME NEW t \in Threads, EmitHeavy(t) PROVE TypeOK'
  BY <1>10 DEF EmitHeavy, ZeroSlots, QueryClass
<1>11. ASSUME NEW t \in Threads, RecordMetrics(t) PROVE TypeOK'
  BY <1>11 DEF RecordMetrics
<1>12. ASSUME NEW t \in Threads, DropGuard(t) PROVE TypeOK'
  BY <1>12 DEF DropGuard
<1>13. ASSUME NEW t \in Threads, NotifyOne(t) PROVE TypeOK'
  BY <1>13 DEF NotifyOne, Sleepers
<1> QED
  BY <1>1, <1>2, <1>3, <1>4, <1>5, <1>6, <1>7, <1>8, <1>9, <1>10, <1>11, <1>12, <1>13
  DEF Next, ThreadStep, AdmissionStep, LoopIteration

(* The state of the admission controller, the threads' positions and the   *)
(* gauges always have their types.                                         *)
THEOREM TypeCorrect == Spec => []TypeOK
BY TypeInit, TypeStep, PTL DEF Spec

-----------------------------------------------------------------------------
(* How the cardinality of a set of threads changes with one thread. *)
LEMMA CountIn ==
    ASSUME NEW S, NEW T, NEW x, IsFiniteSet(S), x \notin S, T = S \cup {x}
    PROVE  /\ Cardinality(T) = Cardinality(S) + 1
           /\ Cardinality(S) \in Nat
BY FS_AddElement, FS_CardinalityType

LEMMA CountOut ==
    ASSUME NEW S, NEW T, NEW x, IsFiniteSet(S), x \in S, T = S \ {x}
    PROVE  /\ Cardinality(T) = Cardinality(S) - 1
           /\ Cardinality(S) \in Nat \ {0}
<1>1. Cardinality(T) = Cardinality(S) - 1 /\ Cardinality(S) \in Nat
  BY FS_RemoveElement, FS_CardinalityType
<1>2. Cardinality(S) # 0
  BY FS_EmptySet
<1> QED
  BY <1>1, <1>2

(* Owners, Pending and Awake are finite. *)
LEMMA ThreadSetsFinite ==
    /\ \A c : IsFiniteSet(Owners(c))
    /\ IsFiniteSet(Pending)
    /\ IsFiniteSet(Awake)
<1>1. \A S \in SUBSET Threads : IsFiniteSet(S)
  BY ThreadsAssumption, FS_Subset
<1> QED
  BY <1>1 DEF Owners, Pending, Awake

-----------------------------------------------------------------------------
LEMMA SlotInit == Init => SlotInv
<1> SUFFICES ASSUME Init PROVE SlotInv
  OBVIOUS
<1>1. \A c \in QueryClass : Owners(c) = {}
  BY DEF Init, Owners
<1>2. SlotsMatchGuards
  BY <1>1, FS_EmptySet DEF Init, SlotsMatchGuards, ZeroSlots
<1>3. CapacityRespected
  BY CapacityType DEF Init, CapacityRespected, ZeroSlots
<1>4. GuardPositions
  BY DEF Init, GuardPositions
<1> QED
  BY <1>2, <1>3, <1>4, TypeInit DEF SlotInv

(* The steps that neither create nor destroy a guard. *)
LEMMA SlotsKept ==
    ASSUME SlotInv, TypeOK', UNCHANGED <<active, guard>>, GuardPositions',
           \A t \in Threads : guard[t] => class'[t] = class[t]
    PROVE  SlotInv'
<1>1. \A c \in QueryClass : Owners(c)' = Owners(c)
  BY DEF Owners
<1>2. SlotsMatchGuards'
  BY <1>1 DEF SlotInv, SlotsMatchGuards
<1> QED
  BY <1>2 DEF SlotInv, CapacityRespected

LEMMA SlotStep == SlotInv /\ [Next]_vars => SlotInv'
<1> SUFFICES ASSUME SlotInv, [Next]_vars PROVE SlotInv'
  OBVIOUS
<1>t. TypeOK /\ TypeOK'
  BY TypeStep DEF SlotInv
<1> USE <1>t DEF Goto
<1>1. CASE UNCHANGED vars
  BY <1>1, SlotsKept DEF vars, SlotInv, GuardPositions
<1>2. ASSUME NEW t \in Threads, NEW c \in QueryClass, Reserve(t, c)
      PROVE SlotInv'
  BY <1>2, SlotsKept DEF Reserve, SlotInv, GuardPositions, TypeOK
<1>3. ASSUME NEW t \in Threads, Admit(t) PROVE SlotInv'
  <2>p. PICK k \in QueryClass : k = class[t]
    BY DEF TypeOK
  <2>0. k = class[t] /\ pc[t] = "lock" /\ ~guard[t]
    BY <1>3, <2>p DEF Admit, LeaveLock, TypeOK, SlotInv, GuardPositions
  <2>1. Owners(k)' = Owners(k) \cup {t} /\ t \notin Owners(k)
    BY <1>3, <2>0 DEF Admit, Owners, TypeOK
  <2>2. \A c \in QueryClass \ {k} : Owners(c)' = Owners(c)
    BY <1>3, <2>0 DEF Admit, Owners, TypeOK
  <2>3. Cardinality(Owners(k)') = Cardinality(Owners(k)) + 1
    BY <2>1, CountIn, ThreadSetsFinite
  <2>4. active' = [active EXCEPT ![k] = @ + 1] /\ active[k] < Capacity[k]
    BY <1>3, <2>0 DEF Admit, HasSlot
  <2>5. SlotsMatchGuards'
    BY <2>0, <2>2, <2>3, <2>4 DEF SlotInv, SlotsMatchGuards, TypeOK
  <2>6. CapacityRespected'
    <3> SUFFICES ASSUME NEW c \in QueryClass PROVE active'[c] <= Capacity[c]
      BY DEF CapacityRespected
    <3>1. active[c] \in Nat /\ Capacity[c] \in Nat /\ active[c] <= Capacity[c]
      BY CapacityType DEF SlotInv, CapacityRespected, TypeOK
    <3>2. active'[c] = IF c = k THEN active[c] + 1 ELSE active[c]
      BY <2>4 DEF TypeOK
    <3> QED
      BY <2>4, <3>1, <3>2
  <2>7. GuardPositions'
    BY <1>3, <2>0 DEF Admit, LeaveLock, SlotInv, GuardPositions, TypeOK
  <2> QED
    BY <2>5, <2>6, <2>7 DEF SlotInv
<1>4. ASSUME NEW t \in Threads, Reject(t) PROVE SlotInv'
  BY <1>4, SlotsKept DEF Reject, LeaveLock, SlotInv, GuardPositions, TypeOK
<1>5. ASSUME NEW t \in Threads, Sleep(t) PROVE SlotInv'
  BY <1>5, SlotsKept DEF Sleep, SlotInv, GuardPositions, TypeOK
<1>6. ASSUME NEW t \in Threads, Expire(t) PROVE SlotInv'
  BY <1>6, SlotsKept DEF Expire, SlotInv, GuardPositions, TypeOK
<1>7. ASSUME NEW t \in Threads, TimeoutWake(t) PROVE SlotInv'
  BY <1>7, SlotsKept DEF TimeoutWake, SlotInv, GuardPositions, TypeOK
<1>8. ASSUME NEW t \in Threads, SpuriousWake(t) PROVE SlotInv'
  BY <1>8, SlotsKept DEF SpuriousWake, SlotInv, GuardPositions, TypeOK
<1>9. ASSUME NEW t \in Threads, EmitCheap(t) PROVE SlotInv'
  BY <1>9, SlotsKept DEF EmitCheap, SlotInv, GuardPositions, TypeOK
<1>10. ASSUME NEW t \in Threads, EmitHeavy(t) PROVE SlotInv'
  BY <1>10, SlotsKept DEF EmitHeavy, SlotInv, GuardPositions, TypeOK
<1>11. ASSUME NEW t \in Threads, RecordMetrics(t) PROVE SlotInv'
  BY <1>11, SlotsKept DEF RecordMetrics, SlotInv, GuardPositions, TypeOK
<1>12. ASSUME NEW t \in Threads, DropGuard(t) PROVE SlotInv'
  <2>p. PICK k \in QueryClass : k = class[t]
    BY DEF TypeOK
  <2>0. k = class[t] /\ pc[t] = "run" /\ guard[t]
    BY <1>12, <2>p DEF DropGuard, TypeOK, SlotInv, GuardPositions
  <2>1. Owners(k)' = Owners(k) \ {t} /\ t \in Owners(k)
    BY <1>12, <2>0 DEF DropGuard, Owners, TypeOK
  <2>2. \A c \in QueryClass \ {k} : Owners(c)' = Owners(c)
    BY <1>12, <2>0 DEF DropGuard, Owners, TypeOK
  <2>3. /\ Cardinality(Owners(k)') = Cardinality(Owners(k)) - 1
        /\ Cardinality(Owners(k)) \in Nat \ {0}
    BY <2>1, CountOut, ThreadSetsFinite
  <2>4. active[k] = Cardinality(Owners(k))
    BY <2>0 DEF SlotInv, SlotsMatchGuards
  <2>a. SaturatingSub(active[k], 1) = active[k] - 1
    BY <2>3, <2>4 DEF SaturatingSub
  <2>5. active' = [active EXCEPT ![k] = active[k] - 1]
    BY <1>12, <2>0, <2>a DEF DropGuard
  <2>6. SlotsMatchGuards'
    BY <2>0, <2>2, <2>3, <2>4, <2>5 DEF SlotInv, SlotsMatchGuards, TypeOK
  <2>7. CapacityRespected'
    <3> SUFFICES ASSUME NEW c \in QueryClass PROVE active'[c] <= Capacity[c]
      BY DEF CapacityRespected
    <3>1. active[c] \in Nat /\ Capacity[c] \in Nat /\ active[c] <= Capacity[c]
      BY CapacityType DEF SlotInv, CapacityRespected, TypeOK
    <3>2. active'[c] = IF c = k THEN active[c] - 1 ELSE active[c]
      BY <2>5 DEF TypeOK
    <3> QED
      BY <3>1, <3>2
  <2>8. GuardPositions'
    BY <1>12, <2>0 DEF DropGuard, SlotInv, GuardPositions, TypeOK
  <2> QED
    BY <2>6, <2>7, <2>8 DEF SlotInv
<1>13. ASSUME NEW t \in Threads, NotifyOne(t) PROVE SlotInv'
  BY <1>13, SlotsKept DEF NotifyOne, Sleepers, SlotInv, GuardPositions, TypeOK
<1> QED
  BY <1>1, <1>2, <1>3, <1>4, <1>5, <1>6, <1>7, <1>8, <1>9, <1>10, <1>11, <1>12, <1>13
  DEF Next, ThreadStep, AdmissionStep, LoopIteration

LEMMA SlotInvariant == Spec => []SlotInv
BY SlotInit, SlotStep, PTL DEF Spec

(* No slot leaks and none is given back twice: each counter is the number  *)
(* of live guards of its class.                                            *)
THEOREM SlotsMatchGuardsAlways == Spec => []SlotsMatchGuards
<1>1. SlotInv => SlotsMatchGuards
  BY DEF SlotInv
<1> QED
  BY <1>1, SlotInvariant, PTL

(* The admitted queries of both classes together never exceed the          *)
(* configured concurrency.                                                 *)
THEOREM WithinConcurrencyAlways == Spec => []WithinConcurrency
<1>1. SlotInv => WithinConcurrency
  BY CapacityType, ConfigAssumption
  DEF SlotInv, TypeOK, CapacityRespected, WithinConcurrency, QueryClass
<1> QED
  BY <1>1, SlotInvariant, PTL

-----------------------------------------------------------------------------
LEMMA CallsInit == Init => CallsAccountedFor
<1> SUFFICES ASSUME Init PROVE CallsAccountedFor
  OBVIOUS
<1>1. Pending = {}
  BY DEF Init, Pending
<1> QED
  BY <1>1, FS_EmptySet DEF Init, CallsAccountedFor

LEMMA CallsStep == TypeOK /\ CallsAccountedFor /\ [Next]_vars => CallsAccountedFor'
<1> SUFFICES ASSUME TypeOK, CallsAccountedFor, [Next]_vars PROVE CallsAccountedFor'
  OBVIOUS
<1>n. Cardinality(Pending) \in Nat
  BY ThreadSetsFinite, FS_CardinalityType
(* A step that leaves the set of pending calls and the totals alone. *)
<1>k. ASSUME Pending' = Pending, UNCHANGED <<calls, admitted, rejections>>
      PROVE  CallsAccountedFor'
  BY <1>k DEF CallsAccountedFor
<1> USE DEF Goto
<1>1. CASE UNCHANGED vars
  BY <1>1, <1>k DEF vars, Pending
<1>2. ASSUME NEW t \in Threads, NEW c \in QueryClass, Reserve(t, c)
      PROVE CallsAccountedFor'
  <2>1. Pending' = Pending \cup {t} /\ t \notin Pending
    BY <1>2 DEF Reserve, Pending, TypeOK
  <2>2. Cardinality(Pending') = Cardinality(Pending) + 1
    BY <2>1, CountIn, ThreadSetsFinite
  <2> QED
    BY <1>2, <1>n, <2>2 DEF Reserve, CallsAccountedFor, TypeOK
<1>3. ASSUME NEW t \in Threads, Admit(t) \/ Reject(t)
      PROVE CallsAccountedFor'
  <2>1. Pending' = Pending \ {t} /\ t \in Pending
    BY <1>3 DEF Admit, Reject, LeaveLock, Pending, TypeOK
  <2>2. Cardinality(Pending') = Cardinality(Pending) - 1
    BY <2>1, CountOut, ThreadSetsFinite
  <2>3. /\ calls' = calls
        /\ \/ admitted' = admitted + 1 /\ rejections' = rejections
           \/ admitted' = admitted /\ rejections' = rejections + 1
    BY <1>3 DEF Admit, Reject
  <2> QED
    BY <1>n, <2>2, <2>3 DEF CallsAccountedFor, TypeOK
<1>5. ASSUME NEW t \in Threads, Sleep(t) PROVE CallsAccountedFor'
  BY <1>5, <1>k DEF Sleep, Pending, TypeOK
<1>6. ASSUME NEW t \in Threads, Expire(t) PROVE CallsAccountedFor'
  BY <1>6, <1>k DEF Expire, Pending
<1>7. ASSUME NEW t \in Threads, TimeoutWake(t) \/ SpuriousWake(t)
      PROVE CallsAccountedFor'
  BY <1>7, <1>k DEF TimeoutWake, SpuriousWake, Pending, TypeOK
<1>9. ASSUME NEW t \in Threads, EmitCheap(t) \/ EmitHeavy(t) \/ RecordMetrics(t)
      PROVE CallsAccountedFor'
  BY <1>9, <1>k DEF EmitCheap, EmitHeavy, RecordMetrics, Pending, TypeOK
<1>12. ASSUME NEW t \in Threads, DropGuard(t) PROVE CallsAccountedFor'
  BY <1>12, <1>k DEF DropGuard, Pending, TypeOK
<1>13. ASSUME NEW t \in Threads, NotifyOne(t) PROVE CallsAccountedFor'
  BY <1>13, <1>k DEF NotifyOne, Sleepers, Pending, TypeOK
<1> QED
  BY <1>1, <1>2, <1>3, <1>5, <1>6, <1>7, <1>9, <1>12, <1>13
  DEF Next, ThreadStep, AdmissionStep, LoopIteration

(* Each admission call is answered exactly once, and query_rejections_total *)
(* counts exactly the calls that got a 429.                                *)
THEOREM CallsAccountedForAlways == Spec => []CallsAccountedFor
BY CallsInit, CallsStep, TypeCorrect, PTL DEF Spec

-----------------------------------------------------------------------------
(* A call keeps the class it was made with. *)
LEMMA ClassStep == TypeOK /\ CalledClasses /\ [Next]_vars => CalledClasses'
<1> SUFFICES ASSUME TypeOK, CalledClasses, [Next]_vars PROVE CalledClasses'
  OBVIOUS
<1> USE DEF Goto, CalledClasses, TypeOK
<1>1. CASE UNCHANGED vars
  BY <1>1 DEF vars
<1>2. ASSUME NEW t \in Threads, NEW c \in QueryClass, Reserve(t, c)
      PROVE CalledClasses'
  BY <1>2 DEF Reserve
<1>3. ASSUME NEW t \in Threads, Admit(t) PROVE CalledClasses'
  BY <1>3 DEF Admit, LeaveLock
<1>4. ASSUME NEW t \in Threads, Reject(t) PROVE CalledClasses'
  BY <1>4 DEF Reject, LeaveLock
<1>5. ASSUME NEW t \in Threads, Sleep(t) \/ Expire(t) PROVE CalledClasses'
  BY <1>5 DEF Sleep, Expire
<1>7. ASSUME NEW t \in Threads, TimeoutWake(t) \/ SpuriousWake(t)
      PROVE CalledClasses'
  BY <1>7 DEF TimeoutWake, SpuriousWake
<1>9. ASSUME NEW t \in Threads, EmitCheap(t) \/ EmitHeavy(t) \/ RecordMetrics(t)
      PROVE CalledClasses'
  BY <1>9 DEF EmitCheap, EmitHeavy, RecordMetrics
<1>12. ASSUME NEW t \in Threads, DropGuard(t) PROVE CalledClasses'
  BY <1>12 DEF DropGuard
<1>13. ASSUME NEW t \in Threads, NotifyOne(t) PROVE CalledClasses'
  BY <1>13 DEF NotifyOne, Sleepers
<1> QED
  BY <1>1, <1>2, <1>3, <1>4, <1>5, <1>7, <1>9, <1>12, <1>13
  DEF Next, ThreadStep, AdmissionStep, LoopIteration

(* The classes of the calls made so far only grow. *)
LEMMA SentGrows == [Next]_vars => sent \subseteq sent'
BY DEF vars, Next, ThreadStep, AdmissionStep, LoopIteration, Reserve, Admit, Reject,
       Sleep, Expire, TimeoutWake, SpuriousWake, EmitCheap, EmitHeavy, RecordMetrics,
       DropGuard, NotifyOne

LEMMA WakeupInit == Init => CalledClasses /\ NoLostWakeup
BY DEF Init, CalledClasses, NoLostWakeup, Sleepers

LEMMA WakeupStep ==
    SlotInv /\ CalledClasses /\ NoLostWakeup /\ [Next]_vars => NoLostWakeup'
<1> SUFFICES ASSUME SlotInv, CalledClasses, NoLostWakeup, [Next]_vars,
                    NEW k \in QueryClass, sent' = {k}, Sleepers' # {}
             PROVE  Capacity[k] <= active'[k] + Cardinality(Awake')
  BY DEF NoLostWakeup
<1>s. /\ sent \subseteq {k}
      /\ Sleepers # {} => sent = {k}
  BY SentGrows DEF CalledClasses, Sleepers
<1>t. /\ TypeOK
      /\ active[k] \in Nat /\ Capacity[k] \in Nat
      /\ Cardinality(Awake) \in Nat
      /\ Sleepers # {} => Capacity[k] <= active[k] + Cardinality(Awake)
  BY <1>s, CapacityType, ThreadSetsFinite, FS_CardinalityType
  DEF SlotInv, TypeOK, NoLostWakeup
<1>f. IsFiniteSet(Awake) /\ IsFiniteSet(Awake')
  <2>1. \A S \in SUBSET Threads : IsFiniteSet(S)
    BY ThreadsAssumption, FS_Subset
  <2> QED
    BY <2>1 DEF Awake
<1> USE DEF Goto
(* A step that changes neither the sleepers nor the awake nor the counters. *)
<1>k. ASSUME Sleepers' = Sleepers, Awake' = Awake, active' = active
      PROVE  Capacity[k] <= active'[k] + Cardinality(Awake')
  BY <1>k, <1>t
<1>1. CASE UNCHANGED vars
  BY <1>1, <1>k DEF vars, Sleepers, Awake
<1>2. ASSUME NEW t \in Threads, NEW c \in QueryClass, Reserve(t, c)
      PROVE  Capacity[k] <= active'[k] + Cardinality(Awake')
  <2>1. Awake' = Awake \cup {t} /\ t \notin Awake /\ Sleepers' = Sleepers
    BY <1>2, <1>t DEF Reserve, Awake, Sleepers, TypeOK
  <2>2. Cardinality(Awake') = Cardinality(Awake) + 1
    BY <2>1, <1>f, CountIn
  <2> QED
    BY <1>2, <1>t, <2>1, <2>2 DEF Reserve
<1>3. ASSUME NEW t \in Threads, Admit(t)
      PROVE  Capacity[k] <= active'[k] + Cardinality(Awake')
  <2>1. class[t] = k
    BY <1>3, <1>s DEF Admit, LeaveLock, CalledClasses
  <2>2. Awake' = Awake \ {t} /\ t \in Awake /\ Sleepers' = Sleepers
    BY <1>3, <1>t DEF Admit, LeaveLock, Awake, Sleepers, TypeOK
  <2>3. Cardinality(Awake') = Cardinality(Awake) - 1
    BY <2>2, <1>f, CountOut
  <2>4. active'[k] = active[k] + 1
    BY <1>3, <1>t, <2>1 DEF Admit, TypeOK
  <2> QED
    BY <1>t, <2>2, <2>3, <2>4
(* A thread only gives up, or goes to sleep, when its class is full. *)
<1>4. ASSUME NEW t \in Threads, Reject(t) \/ Sleep(t)
      PROVE  Capacity[k] <= active'[k] + Cardinality(Awake')
  <2>1. class[t] = k /\ active' = active /\ ~(active[k] < Capacity[k])
    BY <1>4, <1>s DEF Reject, Sleep, LeaveLock, CalledClasses, HasSlot
  <2>2. Cardinality(Awake') \in Nat
    BY <1>f, FS_CardinalityType
  <2> QED
    BY <1>t, <2>1, <2>2
<1>6. ASSUME NEW t \in Threads, Expire(t)
      PROVE  Capacity[k] <= active'[k] + Cardinality(Awake')
  BY <1>6, <1>k DEF Expire, Awake, Sleepers
<1>7. ASSUME NEW t \in Threads, TimeoutWake(t) \/ SpuriousWake(t)
      PROVE  Capacity[k] <= active'[k] + Cardinality(Awake')
  <2>1. Awake' = Awake \cup {t} /\ t \notin Awake /\ t \in Sleepers
    BY <1>7, <1>t DEF TimeoutWake, SpuriousWake, Awake, Sleepers, TypeOK
  <2>2. Cardinality(Awake') = Cardinality(Awake) + 1
    BY <2>1, <1>f, CountIn
  <2>3. active' = active
    BY <1>7 DEF TimeoutWake, SpuriousWake
  <2> QED
    BY <1>t, <2>1, <2>2, <2>3
<1>9. ASSUME NEW t \in Threads, EmitCheap(t) \/ EmitHeavy(t) \/ RecordMetrics(t)
      PROVE  Capacity[k] <= active'[k] + Cardinality(Awake')
  BY <1>9, <1>t, <1>k DEF EmitCheap, EmitHeavy, RecordMetrics, Awake, Sleepers, TypeOK
<1>12. ASSUME NEW t \in Threads, DropGuard(t)
      PROVE  Capacity[k] <= active'[k] + Cardinality(Awake')
  <2>1. Awake' = Awake \cup {t} /\ t \notin Awake /\ Sleepers' = Sleepers
    BY <1>12, <1>t DEF DropGuard, Awake, Sleepers, TypeOK
  <2>2. Cardinality(Awake') = Cardinality(Awake) + 1
    BY <2>1, <1>f, CountIn
  <2>3. active'[k] >= active[k] - 1 /\ active'[k] \in Nat
    <3>1. active'[k] = active[k] \/ active'[k] = SaturatingSub(active[k], 1)
      BY <1>12, <1>t DEF DropGuard, TypeOK
    <3> QED
      BY <1>t, <3>1 DEF SaturatingSub
  <2> QED
    BY <1>t, <2>1, <2>2, <2>3
<1>13. ASSUME NEW t \in Threads, NotifyOne(t)
      PROVE  Capacity[k] <= active'[k] + Cardinality(Awake')
  <2>1. PICK s \in Sleepers : pc' = [pc EXCEPT ![t] = "idle", ![s] = "lock"]
    BY <1>13, <1>t DEF NotifyOne, Sleepers, TypeOK
  <2>2. s \in Threads /\ s # t /\ s \notin Awake /\ t \in Awake
    BY <1>13, <2>1 DEF NotifyOne, Sleepers, Awake
  <2>3. Awake' = (Awake \ {t}) \cup {s}
    BY <2>1, <2>2, <1>t DEF Awake, TypeOK
  <2>4. IsFiniteSet(Awake \ {t}) /\ Cardinality(Awake \ {t}) = Cardinality(Awake) - 1
    BY <2>2, <1>f, FS_RemoveElement
  <2>5. Cardinality(Awake') = Cardinality(Awake \ {t}) + 1
    BY <2>2, <2>3, <2>4, CountIn
  <2>6. Cardinality(Awake') = Cardinality(Awake)
    BY <1>t, <2>4, <2>5
  <2> QED
    BY <1>13, <1>t, <2>1, <2>6 DEF NotifyOne
<1> QED
  BY <1>1, <1>2, <1>3, <1>4, <1>6, <1>7, <1>9, <1>12, <1>13
  DEF Next, ThreadStep, AdmissionStep, LoopIteration

(* While the calls are of one class only, no release of a slot  *)
(* is ever slept through: a free slot and a sleeping query coexist only    *)
(* while a wakeup is under way.                                            *)
THEOREM NoLostWakeupAlways == Spec => []NoLostWakeup
<1>1. SlotInv => TypeOK
  BY DEF SlotInv
<1> QED
  BY <1>1, WakeupInit, ClassStep, WakeupStep, SlotInvariant, PTL DEF Spec

-----------------------------------------------------------------------------
(* The abstract call state of each thread, as in the refinement mapping. *)
CallOf == [t \in Threads |-> IF guard[t] THEN "held"
                             ELSE IF pc[t] \in {"lock", "wait"} THEN "pending"
                             ELSE "none"]

(* The abstract holders of a class are the owners of its guards. *)
LEMMA HoldersAreOwners == \A c : Semaphore!Holders(c) = Owners(c)
BY DEF Semaphore!Holders, Owners

LEMMA SameCardinality == \A S : Semaphore!Cardinality(S) = Cardinality(S)
BY DEF Semaphore!Cardinality, Cardinality

(* A step that changes neither the mapped calls nor the classes stutters. *)
LEMMA RefinementStep == SlotInv /\ [Next]_vars => [Semaphore!Next]_(Semaphore!absVars)
<1> SUFFICES ASSUME SlotInv, [Next]_vars
             PROVE  Semaphore!Next \/ UNCHANGED Semaphore!absVars
  OBVIOUS
<1>t. TypeOK
  BY DEF SlotInv
<1> USE DEF Goto
<1>k. ASSUME CallOf' = CallOf, class' = class
      PROVE  UNCHANGED Semaphore!absVars
  BY <1>k DEF CallOf, Semaphore!absVars
<1>1. CASE UNCHANGED vars
  BY <1>1, <1>k DEF vars, CallOf
<1>2. ASSUME NEW t \in Threads, NEW c \in QueryClass, Reserve(t, c)
      PROVE  Semaphore!Next
  <2>2. CallOf[t] = "none" /\ CallOf' = [CallOf EXCEPT ![t] = "pending"]
    BY <1>2, <1>t DEF Reserve, CallOf, SlotInv, GuardPositions, TypeOK
  <2>3. Semaphore!Request(t, c)
    BY <1>2, <2>2 DEF Reserve, CallOf, Semaphore!Request
  <2> QED
    BY <2>3 DEF Semaphore!Next
<1>3. ASSUME NEW t \in Threads, Admit(t)
      PROVE  Semaphore!Next
  <2>1. Cardinality(Semaphore!Holders(class[t])) < Capacity[class[t]]
    BY <1>3, <1>t, HoldersAreOwners DEF Admit, HasSlot, SlotInv, SlotsMatchGuards, TypeOK
  <2>2. CallOf[t] = "pending" /\ CallOf' = [CallOf EXCEPT ![t] = "held"]
    BY <1>3, <1>t DEF Admit, LeaveLock, CallOf, SlotInv, GuardPositions, TypeOK
  <2>3. Semaphore!Grant(t)
    BY <1>3, <2>1, <2>2, SameCardinality DEF Admit, CallOf, Semaphore!Grant
  <2> QED
    BY <2>3 DEF Semaphore!Next
<1>4. ASSUME NEW t \in Threads, Reject(t)
      PROVE  Semaphore!Next
  <2>1. class[t] \in QueryClass /\ active[class[t]] \in Nat /\ Capacity[class[t]] \in Nat
    BY <1>t, CapacityType DEF TypeOK
  <2>2. Cardinality(Semaphore!Holders(class[t])) = active[class[t]]
    BY <2>1, HoldersAreOwners DEF SlotInv, SlotsMatchGuards
  <2>3. Cardinality(Semaphore!Holders(class[t])) >= Capacity[class[t]]
    BY <1>4, <2>1, <2>2 DEF Reject, HasSlot
  <2>4. CallOf[t] = "pending" /\ CallOf' = [CallOf EXCEPT ![t] = "none"]
    BY <1>4, <1>t DEF Reject, LeaveLock, CallOf, SlotInv, GuardPositions, TypeOK
  <2>5. Semaphore!Refuse(t)
    BY <1>4, <2>3, <2>4, SameCardinality DEF Reject, CallOf, Semaphore!Refuse
  <2> QED
    BY <2>5 DEF Semaphore!Next
<1>5. ASSUME NEW t \in Threads, Sleep(t) \/ Expire(t)
      PROVE  UNCHANGED Semaphore!absVars
  BY <1>5, <1>k, <1>t DEF Sleep, Expire, CallOf, TypeOK
<1>7. ASSUME NEW t \in Threads, TimeoutWake(t) \/ SpuriousWake(t)
      PROVE  UNCHANGED Semaphore!absVars
  BY <1>7, <1>k, <1>t DEF TimeoutWake, SpuriousWake, CallOf, TypeOK
<1>9. ASSUME NEW t \in Threads, EmitCheap(t) \/ EmitHeavy(t) \/ RecordMetrics(t)
      PROVE  UNCHANGED Semaphore!absVars
  BY <1>9, <1>k, <1>t DEF EmitCheap, EmitHeavy, RecordMetrics, CallOf, TypeOK
<1>12. ASSUME NEW t \in Threads, DropGuard(t)
      PROVE  Semaphore!Next
  <2>1. CallOf[t] = "held" /\ CallOf' = [CallOf EXCEPT ![t] = "none"]
    BY <1>12, <1>t DEF DropGuard, CallOf, SlotInv, GuardPositions, TypeOK
  <2>2. Semaphore!Release(t)
    BY <1>12, <2>1 DEF DropGuard, CallOf, Semaphore!Release
  <2> QED
    BY <2>2 DEF Semaphore!Next
<1>13. ASSUME NEW t \in Threads, NotifyOne(t)
      PROVE  UNCHANGED Semaphore!absVars
  BY <1>13, <1>k, <1>t DEF NotifyOne, Sleepers, CallOf, TypeOK
<1> QED
  BY <1>1, <1>2, <1>3, <1>4, <1>5, <1>7, <1>9, <1>12, <1>13
  DEF Next, ThreadStep, AdmissionStep, LoopIteration

(* The lock, the shared condition variable, the timeouts and the gauges    *)
(* implement the two-class semaphore: a query is admitted only into a free *)
(* slot of its class and refused only when its class is full.              *)
THEOREM ImplementsSemaphoreAlways == Spec => ImplementsSemaphore
<1>1. Init => Semaphore!Init
  BY DEF Init, Semaphore!Init, QueryClass
<1> QED
  BY <1>1, RefinementStep, SlotInvariant, PTL DEF Spec, ImplementsSemaphore, Semaphore!Spec
=============================================================================
