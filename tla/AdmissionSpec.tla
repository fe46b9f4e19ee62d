--------------------------- MODULE AdmissionSpec ---------------------------
(***************************************************************************)
(* What query admission promises to its callers, with no lock, no          *)
(* condition variable and no clock: a counting semaphore with a separate   *)
(* capacity for each query class.  A call is granted only while its class  *)
(* has a free slot, and refused only while its class has none.             *)
(* Admission implements this specification.                                *)
(***************************************************************************)
EXTENDS Naturals, FiniteSets

CONSTANTS Threads,      \* the request-handler threads
          QueryClass,   \* the classes of query
          Capacity      \* Capacity[c]: the number of slots of class c

VARIABLES call,         \* call[t]: where t's admission call stands
          class         \* class[t]: the class of t's call

absVars == <<call, class>>

CallStates == {"none", "pending", "held"}

Holders(c) == {t \in Threads : call[t] = "held" /\ class[t] = c}

Init ==
    /\ call = [t \in Threads |-> "none"]
    /\ class \in [Threads -> QueryClass]

Request(t, c) ==
    /\ call[t] = "none"
    /\ call' = [call EXCEPT ![t] = "pending"]
    /\ class' = [class EXCEPT ![t] = c]

Grant(t) ==
    /\ call[t] = "pending"
    /\ Cardinality(Holders(class[t])) < Capacity[class[t]]
    /\ call' = [call EXCEPT ![t] = "held"]
    /\ UNCHANGED class

Refuse(t) ==
    /\ call[t] = "pending"
    /\ Cardinality(Holders(class[t])) >= Capacity[class[t]]
    /\ call' = [call EXCEPT ![t] = "none"]
    /\ UNCHANGED class

Release(t) ==
    /\ call[t] = "held"
    /\ call' = [call EXCEPT ![t] = "none"]
    /\ UNCHANGED class

Next == \E t \in Threads :
    \/ \E c \in QueryClass : Request(t, c)
    \/ Grant(t)
    \/ Refuse(t)
    \/ Release(t)

Spec == Init /\ [][Next]_absVars
=============================================================================
