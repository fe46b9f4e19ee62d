------------------------- MODULE SchemaFenceProofs -------------------------
(* Proofs about SchemaFence, for any number of processes and releases. *)
EXTENDS SchemaFence, TLAPS

Recording == {"compare", "begin", "commit"}

(* A catalog that had a version keeps it, and nobody is about to write it. *)
StampedInv ==
    origin[1] # {} => /\ meta[1] = origin[1]
                      /\ \A p \in Procs : pc[p] \in Recording => key[p] # 1

(* A fresh catalog only ever gets the version of every process. *)
FreshInv == origin[1] = {} => \A p \in Procs : meta[1] \subseteq {Version[p]}

(* Whoever is past the version key has a compatible catalog. *)
PastFence ==
    \A p \in Procs :
        pc[p] = "serving" \/ (pc[p] \in Recording /\ key[p] # 1) =>
            meta[1] \cap Window(p) # {}

(* Every provenance value is from before, or from an admitted binary. *)
ProvenanceInv ==
    origin[1] # {} =>
        \A k \in {2, 3} : \A b \in meta[k] :
            b = OtherBuild \/ \E q \in Procs : Build[q] = b /\ origin[1] \cap Window(q) # {}

FenceInv ==
    /\ TypeOK /\ origin[1] \in Found
    /\ StampedInv /\ FreshInv /\ PastFence /\ ProvenanceInv

LEMMA TypeNext == TypeOK /\ [Next]_vars => TypeOK'
<1> SUFFICES ASSUME TypeOK, [Next]_vars PROVE TypeOK'
  OBVIOUS
<1>1. CASE UNCHANGED vars
  BY <1>1 DEF TypeOK, vars
<1>2. ASSUME NEW p \in Procs, Step(p) PROVE TypeOK'
  <2>1. CASE Open(p) \/ CreateTables(p) \/ CreateMeta(p) \/ Adopt(p) \/ Pass(p)
             \/ Refuse(p) \/ Changed(p) \/ Begin(p) \/ Exit(p)
    BY <2>1 DEF TypeOK, Open, CreateTables, CreateMeta, Adopt, Pass, Refuse, Changed,
                Begin, Exit, Goes, PCs, Keys
  <2>2. CASE Unchanged(p)
    BY <2>2 DEF TypeOK, Unchanged, Recorded, Goes, PCs, Keys
  <2>3. CASE Commit(p)
    <3>1. Value(p, key[p]) \in Nat
      BY FenceAssumption DEF Value
    <3>2. QED
      BY <2>3, <3>1 DEF TypeOK, Commit, Recorded, Goes, PCs, Keys
  <2>4. QED
    BY <1>2, <2>1, <2>2, <2>3 DEF Step
<1>3. QED
  BY <1>1, <1>2 DEF Next

LEMMA InitFence == Init => FenceInv
<1> SUFFICES ASSUME Init PROVE FenceInv
  OBVIOUS
<1>1. PICK rows \in Found :
          meta = [k \in Keys |-> IF k = 1 THEN rows ELSE IF rows = {} THEN {} ELSE {OtherBuild}]
  BY DEF Init
<1>2. rows \subseteq Nat /\ OtherBuild \in Nat
  BY FenceAssumption DEF OtherBuild
<1>3. meta[1] = rows /\ \A k \in {2, 3} : \A b \in meta[k] : b = OtherBuild
  BY <1>1 DEF Keys
<1>4. meta \in [Keys -> SUBSET Nat]
  BY <1>1, <1>2
<1>5. TypeOK
  BY <1>4 DEF Init, TypeOK, PCs, Keys
<1>6. origin[1] \in Found /\ StampedInv /\ FreshInv /\ PastFence
  BY <1>3 DEF Init, StampedInv, FreshInv, PastFence, Recording
<1>7. ProvenanceInv
  BY <1>3 DEF ProvenanceInv
<1>8. QED
  BY <1>5, <1>6, <1>7 DEF FenceInv

(* A step that leaves the catalog alone keeps FenceInv if the process does *)
(* not get past the fence by it.                                           *)
LEMMA QuietStep ==
    ASSUME FenceInv, TypeOK', UNCHANGED <<meta, origin>>, NEW p \in Procs,
           \A q \in Procs : q # p => pc'[q] = pc[q] /\ key'[q] = key[q],
           pc'[p] = "serving" \/ (pc'[p] \in Recording /\ key'[p] # 1) =>
               meta[1] \cap Window(p) # {},
           pc'[p] \in Recording /\ origin[1] # {} => key'[p] # 1
    PROVE  FenceInv'
<1>1. StampedInv'
  BY DEF FenceInv, StampedInv
<1>2. FreshInv' /\ ProvenanceInv' /\ (origin[1] \in Found)'
  BY DEF FenceInv, FreshInv, ProvenanceInv
<1>3. PastFence'
  BY DEF FenceInv, PastFence, Window
<1>4. QED
  BY <1>1, <1>2, <1>3 DEF FenceInv

LEMMA NextFence == ASSUME SafeDeployment PROVE FenceInv /\ [Next]_vars => FenceInv'
<1> SUFFICES ASSUME FenceInv, [Next]_vars PROVE FenceInv'
  OBVIOUS
<1>t. TypeOK /\ TypeOK'
  BY TypeNext DEF FenceInv
<1>1. CASE UNCHANGED vars
  BY <1>1 DEF FenceInv, TypeOK, StampedInv, FreshInv, PastFence, ProvenanceInv, vars
<1>2. ASSUME NEW p \in Procs, Step(p) PROVE FenceInv'
  <2>1. CASE Open(p) \/ CreateTables(p) \/ CreateMeta(p) \/ Refuse(p) \/ Exit(p)
    BY <2>1, <1>t, QuietStep
       DEF TypeOK, Open, CreateTables, CreateMeta, Refuse, Exit, Goes, Recording
  <2>2. CASE Adopt(p)
    <3>1. origin[1] = {}
      BY <2>2 DEF Adopt, FenceInv, StampedInv
    <3>2. QED
      BY <2>2, <3>1, <1>t, QuietStep DEF TypeOK, Adopt, Goes
  <2>3. CASE Pass(p)
    BY <2>3, <1>t, QuietStep DEF TypeOK, Pass, Goes
  <2>4. CASE Changed(p) \/ Begin(p)
    BY <2>4, <1>t, QuietStep
       DEF TypeOK, Changed, Begin, Goes, Recording, FenceInv, PastFence, StampedInv
  <2>5. CASE Unchanged(p)
    <3>1. meta[1] \cap Window(p) # {}
      <4>1. CASE key[p] = 1
        <5>1. Version[p] \in meta[1] /\ Version[p] \in Window(p)
          BY <2>5, <4>1, FenceAssumption DEF Unchanged, Value, Window
        <5>2. QED
          BY <5>1
      <4>2. CASE key[p] # 1
        BY <2>5, <4>2, <1>t
           DEF Unchanged, Recorded, Goes, FenceInv, PastFence, Recording
      <4>3. QED
        BY <4>1, <4>2
    <3>2. /\ UNCHANGED <<meta, origin>> /\ key'[p] # 1
          /\ \A q \in Procs : q # p => pc'[q] = pc[q] /\ key'[q] = key[q]
      BY <2>5, <1>t DEF Unchanged, Recorded, Goes, TypeOK, Keys
    <3>3. QED
      BY <3>1, <3>2, <1>t, QuietStep
  <2>6. CASE Commit(p)
    <3>1. /\ pc[p] = "commit" /\ origin' = origin /\ key[p] \in Keys
          /\ meta' = [meta EXCEPT ![key[p]] = (@ \ snap[p]) \cup {Value(p, key[p])}]
          /\ key'[p] # 1
          /\ \A q \in Procs : q # p => pc'[q] = pc[q] /\ key'[q] = key[q]
      BY <2>6, <1>t DEF Commit, Recorded, Goes, TypeOK, Keys
    <3>2. CASE key[p] = 1
      <4>1. origin[1] = {}
        BY <3>1, <3>2 DEF FenceInv, StampedInv, Recording
      <4>2. meta'[1] = {Version[p]} /\ \A k \in {2, 3} : meta'[k] = meta[k]
        <5>1. meta[1] \subseteq {Version[p]}
          BY <4>1 DEF FenceInv, FreshInv
        <5>2. QED
          BY <3>1, <3>2, <5>1, <1>t DEF Value, TypeOK, Keys
      <4>3. \A q \in Procs : Version[q] = Version[p]
        BY <4>1 DEF FenceInv, SafeDeployment
      <4>4. \A q \in Procs : Version[p] \in Window(q)
        BY <4>3, FenceAssumption DEF Window
      <4>5. StampedInv' /\ FreshInv' /\ ProvenanceInv' /\ (origin[1] \in Found)'
        BY <3>1, <4>1, <4>2, <4>3 DEF FenceInv, StampedInv, FreshInv, ProvenanceInv
      <4>6. PastFence'
        BY <4>2, <4>4 DEF PastFence, Window
      <4>7. QED
        BY <4>5, <4>6, <1>t DEF FenceInv
    <3>3. CASE key[p] # 1
      <4>1. meta'[1] = meta[1] /\ meta[1] \cap Window(p) # {} /\ key[p] \in {2, 3}
        BY <3>1, <3>3, <1>t DEF TypeOK, Keys, FenceInv, PastFence, Recording
      <4>2. StampedInv' /\ FreshInv' /\ (origin[1] \in Found)'
        BY <3>1, <4>1 DEF FenceInv, StampedInv, FreshInv
      <4>3. PastFence'
        BY <3>1, <4>1 DEF FenceInv, PastFence, Window
      <4>4. ProvenanceInv'
        <5>1. SUFFICES ASSUME origin[1] # {}, NEW k \in {2, 3}, NEW b \in meta'[k]
                       PROVE  b = OtherBuild \/
                              \E q \in Procs : Build[q] = b /\ origin[1] \cap Window(q) # {}
          BY <3>1 DEF ProvenanceInv, Window
        <5>2. b \in meta[k] \/ b = Build[p]
          BY <3>1, <3>3, <5>1, <1>t DEF Value, TypeOK, Keys
        <5>3. origin[1] \cap Window(p) # {}
          BY <4>1, <5>1 DEF FenceInv, StampedInv
        <5>4. QED
          BY <5>1, <5>2, <5>3 DEF FenceInv, ProvenanceInv
      <4>5. QED
        BY <4>2, <4>3, <4>4, <1>t DEF FenceInv
    <3>4. QED
      BY <3>2, <3>3
  <2>7. QED
    BY <1>2, <2>1, <2>2, <2>3, <2>4, <2>5, <2>6 DEF Step
<1>3. QED
  BY <1>1, <1>2 DEF Next

(* Types, for all deployments. *)
THEOREM TypeCorrect == Spec => []TypeOK
<1>1. Init => TypeOK
  BY InitFence DEF FenceInv
<1>2. QED
  BY <1>1, TypeNext, PTL DEF Spec

(* For all deployments: set_meta_if_changed never leaves a key without a   *)
(* row once it had one.                                                    *)
THEOREM NeverUnstampedAlways == Spec => NeverUnstamped
<1>1. TypeOK /\ [Next]_vars => [\A k \in Keys : meta[k] # {} => meta'[k] # {}]_vars
  <2> SUFFICES ASSUME TypeOK, NEW p \in Procs, Step(p), NEW k \in Keys, meta[k] # {}
               PROVE  meta'[k] # {}
    BY DEF Next, vars
  <2>1. CASE Commit(p)
    BY <2>1 DEF Commit, TypeOK
  <2>2. CASE ~Commit(p)
    BY <2>2 DEF Step, Open, CreateTables, CreateMeta, Adopt, Pass, Refuse, Unchanged,
                Changed, Begin, Exit
  <2>3. QED
    BY <2>1, <2>2
<1>2. QED
  BY <1>1, TypeCorrect, PTL DEF Spec, NeverUnstamped

(* The inductive invariant, for deployments that never race two            *)
(* generations for a fresh catalog.                                        *)
THEOREM FenceInvAlways == ASSUME SafeDeployment PROVE Spec => []FenceInv
<1>1. FenceInv /\ [Next]_vars => FenceInv'
  BY NextFence
<1>2. QED
  BY <1>1, InitFence, PTL DEF Spec

(* In such deployments a process serves only a catalog whose version is,   *)
(* and stays, in its window.                                               *)
THEOREM ServesWithinWindowAlways ==
    ASSUME SafeDeployment PROVE Spec => []ServesWithinWindow
<1>1. FenceInv => ServesWithinWindow
  <2> SUFFICES ASSUME FenceInv, NEW p \in Procs, pc[p] = "serving"
               PROVE  meta[1] # {} /\ meta[1] \subseteq Window(p)
    BY DEF ServesWithinWindow
  <2>1. meta[1] \cap Window(p) # {}
    BY DEF FenceInv, PastFence
  <2>2. \A v, w \in meta[1] : v = w
    <3>1. CASE origin[1] = {}
      BY <3>1 DEF FenceInv, FreshInv
    <3>2. CASE origin[1] # {}
      BY <3>2 DEF FenceInv, StampedInv, SafeDeployment
    <3>3. QED
      BY <3>1, <3>2
  <2>3. QED
    BY <2>1, <2>2
<1>2. QED
  BY <1>1, FenceInvAlways, PTL

(* In such deployments a catalog's version never changes once it has one.  *)
THEOREM VersionKeptAlways == ASSUME SafeDeployment PROVE Spec => VersionKept
<1>1. FenceInv /\ FenceInv' /\ [Next]_vars => [meta[1] # {} => meta'[1] = meta[1]]_vars
  <2> SUFFICES ASSUME FenceInv, FenceInv', NEW p \in Procs, Step(p), meta[1] # {}
               PROVE  meta'[1] = meta[1]
    BY DEF Next, vars
  <2>1. origin' = origin
    BY DEF Step, Open, CreateTables, CreateMeta, Adopt, Pass, Refuse, Unchanged,
           Changed, Begin, Commit, Exit
  <2>2. CASE origin[1] # {}
    BY <2>1, <2>2 DEF FenceInv, StampedInv
  <2>3. CASE origin[1] = {}
    <3>1. meta[1] = {Version[p]} /\ meta'[1] \subseteq {Version[p]}
      BY <2>1, <2>3 DEF FenceInv, FreshInv
    <3>2. meta'[1] # {}
      <4>1. CASE Commit(p)
        BY <4>1 DEF Commit, FenceInv, TypeOK, Keys
      <4>2. CASE ~Commit(p)
        BY <4>2 DEF Step, Open, CreateTables, CreateMeta, Adopt, Pass, Refuse, Unchanged,
                    Changed, Begin, Exit
      <4>3. QED
        BY <4>1, <4>2
    <3>3. QED
      BY <3>1, <3>2
  <2>4. QED
    BY <2>2, <2>3
<1>2. QED
  BY <1>1, FenceInvAlways, PTL DEF Spec, VersionKept

(* A binary whose window excludes the catalog's version never serves it    *)
(* and is recorded nowhere in it.                                          *)
THEOREM RefusedLeavesNoTraceAlways ==
    ASSUME SafeDeployment PROVE Spec => []RefusedLeavesNoTrace
<1>1. FenceInv => RefusedLeavesNoTrace
  <2> SUFFICES ASSUME FenceInv, NEW p \in Procs,
                      origin[1] # {}, origin[1] \cap Window(p) = {}
               PROVE  /\ pc[p] # "serving"
                      /\ \A k \in {2, 3} : Build[p] \in meta[k] =>
                             \E q \in Procs : /\ Build[q] = Build[p]
                                              /\ origin[1] \cap Window(q) # {}
    BY DEF RefusedLeavesNoTrace
  <2>1. pc[p] # "serving"
    BY DEF FenceInv, PastFence, StampedInv
  <2>2. Build[p] # OtherBuild
    BY FenceAssumption DEF OtherBuild
  <2>3. QED
    BY <2>1, <2>2 DEF FenceInv, ProvenanceInv
<1>2. QED
  BY <1>1, FenceInvAlways, PTL
=============================================================================
