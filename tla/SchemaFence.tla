----------------------------- MODULE SchemaFence -----------------------------
(***************************************************************************)
(* src/storage/mod.rs (Storage::open) and src/storage/schema.rs: processes *)
(* of one or several canardstack releases open the same DuckLake catalog,  *)
(* each creating the tables it needs, checking the catalog's schema        *)
(* version against its own window, and recording version and provenance.   *)
(*                                                                         *)
(* A process may fail, crash or be stopped after any step.  The catalog is *)
(* external: a statement sees a committed state, and a transaction deletes *)
(* the rows it saw when it began or does not commit; two transactions that *)
(* only insert do not conflict, so a key may get two rows, and a SELECT    *)
(* returns either first.  The telemetry tables are left out: their DDL is  *)
(* repeatable and no later step reads them.  A version that does not parse *)
(* is refused like one outside the window.                                 *)
(***************************************************************************)
EXTENDS Naturals, FiniteSets

CONSTANTS Procs,
          Version,    \* SCHEMA_VERSION of each process' binary
          MinVersion, \* MIN_COMPATIBLE_SCHEMA_VERSION of the binary
          Build,      \* the binary: its provenance values
          Found       \* the version rows a catalog may have; {}: a fresh one

ASSUME FenceAssumption ==
    /\ Version \in [Procs -> Nat] /\ MinVersion \in [Procs -> Nat]
    /\ \A p \in Procs : MinVersion[p] <= Version[p]
    /\ Build \in [Procs -> Nat \ {0}]
    /\ Found \subseteq SUBSET Nat

VARIABLES pc,      \* where each process is in Storage::open
          key,     \* the key it is recording
          snap,    \* the rows its transaction saw
          meta,    \* canardstack_meta: the values stored for each key
          origin   \* meta as it was at the start

vars == <<pc, key, snap, meta, origin>>

Keys == 1 .. 3   \* schema_version, canardstack_version, otlp2records fingerprint
PCs == {"down", "ddl", "meta", "fence", "compare", "begin", "commit", "serving", "refused"}
Window(p) == MinVersion[p] .. Version[p]
OtherBuild == 0  \* whoever stamped the catalog before

Value(p, k) == IF k = 1 THEN Version[p] ELSE Build[p]

Init ==
    /\ pc = [p \in Procs |-> "down"]
    /\ key = [p \in Procs |-> 1]
    /\ snap = [p \in Procs |-> {}]
    /\ \E rows \in Found :
           meta = [k \in Keys |-> IF k = 1 THEN rows
                                  ELSE IF rows = {} THEN {} ELSE {OtherBuild}]
    /\ origin = meta

Goes(p, from, to) == pc[p] = from /\ pc' = [pc EXCEPT ![p] = to]

Open(p) == Goes(p, "down", "ddl") /\ UNCHANGED <<key, snap, meta, origin>>

(* CREATE TABLE IF NOT EXISTS for the telemetry tables, and their          *)
(* partitioning: before the version is looked at.                          *)
CreateTables(p) == Goes(p, "ddl", "meta") /\ UNCHANGED <<key, snap, meta, origin>>

(* Mutant: provenance is recorded before the version is checked. *)
CreateMeta_Records(p) ==
    /\ Goes(p, "meta", "fence")
    /\ meta' = [meta EXCEPT ![2] = {Build[p]}]
    /\ UNCHANGED <<key, snap, origin>>

CreateMeta(p) == Goes(p, "meta", "fence") /\ UNCHANGED <<key, snap, meta, origin>>

(* No version: adopt the catalog. *)
Adopt(p) ==
    /\ meta[1] = {}
    /\ Goes(p, "fence", "compare")
    /\ key' = [key EXCEPT ![p] = 1]
    /\ UNCHANGED <<snap, meta, origin>>

(* Mutant: the catalog's version may be newer than the binary's. *)
Pass_Newer(p) ==
    /\ \E raw \in meta[1] : raw >= MinVersion[p]
    /\ Goes(p, "fence", "compare")
    /\ key' = [key EXCEPT ![p] = 2]
    /\ UNCHANGED <<snap, meta, origin>>

(* Mutant: a compatible catalog is brought up to the binary's version. *)
Pass_Upgrades(p) ==
    /\ meta[1] \cap Window(p) # {}
    /\ Goes(p, "fence", "compare")
    /\ key' = [key EXCEPT ![p] = 1]
    /\ UNCHANGED <<snap, meta, origin>>

Pass(p) ==
    /\ meta[1] \cap Window(p) # {}
    /\ Goes(p, "fence", "compare")
    /\ key' = [key EXCEPT ![p] = 2]
    /\ UNCHANGED <<snap, meta, origin>>

Refuse(p) ==
    /\ meta[1] \ Window(p) # {}
    /\ Goes(p, "fence", "refused")
    /\ UNCHANGED <<key, snap, meta, origin>>

(* set_meta_if_changed has returned: the next key, or open returns. *)
Recorded(p, from) ==
    IF key[p] = 3 THEN Goes(p, from, "serving") /\ key' = key
                  ELSE Goes(p, from, "compare") /\ key' = [key EXCEPT ![p] = @ + 1]

Unchanged(p) ==
    /\ Value(p, key[p]) \in meta[key[p]]
    /\ Recorded(p, "compare")
    /\ UNCHANGED <<snap, meta, origin>>

Changed(p) ==
    /\ meta[key[p]] = {} \/ meta[key[p]] \ {Value(p, key[p])} # {}
    /\ Goes(p, "compare", "begin")
    /\ UNCHANGED <<key, snap, meta, origin>>

(* Mutant: the DELETE is a transaction of its own. *)
Begin_Deletes(p) ==
    /\ Goes(p, "begin", "commit")
    /\ snap' = [snap EXCEPT ![p] = {}]
    /\ meta' = [meta EXCEPT ![key[p]] = {}]
    /\ UNCHANGED <<key, origin>>

Begin(p) ==
    /\ Goes(p, "begin", "commit")
    /\ snap' = [snap EXCEPT ![p] = meta[key[p]]]
    /\ UNCHANGED <<key, meta, origin>>

Commit(p) ==
    /\ snap[p] \subseteq meta[key[p]]
    /\ Recorded(p, "commit")
    /\ meta' = [meta EXCEPT ![key[p]] = (@ \ snap[p]) \cup {Value(p, key[p])}]
    /\ snap' = [snap EXCEPT ![p] = {}]
    /\ UNCHANGED origin

(* An error on any step, a conflict, a crash, or the end of a service. *)
Exit(p) ==
    /\ pc[p] # "down" /\ pc' = [pc EXCEPT ![p] = "down"]
    /\ key' = [key EXCEPT ![p] = 1]
    /\ snap' = [snap EXCEPT ![p] = {}]
    /\ UNCHANGED <<meta, origin>>

Step(p) ==
    \/ Open(p) \/ CreateTables(p) \/ CreateMeta(p) \/ Adopt(p) \/ Pass(p) \/ Refuse(p)
    \/ Unchanged(p) \/ Changed(p) \/ Begin(p) \/ Commit(p) \/ Exit(p)

Next == \E p \in Procs : Step(p)
Spec == Init /\ [][Next]_vars

-----------------------------------------------------------------------------
(* Processes and catalog keep their types; in particular exactly the three *)
(* keys of enforce_schema_version_on are ever recorded.                    *)
TypeOK ==
    /\ pc \in [Procs -> PCs] /\ key \in [Procs -> Keys]
    /\ snap \in [Procs -> SUBSET Nat]
    /\ meta \in [Keys -> SUBSET Nat] /\ origin \in [Keys -> SUBSET Nat]

(* schema.rs:295: a row is never left deleted without its replacement,     *)
(* whatever crashes and whoever else is writing.                           *)
NeverUnstamped == [][\A k \in Keys : meta[k] # {} => meta'[k] # {}]_vars

(* schema.rs:261: opening a catalog never changes the version it carries.  *)
VersionKept == [][meta[1] # {} => meta'[1] = meta[1]]_vars

(* What the fence takes for granted: a catalog carries one version at      *)
(* most, and processes that may meet a fresh one are of one generation.    *)
SafeDeployment ==
    /\ \A rows \in Found : \A v, w \in rows : v = w
    /\ {} \in Found => \A p, q \in Procs : Version[p] = Version[q]

(* A process serves only a catalog whose version is in its window, not     *)
(* just when it looked but for as long as it serves.                       *)
ServesWithinWindow ==
    \A p \in Procs : pc[p] = "serving" => meta[1] # {} /\ meta[1] \subseteq Window(p)

(* A binary that must refuse the catalog it was given never serves it and  *)
(* leaves its name nowhere in the catalog's records.                       *)
RefusedLeavesNoTrace ==
    \A p \in Procs :
        origin[1] # {} /\ origin[1] \cap Window(p) = {} =>
            /\ pc[p] # "serving"
            /\ \A k \in {2, 3} : Build[p] \in meta[k] =>
                   \E q \in Procs : Build[q] = Build[p] /\ origin[1] \cap Window(q) # {}
==============================================================================
