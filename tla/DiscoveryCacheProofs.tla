------------------------ MODULE DiscoveryCacheProofs ------------------------
(***************************************************************************)
(* Theorems about DiscoveryCache for any number of threads and keys and    *)
(* any limit on the number of entries.                                     *)
(***************************************************************************)
EXTENDS DiscoveryCache, FiniteSetTheorems, TLAPS

CacheInv == TypeOK /\ CacheBounded /\ SeqsDistinct

(* The steps that touch neither the cache nor its counter. *)
CacheUntouched == UNCHANGED <<entries, next_seq>>

-----------------------------------------------------------------------------
LEMMA TypeInit == Init => TypeOK
BY CacheAssumption DEF Init, TypeOK, Cached, PCs, Value, NoValue, CacheEntry

(* Storing an answer keeps the cache a function from keys to entries. *)
LEMMA StoreType ==
    ASSUME TypeOK, NEW t \in Threads, NEW kept \in SUBSET Cached, Store(t, kept)
    PROVE  /\ Cached' = kept \cup {key[t]}
           /\ Cached' \subseteq Keys
           /\ entries' \in [Cached' -> CacheEntry]
           /\ next_seq' = next_seq + 1
           /\ entries'[key[t]].seq = next_seq
           /\ entries'[key[t]].value = value[t]
           /\ \A k \in kept \ {key[t]} : entries'[k] = entries[k]
<1>1. Cached' = kept \cup {key[t]} /\ next_seq' = next_seq + 1
  BY DEF Store, Cached
<1>2. key[t] \in Keys /\ value[t] \in Value /\ next_seq \in Nat /\ Cached \subseteq Keys
  BY DEF TypeOK
<1>3. [generation |-> Generation, seq |-> next_seq, value |-> value[t]] \in CacheEntry
  BY <1>2 DEF CacheEntry, Generation
<1>4. \A k \in Cached : entries[k] \in CacheEntry
  BY DEF TypeOK
<1>5. entries' \in [Cached' -> CacheEntry]
  BY <1>1, <1>3, <1>4 DEF Store
<1> QED
  BY <1>1, <1>2, <1>5 DEF Store

LEMMA TypeStep == TypeOK /\ [Next]_vars => TypeOK'
<1> SUFFICES ASSUME TypeOK, [Next]_vars PROVE TypeOK'
  OBVIOUS
<1> USE DEF Goto
<1>1. CASE UNCHANGED vars
  BY <1>1 DEF vars, TypeOK, Cached
<1>2. ASSUME NEW k \in Keys, RefreshSummary(k) \/ AppendRaw(k) PROVE TypeOK'
  BY <1>2 DEF RefreshSummary, AppendRaw, TypeOK, Cached
<1>3. ASSUME NEW t \in Threads, NEW k \in Keys, Call(t, k) PROVE TypeOK'
  BY <1>3 DEF Call, TypeOK, Cached, PCs
<1>4. ASSUME NEW t \in Threads, Hit(t) \/ Miss(t) \/ SummaryEmpty(t) \/ BuildFails(t)
      PROVE TypeOK'
  BY <1>4 DEF Hit, Miss, SummaryEmpty, BuildFails, TypeOK, Cached, PCs
<1>5. ASSUME NEW t \in Threads, NEW big \in BOOLEAN, BuildFromSummary(t, big)
      PROVE TypeOK'
  BY <1>5 DEF BuildFromSummary, TypeOK, Cached, PCs, Value
<1>6. ASSUME NEW t \in Threads, NEW big \in BOOLEAN, BuildFromRaw(t, big)
      PROVE TypeOK'
  BY <1>6 DEF BuildFromRaw, TypeOK, Cached, PCs, Value
(* The rest of the state when a call returns. *)
<1>r. ASSUME NEW t \in Threads, Returns(t),
             Cached' \subseteq Keys, entries' \in [Cached' -> CacheEntry], next_seq' \in Nat
      PROVE  TypeOK'
  BY <1>r DEF Returns, TypeOK, PCs, Value, NoValue
<1>7. ASSUME NEW t \in Threads, InsertSkipped(t) PROVE TypeOK'
  BY <1>7, <1>r DEF InsertSkipped, TypeOK, Cached
<1>8. ASSUME NEW t \in Threads, InsertInPlace(t) PROVE TypeOK'
  BY <1>8, <1>r, StoreType DEF InsertInPlace, TypeOK
<1>9. ASSUME NEW t \in Threads, InsertEvicting(t) PROVE TypeOK'
  <2>1. PICK old \in Cached : Store(t, Cached \ {old})
    BY <1>9 DEF InsertEvicting
  <2> QED
    BY <1>9, <1>r, <2>1, StoreType DEF InsertEvicting, TypeOK
<1> QED
  BY <1>1, <1>2, <1>3, <1>4, <1>5, <1>6, <1>7, <1>8, <1>9 DEF Next

(* The cache, the calls in flight and the tables keep their types. *)
THEOREM TypeCorrect == Spec => []TypeOK
BY TypeInit, TypeStep, PTL DEF Spec

-----------------------------------------------------------------------------
LEMMA CacheInit == Init => CacheInv
<1> SUFFICES ASSUME Init PROVE CacheInv
  OBVIOUS
<1>1. Cached = {}
  BY DEF Init, Cached
<1> QED
  BY <1>1, TypeInit, FS_EmptySet, CacheAssumption DEF CacheInv, CacheBounded, SeqsDistinct

LEMMA UntouchedKeeps ==
    ASSUME CacheInv, TypeOK', CacheUntouched PROVE CacheInv'
BY DEF CacheInv, CacheUntouched, CacheBounded, SeqsDistinct, Cached

(* Storing under the next number keeps the numbers distinct and bounded. *)
LEMMA StoreSeqs ==
    ASSUME CacheInv, NEW t \in Threads, NEW kept \in SUBSET Cached, Store(t, kept),
           ~value[t].oversized
    PROVE  /\ SeqsDistinct'
           /\ \A k \in Cached' : ~entries'[k].value.oversized
<1>0. TypeOK
  BY DEF CacheInv
<1>1. /\ Cached' = kept \cup {key[t]}
      /\ next_seq' = next_seq + 1
      /\ entries'[key[t]].seq = next_seq
      /\ entries'[key[t]].value = value[t]
      /\ \A k \in kept \ {key[t]} : entries'[k] = entries[k]
  BY <1>0, StoreType
<1>2. next_seq \in Nat /\ \A k \in Cached : entries[k].seq \in Nat
  BY <1>0 DEF TypeOK, CacheEntry
<1>3. \A k \in Cached : entries[k].seq < next_seq /\ ~entries[k].value.oversized
  BY DEF CacheInv, CacheBounded, SeqsDistinct
<1>4. \A k \in Cached' : entries'[k].seq < next_seq'
  BY <1>1, <1>2, <1>3
<1>5. ASSUME NEW j \in Cached', NEW k \in Cached', entries'[j].seq = entries'[k].seq
      PROVE  j = k
  <2>1. CASE j = key[t] \/ k = key[t]
    BY <1>1, <1>2, <1>3, <1>5, <2>1
  <2>2. CASE j # key[t] /\ k # key[t]
    BY <1>1, <1>5, <2>2 DEF CacheInv, SeqsDistinct
  <2> QED
    BY <2>1, <2>2
<1> QED
  BY <1>1, <1>3, <1>4, <1>5 DEF SeqsDistinct

LEMMA CachedFinite == TypeOK => IsFiniteSet(Cached) /\ Cardinality(Cached) \in Nat
BY CacheAssumption, FS_Subset, FS_CardinalityType DEF TypeOK

LEMMA CacheStep == CacheInv /\ [Next]_vars => CacheInv'
<1> SUFFICES ASSUME CacheInv, [Next]_vars PROVE CacheInv'
  OBVIOUS
<1>t. TypeOK /\ TypeOK'
  BY TypeStep DEF CacheInv
<1>f. /\ IsFiniteSet(Cached) /\ Cardinality(Cached) \in Nat
      /\ Cardinality(Cached) <= MaxEntries /\ MaxEntries \in Nat
  BY <1>t, CachedFinite, CacheAssumption DEF CacheInv, CacheBounded
<1>1. CASE CacheUntouched
  BY <1>1, <1>t, UntouchedKeeps
<1>2. ASSUME NEW t \in Threads, InsertInPlace(t) PROVE CacheInv'
  <2>1. Store(t, Cached) /\ ~value[t].oversized
    BY <1>2 DEF InsertInPlace
  <2>2. Cached' = Cached \cup {key[t]}
    BY <2>1, <1>t, StoreType
  <2>3. key[t] \in Cached \/ Cardinality(Cached) < MaxEntries
    BY <1>2, <1>f DEF InsertInPlace, NeedsEviction
  <2>4. Cardinality(Cached') <= MaxEntries
    BY <2>2, <2>3, <1>f, FS_AddElement
  <2> QED
    BY <2>1, <2>4, <1>t, StoreSeqs DEF CacheInv, CacheBounded
<1>3. ASSUME NEW t \in Threads, InsertEvicting(t) PROVE CacheInv'
  <2>1. PICK old \in Cached : Store(t, Cached \ {old})
    BY <1>3 DEF InsertEvicting
  <2>2. Cached' = (Cached \ {old}) \cup {key[t]}
    BY <2>1, <1>t, StoreType
  <2>3. /\ IsFiniteSet(Cached \ {old})
        /\ Cardinality(Cached \ {old}) = Cardinality(Cached) - 1
    BY <1>f, FS_RemoveElement
  <2>4. key[t] \notin Cached \ {old}
    BY <1>3 DEF InsertEvicting, NeedsEviction
  <2>5. Cardinality(Cached') = Cardinality(Cached \ {old}) + 1
    BY <2>2, <2>3, <2>4, FS_AddElement
  <2>6. Cardinality(Cached') <= MaxEntries
    BY <2>3, <2>5, <1>f
  <2>7. ~value[t].oversized
    BY <1>3 DEF InsertEvicting
  <2> QED
    BY <2>1, <2>6, <2>7, <1>t, StoreSeqs DEF CacheInv, CacheBounded
<1> QED
  BY <1>1, <1>2, <1>3
  DEF Next, vars, CacheUntouched, RefreshSummary, AppendRaw, Call, Hit, Miss,
      BuildFromSummary, BuildFromRaw, SummaryEmpty, BuildFails, InsertSkipped

LEMMA CacheInvariant == Spec => []CacheInv
BY CacheInit, CacheStep, PTL DEF Spec

(* However many builds run at once, the cache never holds more than its    *)
(* limit of entries, nor an answer above the size limit.                   *)
THEOREM CacheBoundedAlways == Spec => []CacheBounded
<1>1. CacheInv => CacheBounded
  BY DEF CacheInv
<1> QED
  BY <1>1, CacheInvariant, PTL

(* Insertion numbers stay distinct, so the oldest entry is well defined.   *)
THEOREM SeqsDistinctAlways == Spec => []SeqsDistinct
<1>1. CacheInv => SeqsDistinct
  BY DEF CacheInv
<1> QED
  BY <1>1, CacheInvariant, PTL

-----------------------------------------------------------------------------
(* Eviction is first-in first-out, one entry at a time, from a full cache. *)
THEOREM EvictsOldestOnlyAlways == Spec => EvictsOldestOnly
<1>1. CacheInv /\ [Next]_vars =>
        [\A k \in Cached \ Cached' :
           /\ Cardinality(Cached) = MaxEntries
           /\ \E new \in Cached' \ Cached : Cached' = (Cached \ {k}) \cup {new}
           /\ \A j \in Cached \ {k} : entries[k].seq < entries[j].seq]_vars
  <2> SUFFICES ASSUME CacheInv, Next, NEW k \in Cached \ Cached'
               PROVE  /\ Cardinality(Cached) = MaxEntries
                      /\ \E new \in Cached' \ Cached : Cached' = (Cached \ {k}) \cup {new}
                      /\ \A j \in Cached \ {k} : entries[k].seq < entries[j].seq
    OBVIOUS
  <2>0. TypeOK
    BY DEF CacheInv
  <2>1. ASSUME NEW t \in Threads, InsertInPlace(t) PROVE FALSE
    <3>1. Store(t, Cached)
      BY <2>1 DEF InsertInPlace
    <3> QED
      BY <3>1, <2>0, StoreType
  <2>2. PICK t \in Threads : InsertEvicting(t)
    BY <2>1
    DEF Next, RefreshSummary, AppendRaw, Call, Hit, Miss, BuildFromSummary, BuildFromRaw,
        SummaryEmpty, BuildFails, InsertSkipped, Cached
  <2>3. PICK old \in Cached : IsOldest(old) /\ Store(t, Cached \ {old})
    BY <2>2 DEF InsertEvicting
  <2>4. /\ key[t] \notin Cached
        /\ Cardinality(Cached) >= MaxEntries
    BY <2>2 DEF InsertEvicting, NeedsEviction
  <2>5. Cached' = (Cached \ {old}) \cup {key[t]}
    BY <2>0, <2>3, StoreType
  <2>6. k = old
    BY <2>5
  <2>7. Cardinality(Cached) = MaxEntries
    BY <2>0, <2>4, CachedFinite, CacheAssumption DEF CacheInv, CacheBounded
  <2>8. \A j \in Cached : entries[j].seq \in Nat
    BY <2>0 DEF TypeOK, CacheEntry
  <2>9. \A j \in Cached \ {k} : entries[k].seq < entries[j].seq
    BY <2>3, <2>6, <2>8 DEF IsOldest, CacheInv, SeqsDistinct
  <2> QED
    BY <2>4, <2>5, <2>6, <2>7, <2>9
<1> QED
  BY <1>1, CacheInvariant, PTL DEF Spec, EvictsOldestOnly
-----------------------------------------------------------------------------
(* An answer is one that its table has given for the key. *)
FromTables(k, v) ==
    \/ v.table = "summary" /\ v.version <= summary[k] /\ (k \in FallbackKeys => v.version > 0)
    \/ v.table = "raw" /\ v.version <= raw[k] /\ k \in FallbackKeys

(* What a build carries from its query to the insert. *)
SourceInv ==
    /\ \A k \in Cached : FromTables(k, entries[k].value)
    /\ \A t \in Threads :
         /\ pc[t] = "raw" => key[t] \in FallbackKeys
         /\ pc[t] = "insert" => FromTables(key[t], value[t])

LEMMA SourceInit == Init => SourceInv
BY DEF Init, SourceInv, Cached

(* The tables' versions only grow, so an old answer stays one. *)
LEMMA FromTablesStays ==
    ASSUME NEW k \in Keys, NEW v \in Value, FromTables(k, v), TypeOK,
           summary' \in [Keys -> Nat], raw' \in [Keys -> Nat],
           summary[k] <= summary'[k], raw[k] <= raw'[k]
    PROVE  FromTables(k, v)'
<1>1. v.version \in Nat /\ summary[k] \in Nat /\ raw[k] \in Nat
      /\ summary'[k] \in Nat /\ raw'[k] \in Nat
  BY DEF Value, TypeOK
<1> QED
  BY <1>1 DEF FromTables

(* Storing an answer that is from the tables. *)
LEMMA SourceStore ==
    ASSUME TypeOK, SourceInv, NEW t \in Threads, pc[t] = "insert",
           NEW kept \in SUBSET Cached, Store(t, kept), Returns(t)
    PROVE  SourceInv'
<1>1. ASSUME NEW k \in Cached' PROVE FromTables(k, entries[k].value)'
  <2>1. CASE k = key[t]
    BY <2>1, StoreType DEF SourceInv, FromTables, Returns
  <2>2. CASE k # key[t]
    BY <2>2, StoreType DEF SourceInv, FromTables, Returns
  <2> QED
    BY <2>1, <2>2
<1>2. ASSUME NEW u \in Threads
      PROVE  /\ pc'[u] = "raw" => key'[u] \in FallbackKeys
             /\ pc'[u] = "insert" => FromTables(key[u], value[u])'
  BY DEF SourceInv, FromTables, Returns, Goto, TypeOK
<1> QED
  BY <1>1, <1>2 DEF SourceInv

LEMMA SourceStep ==
    ASSUME TypeOK, TypeOK', SourceInv, [Next]_vars
    PROVE  SourceInv'
<1> USE DEF Goto
<1>t. /\ \A k \in Cached : k \in Keys /\ entries[k].value \in Value
      /\ \A t \in Threads : key[t] \in Keys /\ value[t] \in Value
  BY DEF TypeOK, CacheEntry
<1>1. CASE UNCHANGED vars
  BY <1>1 DEF vars, SourceInv, FromTables, Cached
<1>2. ASSUME NEW k \in Keys, RefreshSummary(k) \/ AppendRaw(k) PROVE SourceInv'
  <2>1. /\ summary' \in [Keys -> Nat] /\ raw' \in [Keys -> Nat]
        /\ UNCHANGED <<entries, pc, key, value>>
    BY <1>2 DEF RefreshSummary, AppendRaw, TypeOK
  <2>2. \A j \in Keys : summary[j] <= summary'[j] /\ raw[j] <= raw'[j]
    BY <1>2 DEF RefreshSummary, AppendRaw, TypeOK
  <2>3. ASSUME NEW j \in Keys, NEW v \in Value, FromTables(j, v) PROVE FromTables(j, v)'
    BY <2>1, <2>2, <2>3, FromTablesStays
  <2> QED
    BY <1>t, <2>1, <2>3 DEF SourceInv, Cached, FromTables
<1>3. ASSUME NEW t \in Threads, NEW k \in Keys, Call(t, k) PROVE SourceInv'
  BY <1>3 DEF Call, SourceInv, FromTables, TypeOK, Cached
<1>4. ASSUME NEW t \in Threads, Hit(t) \/ Miss(t) \/ SummaryEmpty(t) \/ BuildFails(t)
      PROVE SourceInv'
  BY <1>4 DEF Hit, Miss, SummaryEmpty, BuildFails, SourceInv, FromTables, TypeOK, Cached
<1>5. ASSUME NEW t \in Threads, NEW big \in BOOLEAN, BuildFromSummary(t, big) PROVE SourceInv'
  BY <1>5 DEF BuildFromSummary, SourceInv, FromTables, TypeOK, Cached
<1>6. ASSUME NEW t \in Threads, NEW big \in BOOLEAN, BuildFromRaw(t, big) PROVE SourceInv'
  BY <1>6 DEF BuildFromRaw, SourceInv, FromTables, TypeOK, Cached
<1>7. ASSUME NEW t \in Threads, InsertSkipped(t) PROVE SourceInv'
  BY <1>7 DEF InsertSkipped, Returns, SourceInv, FromTables, TypeOK, Cached
<1>8. ASSUME NEW t \in Threads, InsertInPlace(t) PROVE SourceInv'
  BY <1>8, SourceStore DEF InsertInPlace, Returns
<1>9. ASSUME NEW t \in Threads, InsertEvicting(t) PROVE SourceInv'
  <2>1. PICK old \in Cached : Store(t, Cached \ {old})
    BY <1>9 DEF InsertEvicting
  <2> QED
    BY <1>9, <2>1, SourceStore DEF InsertEvicting, Returns
<1> QED
  BY <1>1, <1>2, <1>3, <1>4, <1>5, <1>6, <1>7, <1>8, <1>9 DEF Next

(* What the cache serves is what a table once gave for the key, raw rows    *)
(* only for the keys that fall back to them.                               *)
THEOREM AnswersFromTablesAlways == Spec => []AnswersFromTables
<1>1. Init => TypeOK /\ SourceInv
  BY TypeInit, SourceInit
<1>2. TypeOK /\ SourceInv /\ [Next]_vars => (TypeOK /\ SourceInv)'
  BY TypeStep, SourceStep
<1>3. SourceInv => AnswersFromTables
  BY DEF SourceInv, FromTables, AnswersFromTables
<1> QED
  BY <1>1, <1>2, <1>3, PTL DEF Spec
=============================================================================
