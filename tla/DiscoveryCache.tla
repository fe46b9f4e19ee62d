--------------------------- MODULE DiscoveryCache ---------------------------
(***************************************************************************)
(* src/metadata.rs: the in-process cache of discovery answers (label and   *)
(* tag values, series, metric metadata).                                   *)
(*                                                                         *)
(* Metadata::cached reads the storage generation, looks the key up under   *)
(* the cache mutex, builds a missing answer with the mutex released, and   *)
(* takes the mutex again to insert it.  A build reads metadata_summary and *)
(* for Prometheus labels and series, when that is empty, scans the raw     *)
(* metric tables with a second query.  The tables belong to an external    *)
(* writer and change at any time.                                          *)
(***************************************************************************)
EXTENDS Naturals, FiniteSets

CONSTANTS Threads,       \* request-handler threads
          Keys,          \* cache keys: API, kind, name and normalised range
          FallbackKeys,  \* keys whose build falls back to the raw tables
          MaxEntries,    \* MAX_CACHE_ENTRIES
          MaxCalls,      \* bound: calls of Metadata::cached in a behaviour
          MaxVersion     \* bound: changes of each table by the writer

ASSUME CacheAssumption ==
    /\ IsFiniteSet(Keys)
    /\ FallbackKeys \subseteq Keys
    /\ MaxEntries \in Nat \ {0}
    /\ MaxCalls \in Nat
    /\ MaxVersion \in Nat

VARIABLES entries,   \* DiscoveryCache.entries: key -> CacheEntry
          next_seq,  \* DiscoveryCache.next_seq
          summary,   \* version of metadata_summary for a key, 0 = no rows
          raw,       \* version of the raw metric tables for a key
          pc,        \* where each thread is
          key,       \* the key of its call
          value,     \* the answer it has built
          calls      \* history: calls made (bounded by MaxCalls)

vars == <<entries, next_seq, summary, raw, pc, key, value, calls>>

(* Storage::metadata_generation: set to 0 by Storage::open, never changed. *)
Generation == 0

(* An answer: the table it was read from, that table's version for the     *)
(* key, and whether it is longer than MAX_CACHE_VALUE_BYTES.               *)
Value == [table : {"summary", "raw"}, version : Nat, oversized : BOOLEAN]
NoValue == [table |-> "summary", version |-> 0, oversized |-> FALSE]
CacheEntry == [generation : Nat, seq : Nat, value : Value]

PCs == {"idle", "lookup", "summary", "raw", "insert"}

Init ==
    /\ entries = [k \in {} |-> NoValue]
    /\ next_seq = 0
    /\ summary = [k \in Keys |-> 0]
    /\ raw = [k \in Keys |-> 0]
    /\ pc = [t \in Threads |-> "idle"]
    /\ key \in [Threads -> Keys]
    /\ value = [t \in Threads |-> NoValue]
    /\ calls = 0

Cached == DOMAIN entries

Goto(t, from, to) ==
    /\ pc[t] = from
    /\ pc' = [pc EXCEPT ![t] = to]

-----------------------------------------------------------------------------
(* The external writer refreshes the summary rows or appends raw rows. *)
RefreshSummary(k) ==
    /\ summary[k] < MaxVersion
    /\ summary' = [summary EXCEPT ![k] = @ + 1]
    /\ UNCHANGED <<entries, next_seq, raw, pc, key, value, calls>>

AppendRaw(k) ==
    /\ raw[k] < MaxVersion
    /\ raw' = [raw EXCEPT ![k] = @ + 1]
    /\ UNCHANGED <<entries, next_seq, summary, pc, key, value, calls>>

-----------------------------------------------------------------------------
(* An adapter calls cached(key); the generation is read before the lookup. *)
Call(t, k) ==
    /\ calls < MaxCalls
    /\ Goto(t, "idle", "lookup")
    /\ key' = [key EXCEPT ![t] = k]
    /\ calls' = calls + 1
    /\ UNCHANGED <<entries, next_seq, summary, raw, value>>

(* DiscoveryCache::get *)
HasCurrent(k) == k \in Cached /\ entries[k].generation = Generation

Hit(t) ==
    /\ HasCurrent(key[t])
    /\ Goto(t, "lookup", "idle")
    /\ UNCHANGED <<entries, next_seq, summary, raw, key, value, calls>>

Miss(t) ==
    /\ ~HasCurrent(key[t])
    /\ Goto(t, "lookup", "summary")
    /\ UNCHANGED <<entries, next_seq, summary, raw, key, value, calls>>

(* The build's first query: label_values and its siblings. *)
BuildFromSummary(t, big) ==
    /\ summary[key[t]] > 0 \/ key[t] \notin FallbackKeys
    /\ Goto(t, "summary", "insert")
    /\ value' = [value EXCEPT ![t] =
            [table |-> "summary", version |-> summary[key[t]], oversized |-> big]]
    /\ UNCHANGED <<entries, next_seq, summary, raw, key, calls>>

(* Mutant: every kind of key falls back to the raw metric tables. *)
SummaryEmpty_AnyKey(t) ==
    /\ summary[key[t]] = 0
    /\ Goto(t, "summary", "raw")
    /\ UNCHANGED <<entries, next_seq, summary, raw, key, value, calls>>

SummaryEmpty(t) ==
    /\ summary[key[t]] = 0 /\ key[t] \in FallbackKeys
    /\ Goto(t, "summary", "raw")
    /\ UNCHANGED <<entries, next_seq, summary, raw, key, value, calls>>

(* The second query: prometheus_raw_label_values, prometheus_raw_series. *)
BuildFromRaw(t, big) ==
    /\ Goto(t, "raw", "insert")
    /\ value' = [value EXCEPT ![t] =
            [table |-> "raw", version |-> raw[key[t]], oversized |-> big]]
    /\ UNCHANGED <<entries, next_seq, summary, raw, key, calls>>

(* build()? returns early: nothing is cached. *)
BuildFails(t) ==
    /\ pc[t] \in {"summary", "raw"}
    /\ pc' = [pc EXCEPT ![t] = "idle"]
    /\ UNCHANGED <<entries, next_seq, summary, raw, key, value, calls>>

-----------------------------------------------------------------------------
(* DiscoveryCache::insert, and the call returns the answer it built. *)
Returns(t) ==
    /\ Goto(t, "insert", "idle")
    /\ value' = [value EXCEPT ![t] = NoValue]
    /\ UNCHANGED <<summary, raw, key, calls>>

InsertSkipped(t) ==
    /\ value[t].oversized
    /\ Returns(t)
    /\ UNCHANGED <<entries, next_seq>>

(* Mutants: one entry too many; an overwrite evicts too. *)
NeedsEviction_OneLate(k) == Cardinality(Cached) > MaxEntries /\ k \notin Cached
NeedsEviction_OnOverwrite(k) == Cardinality(Cached) >= MaxEntries

NeedsEviction(k) == Cardinality(Cached) >= MaxEntries /\ k \notin Cached

IsOldest(k) == \A j \in Cached : entries[k].seq <= entries[j].seq

Store(t, kept) ==
    /\ entries' = [k \in kept \cup {key[t]} |->
            IF k = key[t]
            THEN [generation |-> Generation, seq |-> next_seq, value |-> value[t]]
            ELSE entries[k]]
    /\ next_seq' = next_seq + 1

InsertInPlace(t) ==
    /\ ~value[t].oversized
    /\ ~NeedsEviction(key[t])
    /\ Store(t, Cached)
    /\ Returns(t)

InsertEvicting(t) ==
    /\ ~value[t].oversized
    /\ NeedsEviction(key[t])
    /\ \E old \in Cached : IsOldest(old) /\ Store(t, Cached \ {old})
    /\ Returns(t)

-----------------------------------------------------------------------------
Next ==
    \/ \E k \in Keys : RefreshSummary(k) \/ AppendRaw(k)
    \/ \E t \in Threads :
        \/ \E k \in Keys : Call(t, k)
        \/ Hit(t)
        \/ Miss(t)
        \/ \E big \in BOOLEAN : BuildFromSummary(t, big) \/ BuildFromRaw(t, big)
        \/ SummaryEmpty(t)
        \/ BuildFails(t)
        \/ InsertSkipped(t)
        \/ InsertInPlace(t)
        \/ InsertEvicting(t)

Spec == Init /\ [][Next]_vars

-----------------------------------------------------------------------------
TypeOK ==
    /\ Cached \subseteq Keys
    /\ entries \in [Cached -> CacheEntry]
    /\ next_seq \in Nat
    /\ summary \in [Keys -> Nat]
    /\ raw \in [Keys -> Nat]
    /\ pc \in [Threads -> PCs]
    /\ key \in [Threads -> Keys]
    /\ value \in [Threads -> Value]
    /\ calls \in Nat

(* Concurrent builds never push the cache over MAX_CACHE_ENTRIES, and no   *)
(* answer above MAX_CACHE_VALUE_BYTES is kept.                             *)
CacheBounded ==
    /\ Cardinality(Cached) <= MaxEntries
    /\ \A k \in Cached : ~entries[k].value.oversized

(* Insertion numbers are never reused, so "the oldest entry" is one entry. *)
SeqsDistinct ==
    /\ \A k \in Cached : entries[k].seq < next_seq
    /\ \A j, k \in Cached : entries[j].seq = entries[k].seq => j = k

(* An answer disappears only from a full cache, to make room for another   *)
(* key, and only if every other answer was stored after it.                *)
EvictsOldestOnly ==
    [][\A k \in Cached \ Cached' :
         /\ Cardinality(Cached) = MaxEntries
         /\ \E new \in Cached' \ Cached : Cached' = (Cached \ {k}) \cup {new}
         /\ \A j \in Cached \ {k} : entries[k].seq < entries[j].seq]_vars

(* What is cached is what the tables once held: an answer is never newer   *)
(* than its table, and raw rows are only served for keys that fall back.   *)
AnswersFromTables == \A k \in Cached :
    LET v == entries[k].value IN
    \/ v.table = "summary" /\ v.version <= summary[k] /\ (k \in FallbackKeys => v.version > 0)
    \/ v.table = "raw" /\ v.version <= raw[k] /\ k \in FallbackKeys

(* A cached answer is served only while it is what a rebuild from the      *)
(* latest summary rows would give: a refresh of metadata_summary makes the *)
(* lookup miss (the module comment of metadata.rs).                        *)
HitsAreCurrent ==
    [][\A t \in Threads : Hit(t) =>
         entries[key[t]].value.version = summary[key[t]]]_vars
=============================================================================
