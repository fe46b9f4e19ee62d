-------------------------- MODULE MCDiscoveryCache --------------------------
(* A cache of two entries and three keys, so that evictions, overwrites    *)
(* and two builds of one key all happen.                                   *)
EXTENDS DiscoveryCache, TLC

CONSTANTS t1, t2, k1, k2, k3

MCThreads == {t1, t2}
MCKeys == {k1, k2, k3}
MCFallback == {k1}
OneKey == {k2}
NoKeys == {}
Symmetry == Permutations(MCThreads) \cup Permutations({k2, k3})
=============================================================================
