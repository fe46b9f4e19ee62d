--------------------------- MODULE MCSchemaFence ---------------------------
(* Instances of SchemaFence. *)
EXTENDS SchemaFence, TLC

CONSTANTS p1, p2, p3

(* Three processes of this commit's generation 3, two of one build; p3 is  *)
(* an additive release that also opens a catalog of generation 2.          *)
SafeProcs == {p1, p2, p3}
SafeVersion == (p1 :> 3) @@ (p2 :> 3) @@ (p3 :> 3)
SafeMin == (p1 :> 3) @@ (p2 :> 3) @@ (p3 :> 2)
SafeBuild == (p1 :> 1) @@ (p2 :> 1) @@ (p3 :> 2)

(* A fresh catalog, or one stamped too old, within a window, or too new. *)
FreshOrStamped == {{}, {1}, {2}, {3}, {4}}

(* Two releases that race for a fresh catalog. *)
RaceProcs == {p1, p2}
RaceVersion == (p1 :> 3) @@ (p2 :> 4)
RaceBuild == (p1 :> 1) @@ (p2 :> 2)
Fresh == {{}}
=============================================================================
