------------------------------ MODULE Options ------------------------------
(* Rust's Option: at most one value, as a sequence of length 0 or 1. *)
EXTENDS Naturals, Sequences

None == <<>>
Some(v) == <<v>>
IsSome(o) == o # <<>>
Value(o) == o[1]

(* unwrap_or, or_else *)
UnwrapOr(o, default) == IF o = <<>> THEN default ELSE o[1]
OrElse(o, p) == IF o = <<>> THEN p ELSE o

IsOption(o, S) == o \in Seq(S) /\ Len(o) <= 1

(* and_then, and the ? of a function that returns an Option or a Result. *)
AndThen(o, Op(_)) == IF o = <<>> THEN <<>> ELSE Op(o[1])
=============================================================================
