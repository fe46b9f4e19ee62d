---------------------------- MODULE MCHttpServer ----------------------------
(* Instances of HttpServer for TLC.  The connections are interchangeable.  *)
EXTENDS HttpServer, TLC

CONSTANTS c1, c2, c3

TwoConns == {c1, c2}
ThreeConns == {c1, c2, c3}
Symmetry == Permutations(Conns)
=============================================================================
