---------------------------- MODULE MCQueryConn ----------------------------
(* Two queries and two health scans: the queries only meet at the reader   *)
(* mutex, so a second one and a scan make every interaction happen.        *)
EXTENDS QueryConn

CONSTANTS q1, q2

MCQueries == {q1, q2}
OneQuery == {q1}
=============================================================================
