---------------------------- MODULE MCOwnership ----------------------------
(* Ownership with two processes of the daemon, each of which may stand for   *)
(* later ones, and two queries of one tree.                                  *)
EXTENDS Ownership

CONSTANTS d1, d2, q1, q2, t1, f1, f2

TwoDaemons == {d1, d2}
TwoQueries == {q1, q2}
OneTree == {t1}
TwoFiles == {f1, f2}
=============================================================================
