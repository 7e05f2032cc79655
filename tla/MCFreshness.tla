---------------------------- MODULE MCFreshness ----------------------------
(***************************************************************************)
(* Small instances of Freshness for TLC.                                   *)
(***************************************************************************)
EXTENDS Freshness, TLC

CONSTANTS p1, p2, q1

OnePath      == {p1}
TwoPaths     == {p1, p2}
OneQuery     == {q1}
NoQuery      == {}
PathSymmetry == Permutations(TwoPaths)

(***************************************************************************)
(* The state without the values nobody reads again: the stamp of a drain   *)
(* once it is published, since_walk outside a build, the paths of a ledger *)
(* that no query accepts, and what a query remembers once it has its       *)
(* answer.  Hidden values tell no two behaviours apart.                    *)
(***************************************************************************)
WalkCounts == build["child"].phase # "none" \/ outcome = "built"

CoreState ==
    <<disk, watchVars, indexVars,
      IF Wide \in ledger.paths THEN NoLedger ELSE ledger,
      journalClean, watcherReady, owned, lease,
      sincePublish, IF WalkCounts THEN sinceWalk ELSE {}, churning,
      dpc, IF dpc \in {"drain", "commit", "publish"} THEN drainedAt ELSE {}, outcome, build,
      qpc, [q \in Queries |-> last[q] /\ qpc[q] \notin {"scanning", "answered", "failed"}],
      floor, [q \in Queries |-> IF qpc[q] = "loading" THEN named[q] ELSE {}], view>>
=============================================================================
