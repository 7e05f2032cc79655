------------------------------ MODULE MCPublish ------------------------------
(***************************************************************************)
(* Small instances of Publish for TLC.                                     *)
(***************************************************************************)
EXTENDS Publish, TLC

CONSTANTS child, orphan

TwoPaths        == 1 .. 2
ThreePaths      == 1 .. 3
OneBuilder      == {child}
TwoBuilders     == {child, orphan}
BuilderSymmetry == Permutations(TwoBuilders)
=============================================================================
