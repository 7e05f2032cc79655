------------------------------ MODULE MCWatches ------------------------------
(***************************************************************************)
(* Small instances of Watches for TLC.                                     *)
(***************************************************************************)
EXTENDS Watches, TLC

CONSTANTS r, s, a, b, n1, n2, n3, n4, v1, v2, outer, inner

\* One tree: its root and two directories in it.
OneTree    == {outer}
FlatDirs   == {r, a, b}
FlatParent == [d \in FlatDirs |-> r]
FlatRoot   == [t \in OneTree |-> r]
FlatUnder  == [t \in OneTree |-> FlatDirs]

\* One tree: its root and a directory in it.
SmallDirs   == {r, a}
SmallParent == [d \in SmallDirs |-> r]
SmallUnder  == [t \in OneTree |-> SmallDirs]

\* One tree: a directory in a directory of its root.
DeepParent == r :> r @@ a :> r @@ b :> a

\* Two trees side by side.
TwoTrees    == {outer, inner}
SideDirs    == {r, a, b, s}
SideParent  == DeepParent @@ s :> s
SideRoot    == outer :> r @@ inner :> s
SideUnder   == outer :> {r, a, b} @@ inner :> {s}

TwoNodes   == {n1, n2}
FourNodes  == {n1, n2, n3, n4}
OneVersion  == {v1}
TwoVersions == {v1, v2}

\* Identities are alike, and versions; in FlatParent the two directories too.
NodeSymmetry == Permutations(Nodes)
FlatSymmetry == NodeSymmetry \cup Permutations(Versions) \cup Permutations({a, b})

\* since_walk is read when a build of the tree ends and forgotten when the next
\* one begins: what it holds for any other tree tells no two states apart.
LiveState ==
    <<corpusVars, registryVars, kernelVars, fileVars, sincePublish, drained,
      [t \in Trees |-> IF build.tree = t /\ build.child THEN sinceWalk[t] ELSE {}],
      daemonVars, buildVars>>

\* No step reads what a generation was built from, and of the change sets a
\* step reads only whether the drain under way has found any: to the registry
\* and the budget the rest makes no difference.
RegistryState ==
    <<corpusVars, registryVars, kernelVars, fileVars, drained = NoDrain, daemonVars,
      [build EXCEPT !.got = Absent]>>
=============================================================================
