-------------------------------- MODULE Search --------------------------------
(***************************************************************************)
(* What an indexed search promises, whatever answers it: every query sees  *)
(* each path in a version it had between the moment the query asked and    *)
(* the moment it answered, as a scan of the same tree would.               *)
(***************************************************************************)
EXTENDS Naturals

CONSTANTS Paths, Queries, MaxVersion

VARIABLES
    disk,   \* version of every path on disk
    phase,  \* "idle", "asked", "answered" or "failed", per query
    floor,  \* disk when the query asked
    view    \* versions its answer reflects

vars == <<disk, phase, floor, view>>

Versions  == 0 .. MaxVersion
NoVersion == [p \in Paths |-> 0]

Init ==
    /\ disk = NoVersion
    /\ phase = [q \in Queries |-> "idle"]
    /\ floor = [q \in Queries |-> NoVersion]
    /\ view  = [q \in Queries |-> NoVersion]

\* Some paths change; versions only grow.
Change ==
    /\ disk' \in [Paths -> Versions]
    /\ \A p \in Paths : disk'[p] >= disk[p]
    /\ UNCHANGED <<phase, floor, view>>

\* A query asks; one that waited may ask again, of a newer tree.
Ask(q) ==
    /\ phase[q] \in {"idle", "asked"}
    /\ phase' = [phase EXCEPT ![q] = "asked"]
    /\ floor' = [floor EXCEPT ![q] = disk]
    /\ UNCHANGED <<disk, view>>

Answer(q) ==
    /\ phase[q] = "asked"
    /\ phase' = [phase EXCEPT ![q] = "answered"]
    /\ \E seen \in [Paths -> Versions] :
        /\ \A p \in Paths : floor[q][p] <= seen[p] /\ seen[p] <= disk[p]
        /\ view' = [view EXCEPT ![q] = seen]
    /\ UNCHANGED <<disk, floor>>

Fail(q) ==
    /\ phase[q] = "asked"
    /\ phase' = [phase EXCEPT ![q] = "failed"]
    /\ UNCHANGED <<disk, floor, view>>

Finish(q) ==
    /\ phase[q] \in {"answered", "failed"}
    /\ phase' = [phase EXCEPT ![q] = "idle"]
    /\ floor' = [floor EXCEPT ![q] = NoVersion]
    /\ view'  = [view EXCEPT ![q] = NoVersion]
    /\ UNCHANGED disk

Next ==
    \/ Change
    \/ \E q \in Queries : Ask(q) \/ Answer(q) \/ Fail(q) \/ Finish(q)

Spec == Init /\ [][Next]_vars
=============================================================================
