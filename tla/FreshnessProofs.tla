--------------------------- MODULE FreshnessProofs ---------------------------
(***************************************************************************)
(* Proofs about Freshness, for every set of paths, any number of queries   *)
(* and every value of the ceilings.                                        *)
(***************************************************************************)
EXTENDS Freshness, TLAPS, FiniteSetTheorems

\* What the change sets are made of is itself a change set (Changed::absorb).
LEMMA AbsorbIsChanged ==
    ASSUME NEW changed \in Changed, NEW events \in SUBSET Events
    PROVE  Absorb(changed, events) \in Changed
<1> DEFINE all == changed \cup events
<1>1. all \subseteq Paths \cup {Wide}
  BY DEF Changed, Unbounded, Events
<1>2. CASE Wide \in all \/ Cardinality(all \ {Wide}) > DirtyCeiling
  BY <1>2 DEF Absorb, Changed
<1>3. CASE ~(Wide \in all \/ Cardinality(all \ {Wide}) > DirtyCeiling)
  <2>1. all \ {Wide} = all /\ all \subseteq Paths
    BY <1>1, <1>3
  <2>2. Absorb(changed, events) = all
    BY <1>3 DEF Absorb
  <2>3. IsFiniteSet(all)
    BY <2>1, ConstantsAssumption, FS_Subset
  <2>4. Cardinality(all) \in Nat
    BY <2>3, FS_CardinalityType
  <2>5. Cardinality(all) <= DirtyCeiling
    BY <1>3, <2>1, <2>4, ConstantsAssumption
  <2> QED BY <2>1, <2>2, <2>5 DEF Changed
<1> QED BY <1>2, <1>3

\* Nothing absorbed is forgotten: it is named, or everything is.
LEMMA AbsorbNames ==
    ASSUME NEW changed, NEW events, NEW p,
           Names(changed, p) \/ Names(events, p)
    PROVE  Names(Absorb(changed, events), p)
BY DEF Names, Absorb, Unbounded

\* The values the variables are set to have their types.
LEMMA Values ==
    /\ {} \in Changed /\ Unbounded \in Changed
    /\ NoVersion \in Contents
    /\ NotClean \in CleanMarkers /\ JustClean \in CleanMarkers
    /\ NoLedger \in Ledgers
    /\ NoBuild \in Builds
<1>1. Cardinality({}) = 0
  BY FS_EmptySet
<1>2. {} \in Changed /\ Unbounded \in Changed
  BY <1>1, ConstantsAssumption DEF Changed
<1>3. NoVersion \in Contents
  BY ConstantsAssumption DEF NoVersion, Contents, Versions
<1>4. NotClean \in CleanMarkers /\ JustClean \in CleanMarkers
  BY DEF NotClean, JustClean, CleanMarkers
<1>5. NoLedger \in Ledgers
  BY <1>2 DEF NoLedger, Ledgers
<1>6. NoBuild \in Builds
  BY <1>3 DEF NoBuild, Builds
<1> QED BY <1>2, <1>3, <1>4, <1>5, <1>6

\* A build under way keeps its type when it reads one more path.
LEMMA ReadingAPath ==
    ASSUME NEW one \in Builds, NEW p \in Paths, NEW version \in Versions
    PROVE  [one EXCEPT !.unread = @ \ {p}, !.got[p] = version] \in Builds
<1>1. [one.got EXCEPT ![p] = version] \in Contents
  BY DEF Builds, Contents
<1> QED BY <1>1 DEF Builds

\* What publish_dirt writes is a ledger.
LEMMA PublishedLedger ==
    ASSUME NEW paths \in Changed, NEW drained \in SUBSET Queries
    PROVE  [present |-> TRUE, paths |-> paths, drained |-> drained] \in Ledgers
BY DEF Ledgers

-----------------------------------------------------------------------------
(***************************************************************************)
(* Type correctness.                                                       *)
(***************************************************************************)

\* The files, the daemon and the queries start out typed.
LEMMA TypeInit == Init => TypeOK
<1> SUFFICES ASSUME Init PROVE TypeOK
  OBVIOUS
<1>1. FlagTypes
  BY DEF Init, FlagTypes
<1>2. ValueTypes
  BY Values DEF Init, ValueTypes
<1> QED BY <1>1, <1>2 DEF TypeOK

\* Every step keeps the type of markers, flags and places in the code.
LEMMA FlagsNext ==
    ASSUME TypeOK, [Next]_vars
    PROVE  FlagTypes'
<1> USE DEF watchVars, fileVars, indexVars, dirtVars, queryVars, daemonVars,
            TypeOK, FlagTypes
<1>1. ASSUME NEW p \in Paths, Write(p)
     PROVE  FlagTypes'
  BY <1>1
     DEF Write, Notify
<1>2. ASSUME NEW moved \in SUBSET Paths, Restructure(moved)
     PROVE  FlagTypes'
  BY <1>2
     DEF Restructure, Notify
<1>3. CASE LeaseExpires
  BY <1>3
     DEF LeaseExpires
<1>4. CASE Start
  BY <1>4
     DEF Start
<1>5. CASE Stamp
  BY <1>5
     DEF Stamp
<1>6. CASE Drain
  BY <1>6
     DEF Drain, AbsorbQueue, MayGiveUp
<1>7. CASE Publish
  BY <1>7
     DEF Publish
<1>8. CASE ReleaseUnleased
  BY <1>8
     DEF ReleaseUnleased, ForgetTree
<1>9. CASE SkipRequest
  BY <1>9
     DEF SkipRequest
<1>10. CASE WatchRequest
  BY <1>10
     DEF WatchRequest
<1>11. CASE RefuseWatch
  BY <1>11
     DEF RefuseWatch
<1>12. CASE StartBuild
  BY <1>12
     DEF StartBuild, BeginBuild
<1>13. CASE SpawnNothing
  BY <1>13
     DEF SpawnNothing, BeginBuild
<1>14. CASE SkipBuild
  BY <1>14
     DEF SkipBuild
<1>15. CASE Poll
  BY <1>15
     DEF Poll
<1>16. CASE Reap
  BY <1>16
     DEF Reap
<1>17. CASE Commit
  BY <1>17
     DEF Commit
<1>18. CASE Wait
  BY <1>18
     DEF Wait, AbsorbQueue, MayGiveUp
<1>60. CASE ServeAnotherTree
  BY <1>60
     DEF ServeAnotherTree, AbsorbQueue, MayGiveUp
<1>19. CASE Evict
  BY <1>19
     DEF Evict, ForgetTree
<1>20. CASE Leave
  BY <1>20
     DEF Leave
<1>21. CASE Exit
  BY <1>21
     DEF Exit, ProcessEnds, ForgetTree
<1>22. CASE ChooseVictim
  BY <1>22
     DEF ChooseVictim
<1>23. CASE Crash
  BY <1>23
     DEF Crash, ProcessEnds, ForgetTree
<1>24. ASSUME NEW b \in Builders, NEW p \in Paths, ReadPath(b, p)
     PROVE  FlagTypes'
  BY <1>24
     DEF ReadPath
<1>25. ASSUME NEW b \in Builders, SwapIn(b)
     PROVE  FlagTypes'
  BY <1>25
     DEF SwapIn
<1>26. ASSUME NEW b \in Builders, BuildExits(b)
     PROVE  FlagTypes'
  BY <1>26
     DEF BuildExits
<1>27. ASSUME NEW q \in Queries, Plan(q)
     PROVE  FlagTypes'
  BY <1>27
     DEF Plan, Goto
<1>28. ASSUME NEW q \in Queries, TakeFloor(q)
     PROVE  FlagTypes'
  BY <1>28
     DEF TakeFloor, Goto
<1>29. ASSUME NEW q \in Queries, Register(q)
     PROVE  FlagTypes'
  BY <1>29
     DEF Register, Goto, WriteWake
<1>30. ASSUME NEW q \in Queries, Ask(q)
     PROVE  FlagTypes'
  BY <1>30
     DEF Ask, Goto, Unvouched
<1>31. ASSUME NEW q \in Queries, KeepAlive(q)
     PROVE  FlagTypes'
  BY <1>31
     DEF KeepAlive, Goto
<1>32. ASSUME NEW q \in Queries, ReadLedger(q)
     PROVE  FlagTypes'
  BY <1>32
     DEF ReadLedger, Goto, Unvouched
<1>33. ASSUME NEW q \in Queries, PollExpires(q)
     PROVE  FlagTypes'
  BY <1>33
     DEF PollExpires, Goto, Unvouched
<1>34. ASSUME NEW q \in Queries, WaitReady(q)
     PROVE  FlagTypes'
  BY <1>34
     DEF WaitReady, Goto
<1>35. ASSUME NEW q \in Queries, WaitReregisters(q)
     PROVE  FlagTypes'
  BY <1>35
     DEF WaitReregisters, Goto, WriteWake
<1>36. ASSUME NEW q \in Queries, WaitExpires(q)
     PROVE  FlagTypes'
  BY <1>36
     DEF WaitExpires, Goto
<1>37. ASSUME NEW q \in Queries, AnswerFromIndex(q)
     PROVE  FlagTypes'
  BY <1>37
     DEF AnswerFromIndex, Goto
<1>38. ASSUME NEW q \in Queries, IndexStopsAnswering(q)
     PROVE  FlagTypes'
  BY <1>38
     DEF IndexStopsAnswering, Goto
<1>39. ASSUME NEW q \in Queries, Scan(q)
     PROVE  FlagTypes'
  BY <1>39
     DEF Scan, Goto
<1>40. ASSUME NEW q \in Queries, Finish(q)
     PROVE  FlagTypes'
  BY <1>40
     DEF Finish, Goto
<1>41. CASE UNCHANGED vars
  BY <1>41
     DEF vars
<1> QED
  BY <1>1, <1>2, <1>3, <1>4, <1>5, <1>6, <1>7, <1>8, <1>9, <1>10, <1>11,
     <1>12, <1>13, <1>14, <1>15, <1>16, <1>17, <1>18, <1>60, <1>19, <1>20,
     <1>21, <1>22, <1>23, <1>24, <1>25, <1>26, <1>27, <1>28, <1>29, <1>30,
     <1>31, <1>32, <1>33, <1>34, <1>35, <1>36, <1>37, <1>38, <1>39, <1>40,
     <1>41
     DEF Next, Corpus, DaemonStep, BuildStep, QueryStep

\* Every step keeps the type of versions, ledgers, change sets and views.
LEMMA ValuesNext ==
    ASSUME TypeOK, [Next]_vars
    PROVE  ValueTypes'
<1> USE Values DEF watchVars, fileVars, indexVars, dirtVars, queryVars, daemonVars,
            TypeOK, ValueTypes
<1>1. ASSUME NEW p \in Paths, Write(p)
     PROVE  ValueTypes'
  BY <1>1, ConstantsAssumption
     DEF Write, Notify, Contents, Versions, Events
<1>2. ASSUME NEW moved \in SUBSET Paths, Restructure(moved)
     PROVE  ValueTypes'
  BY <1>2, ConstantsAssumption
     DEF Restructure, Notify, Contents, Versions, Events
<1>3. CASE LeaseExpires
  BY <1>3
     DEF LeaseExpires
<1>4. CASE Start
  BY <1>4
     DEF Start
<1>5. CASE Stamp
  BY <1>5
     DEF Stamp
<1>6. CASE Drain
  BY <1>6, AbsorbIsChanged
     DEF Drain, AbsorbQueue, MayGiveUp
<1>7. CASE Publish
  BY <1>7, PublishedLedger
     DEF Publish
<1>8. CASE ReleaseUnleased
  BY <1>8
     DEF ReleaseUnleased, ForgetTree
<1>9. CASE SkipRequest
  BY <1>9
     DEF SkipRequest
<1>10. CASE WatchRequest
  BY <1>10
     DEF WatchRequest
<1>11. CASE RefuseWatch
  BY <1>11
     DEF RefuseWatch
<1>12. CASE StartBuild
  BY <1>12
     DEF StartBuild, BeginBuild, Builds, Builders
<1>13. CASE SpawnNothing
  BY <1>13
     DEF SpawnNothing, BeginBuild
<1>14. CASE SkipBuild
  BY <1>14
     DEF SkipBuild
<1>15. CASE Poll
  BY <1>15
     DEF Poll
<1>16. CASE Reap
  BY <1>16
     DEF Reap, Builders
<1>17. CASE Commit
  BY <1>17
     DEF Commit
<1>18. CASE Wait
  BY <1>18, AbsorbIsChanged
     DEF Wait, AbsorbQueue, MayGiveUp
<1>60. CASE ServeAnotherTree
  BY <1>60, AbsorbIsChanged
     DEF ServeAnotherTree, AbsorbQueue, MayGiveUp
<1>19. CASE Evict
  BY <1>19
     DEF Evict, ForgetTree
<1>20. CASE Leave
  BY <1>20
     DEF Leave
<1>21. CASE Exit
  BY <1>21
     DEF Exit, ProcessEnds, ForgetTree
<1>22. CASE ChooseVictim
  BY <1>22
     DEF ChooseVictim
<1>23. CASE Crash
  BY <1>23
     DEF Crash, ProcessEnds, ForgetTree, Builders
<1>24. ASSUME NEW b \in Builders, NEW p \in Paths, ReadPath(b, p)
     PROVE  ValueTypes'
  <2>1. build[b] \in Builds /\ disk[p] \in Versions
    BY DEF Contents
  <2>2. [build[b] EXCEPT !.unread = build[b].unread \ {p}, !.got[p] = disk[p]] \in Builds
    BY <2>1, ReadingAPath
  <2>3. build' = [build EXCEPT ![b] =
                    [build[b] EXCEPT !.unread = build[b].unread \ {p}, !.got[p] = disk[p]]]
    BY <1>24 DEF ReadPath
  <2>4. build' \in [Builders -> Builds]
    BY <2>2, <2>3
  <2> QED BY <1>24, <2>4 DEF ReadPath
<1>25. ASSUME NEW b \in Builders, SwapIn(b)
     PROVE  ValueTypes'
  BY <1>25
     DEF SwapIn, Builds
<1>26. ASSUME NEW b \in Builders, BuildExits(b)
     PROVE  ValueTypes'
  BY <1>26
     DEF BuildExits, Builds
<1>27. ASSUME NEW q \in Queries, Plan(q)
     PROVE  ValueTypes'
  BY <1>27
     DEF Plan, Goto, FreshnessProof, DaemonWatches, NeedsRefresh
<1>28. ASSUME NEW q \in Queries, TakeFloor(q)
     PROVE  ValueTypes'
  BY <1>28
     DEF TakeFloor, Goto, Ledgers
<1>29. ASSUME NEW q \in Queries, Register(q)
     PROVE  ValueTypes'
  BY <1>29
     DEF Register, Goto, WriteWake, CleanMarkers
<1>30. ASSUME NEW q \in Queries, Ask(q)
     PROVE  ValueTypes'
  BY <1>30
     DEF Ask, Goto, Unvouched
<1>31. ASSUME NEW q \in Queries, KeepAlive(q)
     PROVE  ValueTypes'
  BY <1>31
     DEF KeepAlive, Goto
<1>32. ASSUME NEW q \in Queries, ReadLedger(q)
     PROVE  ValueTypes'
  BY <1>32
     DEF ReadLedger, Goto, Unvouched, Answers, Ledgers, Changed, Unbounded
<1>33. ASSUME NEW q \in Queries, PollExpires(q)
     PROVE  ValueTypes'
  BY <1>33
     DEF PollExpires, Goto, Unvouched
<1>34. ASSUME NEW q \in Queries, WaitReady(q)
     PROVE  ValueTypes'
  BY <1>34
     DEF WaitReady, Goto
<1>35. ASSUME NEW q \in Queries, WaitReregisters(q)
     PROVE  ValueTypes'
  BY <1>35
     DEF WaitReregisters, Goto, WriteWake, CleanMarkers
<1>36. ASSUME NEW q \in Queries, WaitExpires(q)
     PROVE  ValueTypes'
  BY <1>36
     DEF WaitExpires, Goto
<1>37. ASSUME NEW q \in Queries, AnswerFromIndex(q)
     PROVE  ValueTypes'
  BY <1>37
     DEF AnswerFromIndex, Goto, Contents
<1>38. ASSUME NEW q \in Queries, IndexStopsAnswering(q)
     PROVE  ValueTypes'
  BY <1>38
     DEF IndexStopsAnswering, Goto
<1>39. ASSUME NEW q \in Queries, Scan(q)
     PROVE  ValueTypes'
  BY <1>39
     DEF Scan, Goto
<1>40. ASSUME NEW q \in Queries, Finish(q)
     PROVE  ValueTypes'
  BY <1>40
     DEF Finish, Goto
<1>41. CASE UNCHANGED vars
  BY <1>41
     DEF vars
<1> QED
  BY <1>1, <1>2, <1>3, <1>4, <1>5, <1>6, <1>7, <1>8, <1>9, <1>10, <1>11,
     <1>12, <1>13, <1>14, <1>15, <1>16, <1>17, <1>18, <1>60, <1>19, <1>20,
     <1>21, <1>22, <1>23, <1>24, <1>25, <1>26, <1>27, <1>28, <1>29, <1>30,
     <1>31, <1>32, <1>33, <1>34, <1>35, <1>36, <1>37, <1>38, <1>39, <1>40,
     <1>41
     DEF Next, Corpus, DaemonStep, BuildStep, QueryStep

\* Every step of daemon, child, corpus and query keeps the types.
LEMMA TypeNext == TypeOK /\ [Next]_vars => TypeOK'
BY FlagsNext, ValuesNext DEF TypeOK

\* Every variable keeps its type, and no change set grows past the ceiling
\* without becoming unbounded (Changed::add).
THEOREM TypeCorrect == Spec => []TypeOK
<1>1. Init => TypeOK
  BY TypeInit
<1>2. TypeOK /\ [Next]_vars => TypeOK'
  BY TypeNext
<1> QED BY <1>1, <1>2, PTL DEF Spec

-----------------------------------------------------------------------------
(***************************************************************************)
(* The inductive invariant, part by part.                                  *)
(***************************************************************************)

\* Only the daemon's child builds, when a killed daemon takes it along.
LEMMA OnlyTheChildBuilds ==
    ASSUME ControlInvariant, NEW b \in Builders, build[b].phase # "none"
    PROVE  b = "child"
BY DEF ControlInvariant, Builders, NoBuild

\* A live child is one of the builds of TypeOK.
LEMMA ChildIsTyped ==
    ASSUME ValueTypes
    PROVE  /\ DOMAIN build = Builders
           /\ build["child"] = [phase  |-> build["child"].phase,
                                unread |-> build["child"].unread,
                                got    |-> build["child"].got]
           /\ build["child"].unread \subseteq Paths
           /\ build["child"].got \in Contents
           /\ DOMAIN build["child"].got = Paths
<1>1. build["child"] \in Builds
  BY DEF ValueTypes, Builders
<1> QED BY <1>1 DEF ValueTypes, Builds, Contents

\* What a step of a rebuild does to the daemon's child.
LEMMA ReadPathEffect ==
    ASSUME ValueTypes, ControlInvariant, NEW b \in Builders, NEW p \in Paths,
           ReadPath(b, p)
    PROVE  /\ build["child"].phase = "reading"
           /\ build'["child"].phase = "reading"
           /\ build'["child"].unread = build["child"].unread \ {p}
           /\ build'["child"].got[p] = disk[p]
           /\ \A r \in Paths \ {p} :
                 build'["child"].got[r] = build["child"].got[r]
           /\ build'["orphan"] = build["orphan"]
<1>1. b = "child" /\ build["child"].phase = "reading"
  BY OnlyTheChildBuilds DEF ReadPath
<1>2. build' = [build EXCEPT !["child"].unread = @ \ {p},
                             !["child"].got[p] = disk[p]]
  BY <1>1 DEF ReadPath
<1>3. build'["child"] = [build["child"] EXCEPT !.unread = @ \ {p},
                                               !.got[p] = disk[p]]
  BY <1>2, ChildIsTyped DEF Builders
<1>4. build'["child"] =
        [phase  |-> build["child"].phase,
         unread |-> build["child"].unread \ {p},
         got    |-> [build["child"].got EXCEPT ![p] = disk[p]]]
  BY <1>3, ChildIsTyped
<1>5. build'["orphan"] = build["orphan"]
  BY <1>2, ChildIsTyped DEF Builders
<1> QED BY <1>1, <1>4, <1>5, ChildIsTyped

\* What swap_in changes: the generation becomes what the build read.
LEMMA SwapInEffect ==
    ASSUME ValueTypes, ControlInvariant, NEW b \in Builders, SwapIn(b)
    PROVE  /\ build["child"].phase = "reading" /\ build["child"].unread = {}
           /\ index' = build["child"].got
           /\ build'["child"].phase = "published"
           /\ build'["orphan"] = build["orphan"]
<1>1. b = "child" /\ build["child"].phase = "reading"
  BY OnlyTheChildBuilds DEF SwapIn
<1> QED BY <1>1, ChildIsTyped DEF SwapIn, NoBuild, Builders

\* What the exit of a rebuild changes.
LEMMA BuildExitsEffect ==
    ASSUME ValueTypes, ControlInvariant, NEW b \in Builders, BuildExits(b)
    PROVE  /\ build["child"].phase \in {"reading", "published"}
           /\ build'["child"].phase \in {"succeeded", "failed"}
           /\ build'["child"].phase = "succeeded" =>
                 build["child"].phase = "published"
           /\ build'["orphan"] = build["orphan"]
<1>1. b = "child" /\ build["child"].phase \in {"reading", "published"}
  BY OnlyTheChildBuilds DEF BuildExits, Running
<1> QED BY <1>1, ChildIsTyped DEF BuildExits, NoBuild, Builders

\* Every step keeps the daemon's place in step with its child.
LEMMA ControlNext ==
    ASSUME TypeOK, ~OrphansSurvive, ControlInvariant, [Next]_vars
    PROVE  ControlInvariant'
<1> USE DEF watchVars, fileVars, indexVars, dirtVars, queryVars, daemonVars,
            TypeOK
<1>1. ASSUME
           LeaseExpires
     PROVE UNCHANGED <<dpc, outcome, build, watching>>
  BY <1>1 DEF LeaseExpires
<1>2. ASSUME NEW p \in Paths,
           Write(p)
     PROVE UNCHANGED <<dpc, outcome, build, watching>>
  BY <1>2 DEF Write, Notify
<1>3. ASSUME NEW moved \in SUBSET Paths,
           Restructure(moved)
     PROVE UNCHANGED <<dpc, outcome, build, watching>>
  BY <1>3 DEF Restructure, Notify
<1>4. ASSUME NEW q \in Queries,
           Plan(q) \/ TakeFloor(q) \/ Register(q) \/ Ask(q) \/
           KeepAlive(q) \/ ReadLedger(q) \/ PollExpires(q) \/
           WaitReady(q) \/ WaitReregisters(q) \/ WaitExpires(q) \/
           AnswerFromIndex(q) \/ IndexStopsAnswering(q) \/ Scan(q) \/
           Finish(q)
     PROVE UNCHANGED <<dpc, outcome, build, watching>>
  BY <1>4 DEF Plan, Goto, TakeFloor, Register, WriteWake, Ask, Unvouched,
              KeepAlive, ReadLedger, PollExpires, WaitReady, WaitReregisters,
              WaitExpires, AnswerFromIndex, IndexStopsAnswering, Scan, Finish
<1>5. ASSUME UNCHANGED <<dpc, outcome, build, watching>>
      PROVE ControlInvariant'
  BY <1>5 DEF ControlInvariant
<1>6. CASE Start
  BY <1>6
     DEF Start, ControlInvariant
<1>7. CASE Stamp
  BY <1>7
     DEF Stamp, ControlInvariant
<1>8. CASE Drain
  BY <1>8
     DEF Drain, AbsorbQueue, MayGiveUp, ControlInvariant
<1>9. CASE Publish
  BY <1>9
     DEF Publish, ControlInvariant
<1>10. CASE ReleaseUnleased
  BY <1>10
     DEF ReleaseUnleased, ForgetTree, ControlInvariant
<1>11. CASE SkipRequest
  BY <1>11
     DEF SkipRequest, ControlInvariant
<1>12. CASE WatchRequest
  BY <1>12
     DEF WatchRequest, ControlInvariant
<1>13. CASE RefuseWatch
  BY <1>13
     DEF RefuseWatch, ControlInvariant
<1>14. CASE StartBuild
  BY <1>14
     DEF StartBuild, BeginBuild, ControlInvariant, ValueTypes, Builders,
         Builds
<1>15. CASE SpawnNothing
  BY <1>15
     DEF SpawnNothing, BeginBuild, ControlInvariant
<1>16. CASE SkipBuild
  BY <1>16
     DEF SkipBuild, ControlInvariant
<1>17. CASE Poll
  BY <1>17
     DEF Poll, ControlInvariant
<1>18. CASE Reap
  BY <1>18
     DEF Reap, ControlInvariant, ValueTypes, Builders, NoBuild
<1>19. CASE Commit
  BY <1>19
     DEF Commit, ControlInvariant
<1>20. CASE Wait
  BY <1>20
     DEF Wait, AbsorbQueue, MayGiveUp, ControlInvariant
<1>60. CASE ServeAnotherTree
  BY <1>60
     DEF ServeAnotherTree, AbsorbQueue, MayGiveUp, ControlInvariant
<1>21. CASE Evict
  BY <1>21
     DEF Evict, ForgetTree, ControlInvariant
<1>22. CASE Leave
  BY <1>22
     DEF Leave, ControlInvariant
<1>23. CASE Exit
  BY <1>23
     DEF Exit, ProcessEnds, ForgetTree, ControlInvariant
<1>24. CASE ChooseVictim
  BY <1>24
     DEF ChooseVictim, ControlInvariant
<1>25. CASE Crash
  BY <1>25
     DEF Crash, ProcessEnds, ForgetTree, ControlInvariant, ValueTypes,
         Builders, NoBuild
<1>26. ASSUME NEW b \in Builders, NEW p \in Paths, ReadPath(b, p)
     PROVE  ControlInvariant'
  BY <1>26, ReadPathEffect
     DEF ReadPath, ControlInvariant
<1>27. ASSUME NEW b \in Builders, SwapIn(b)
     PROVE  ControlInvariant'
  BY <1>27, SwapInEffect
     DEF SwapIn, ControlInvariant
<1>28. ASSUME NEW b \in Builders, BuildExits(b)
     PROVE  ControlInvariant'
  BY <1>28, BuildExitsEffect
     DEF BuildExits, ControlInvariant
<1>29. CASE UNCHANGED vars
  BY <1>29, <1>5 DEF vars
<1> QED
  BY <1>1, <1>2, <1>3, <1>4, <1>5, <1>6, <1>7, <1>8, <1>9, <1>10, <1>11,
     <1>12, <1>13, <1>14, <1>15, <1>16, <1>17, <1>18, <1>19, <1>20, <1>60,
     <1>21, <1>22, <1>23, <1>24, <1>25, <1>26, <1>27, <1>28, <1>29
     DEF Next, Corpus, DaemonStep, BuildStep, QueryStep

\* Versions on disk, in a generation and in a walk can be compared.
LEMMA VersionsAreNumbers ==
    ASSUME NEW contents \in Contents, NEW p \in Paths
    PROVE  contents[p] \in Nat
BY ConstantsAssumption DEF Contents, Versions

\* A path never goes back to an older version.
LEMMA DiskGrows ==
    ASSUME TypeOK, NEW r \in Paths, [Next]_vars
    PROVE  disk[r] <= disk'[r]
<1> USE DEF watchVars, fileVars, indexVars, dirtVars, queryVars, daemonVars
<1>1. disk \in Contents
  BY DEF TypeOK, ValueTypes
<1>2. disk[r] \in Nat
  BY <1>1, VersionsAreNumbers
<1>3. DOMAIN disk = Paths
  BY <1>1 DEF Contents
<1>4. ASSUME 
           LeaseExpires \/ Start \/ Stamp \/ Drain \/ Publish \/
           ReleaseUnleased \/ SkipRequest \/ WatchRequest \/ RefuseWatch \/
           StartBuild \/ SpawnNothing \/ SkipBuild \/ Poll \/ Reap \/
           Commit \/ Wait \/ ServeAnotherTree \/ Evict \/ Leave \/ Exit \/
           ChooseVictim \/ Crash
     PROVE  disk' = disk
  BY <1>4
     DEF LeaseExpires, Start, Stamp, Drain, AbsorbQueue, MayGiveUp, Publish,
         ReleaseUnleased, ForgetTree, SkipRequest, WatchRequest, RefuseWatch,
         StartBuild, BeginBuild, SpawnNothing, SkipBuild, Poll, Reap, Commit,
         Wait, ServeAnotherTree, Evict, Leave, Exit, ProcessEnds,
         ChooseVictim, Crash
<1>5. ASSUME NEW b \in Builders,
           SwapIn(b) \/ BuildExits(b)
     PROVE  disk' = disk
  BY <1>5
     DEF SwapIn, BuildExits
<1>6. ASSUME NEW b \in Builders, NEW p \in Paths,
           ReadPath(b, p)
     PROVE  disk' = disk
  BY <1>6
     DEF ReadPath
<1>7. ASSUME NEW q \in Queries,
           Plan(q) \/ TakeFloor(q) \/ Register(q) \/ Ask(q) \/
           KeepAlive(q) \/ ReadLedger(q) \/ PollExpires(q) \/
           WaitReady(q) \/ WaitReregisters(q) \/ WaitExpires(q) \/
           AnswerFromIndex(q) \/ IndexStopsAnswering(q) \/ Scan(q) \/
           Finish(q)
     PROVE  disk' = disk
  BY <1>7
     DEF Plan, Goto, TakeFloor, Register, WriteWake, Ask, Unvouched,
         KeepAlive, ReadLedger, PollExpires, WaitReady, WaitReregisters,
         WaitExpires, AnswerFromIndex, IndexStopsAnswering, Scan, Finish
<1>8. ASSUME disk' = disk
     PROVE  disk[r] <= disk'[r]
  BY <1>8, <1>2
<1>9. ASSUME NEW p \in Paths, Write(p)
     PROVE  disk[r] <= disk'[r]
  BY <1>9, <1>2, <1>3
     DEF Write, Notify
<1>10. ASSUME NEW moved \in SUBSET Paths, Restructure(moved)
     PROVE  disk[r] <= disk'[r]
  BY <1>10, <1>2
     DEF Restructure, Notify
<1>11. CASE UNCHANGED vars
  BY <1>11, <1>8 DEF vars
<1> QED
  BY <1>1, <1>2, <1>3, <1>4, <1>5, <1>6, <1>7, <1>8, <1>9, <1>10, <1>11
     DEF Next, Corpus, DaemonStep, BuildStep, QueryStep

\* A published generation is as new as the one it replaces.
LEMMA BuildsGrow ==
    ASSUME TypeOK, ~OrphansSurvive, ControlInvariant, VersionInvariant,
           NEW r \in Paths, [Next]_vars
    PROVE  index[r] <= index'[r]
<1> USE DEF watchVars, fileVars, indexVars, dirtVars, queryVars, daemonVars,
            TypeOK
<1>1. index[r] \in Nat
  BY VersionsAreNumbers DEF ValueTypes
<1>2. ASSUME 
           LeaseExpires \/ Start \/ Stamp \/ Drain \/ Publish \/
           ReleaseUnleased \/ SkipRequest \/ WatchRequest \/ RefuseWatch \/
           StartBuild \/ SpawnNothing \/ SkipBuild \/ Poll \/ Reap \/
           Commit \/ Wait \/ ServeAnotherTree \/ Evict \/ Leave \/ Exit \/
           ChooseVictim \/ Crash
     PROVE  index' = index
  BY <1>2
     DEF LeaseExpires, Start, Stamp, Drain, AbsorbQueue, MayGiveUp, Publish,
         ReleaseUnleased, ForgetTree, SkipRequest, WatchRequest, RefuseWatch,
         StartBuild, BeginBuild, SpawnNothing, SkipBuild, Poll, Reap, Commit,
         Wait, ServeAnotherTree, Evict, Leave, Exit, ProcessEnds,
         ChooseVictim, Crash
<1>3. ASSUME NEW b \in Builders,
           BuildExits(b)
     PROVE  index' = index
  BY <1>3
     DEF BuildExits
<1>4. ASSUME NEW b \in Builders, NEW p \in Paths,
           ReadPath(b, p)
     PROVE  index' = index
  BY <1>4
     DEF ReadPath
<1>5. ASSUME NEW p \in Paths,
           Write(p)
     PROVE  index' = index
  BY <1>5
     DEF Write, Notify
<1>6. ASSUME NEW moved \in SUBSET Paths,
           Restructure(moved)
     PROVE  index' = index
  BY <1>6
     DEF Restructure, Notify
<1>7. ASSUME NEW q \in Queries,
           Plan(q) \/ TakeFloor(q) \/ Register(q) \/ Ask(q) \/
           KeepAlive(q) \/ ReadLedger(q) \/ PollExpires(q) \/
           WaitReady(q) \/ WaitReregisters(q) \/ WaitExpires(q) \/
           AnswerFromIndex(q) \/ IndexStopsAnswering(q) \/ Scan(q) \/
           Finish(q)
     PROVE  index' = index
  BY <1>7
     DEF Plan, Goto, TakeFloor, Register, WriteWake, Ask, Unvouched,
         KeepAlive, ReadLedger, PollExpires, WaitReady, WaitReregisters,
         WaitExpires, AnswerFromIndex, IndexStopsAnswering, Scan, Finish
<1>8. ASSUME index' = index
     PROVE  index[r] <= index'[r]
  BY <1>8, <1>1
<1>9. ASSUME NEW b \in Builders, SwapIn(b)
     PROVE  index[r] <= index'[r]
  BY <1>9, SwapInEffect
     DEF SwapIn, VersionInvariant
<1>10. CASE UNCHANGED vars
  BY <1>10, <1>8 DEF vars
<1> QED
  BY <1>1, <1>2, <1>3, <1>4, <1>5, <1>6, <1>7, <1>8, <1>9, <1>10
     DEF Next, Corpus, DaemonStep, BuildStep, QueryStep

\* Every step leaves corpus, generation and walk at versions that only grow.
LEMMA VersionNext ==
    ASSUME TypeOK, TypeOK', ~OrphansSurvive, ControlInvariant,
           VersionInvariant, [Next]_vars
    PROVE  VersionInvariant'
<1> USE DEF watchVars, fileVars, indexVars, dirtVars, queryVars, daemonVars
<1>1. \A p \in Paths : disk[p] <= disk'[p]
  BY DiskGrows
<1>2. /\ disk \in Contents /\ disk' \in Contents /\ index \in Contents
      /\ \A q \in Queries : floor[q] \in Contents
      /\ build["child"].got \in Contents
  BY ChildIsTyped DEF TypeOK, ValueTypes
<1>3. \A p \in Paths :
         /\ disk[p] \in Nat /\ disk'[p] \in Nat /\ index[p] \in Nat
         /\ build["child"].got[p] \in Nat
         /\ \A q \in Queries : floor[q][p] \in Nat
  BY <1>2, VersionsAreNumbers
<1>4. ASSUME 
           LeaseExpires \/ Start \/ Stamp \/ Drain \/ Publish \/
           ReleaseUnleased \/ SkipRequest \/ WatchRequest \/ RefuseWatch \/
           SpawnNothing \/ SkipBuild \/ Poll \/ Commit \/ Wait \/
           ServeAnotherTree \/ Evict \/ Leave \/ Exit \/ ChooseVictim
     PROVE  UNCHANGED <<disk, index, floor, build>>
  BY <1>4
     DEF LeaseExpires, Start, Stamp, Drain, AbsorbQueue, MayGiveUp, Publish,
         ReleaseUnleased, ForgetTree, SkipRequest, WatchRequest, RefuseWatch,
         SpawnNothing, BeginBuild, SkipBuild, Poll, Commit, Wait,
         ServeAnotherTree, Evict, Leave, Exit, ProcessEnds, ChooseVictim
<1>5. ASSUME NEW q \in Queries,
           Plan(q) \/ Register(q) \/ Ask(q) \/ KeepAlive(q) \/
           ReadLedger(q) \/ PollExpires(q) \/ WaitReady(q) \/
           WaitReregisters(q) \/ WaitExpires(q) \/ AnswerFromIndex(q) \/
           IndexStopsAnswering(q) \/ Scan(q)
     PROVE  UNCHANGED <<disk, index, floor, build>>
  BY <1>5
     DEF Plan, Goto, Register, WriteWake, Ask, Unvouched, KeepAlive,
         ReadLedger, PollExpires, WaitReady, WaitReregisters, WaitExpires,
         AnswerFromIndex, IndexStopsAnswering, Scan
<1>6. ASSUME UNCHANGED <<disk, index, floor, build>>
     PROVE  VersionInvariant'
  BY <1>6 DEF VersionInvariant
<1>7. ASSUME NEW p \in Paths, Write(p)
     PROVE  VersionInvariant'
  BY <1>7, <1>1, <1>3
     DEF Write, Notify, VersionInvariant
<1>8. ASSUME NEW moved \in SUBSET Paths, Restructure(moved)
     PROVE  VersionInvariant'
  BY <1>8, <1>1, <1>3
     DEF Restructure, Notify, VersionInvariant
<1>9. CASE StartBuild
  BY <1>9, ChildIsTyped
     DEF StartBuild, BeginBuild, VersionInvariant, TypeOK, Builders
<1>10. CASE Reap
  BY <1>10, ChildIsTyped
     DEF Reap, VersionInvariant, TypeOK, NoBuild, Builders
<1>11. CASE Crash
  BY <1>11, ChildIsTyped
     DEF Crash, ProcessEnds, ForgetTree, VersionInvariant, TypeOK, NoBuild,
         Builders
<1>12. ASSUME NEW b \in Builders, NEW p \in Paths, ReadPath(b, p)
     PROVE  VersionInvariant'
  <2>1. UNCHANGED <<disk, index, floor>>
    BY <1>12 DEF ReadPath
  <2>2. ASSUME NEW r \in Paths \ build'["child"].unread
        PROVE  index[r] <= build'["child"].got[r] /\ build'["child"].got[r] <= disk[r]
    <3>1. CASE r = p
      BY <2>2, <3>1, <1>12, <1>3, ReadPathEffect DEF TypeOK, VersionInvariant
    <3>2. CASE r # p
      BY <2>2, <3>2, <1>12, ReadPathEffect DEF TypeOK, VersionInvariant
    <3> QED BY <3>1, <3>2
  <2> QED BY <2>1, <2>2 DEF VersionInvariant
<1>13. ASSUME NEW b \in Builders, SwapIn(b)
     PROVE  VersionInvariant'
  <2>1. UNCHANGED <<disk, floor>>
    BY <1>13 DEF SwapIn
  <2>2. /\ build["child"].phase = "reading" /\ build["child"].unread = {}
        /\ index' = build["child"].got /\ build'["child"].phase = "published"
    BY <1>13, SwapInEffect DEF TypeOK
  <2> QED BY <2>1, <2>2 DEF VersionInvariant
<1>14. ASSUME NEW b \in Builders, BuildExits(b)
     PROVE  VersionInvariant'
  <2>1. UNCHANGED <<disk, index, floor>>
    BY <1>14 DEF BuildExits
  <2>2. build'["child"].phase # "reading"
    BY <1>14, BuildExitsEffect DEF TypeOK
  <2> QED BY <2>1, <2>2 DEF VersionInvariant
<1>15. ASSUME NEW q \in Queries, TakeFloor(q)
     PROVE  VersionInvariant'
  <2>1. UNCHANGED <<disk, index, build>>
    BY <1>15 DEF TakeFloor
  <2>2. ASSUME NEW r \in Queries PROVE floor'[r] = floor[r] \/ floor'[r] = disk
    BY <1>15 DEF TakeFloor, TypeOK, ValueTypes
  <2> QED BY <2>1, <2>2, <1>3 DEF VersionInvariant
<1>16. ASSUME NEW q \in Queries, Finish(q)
     PROVE  VersionInvariant'
  <2>1. UNCHANGED <<disk, index, build>>
    BY <1>16 DEF Finish
  <2>2. ASSUME NEW r \in Queries
        PROVE floor'[r] = floor[r] \/ floor'[r] = NoVersion
    BY <1>16 DEF Finish, TypeOK, ValueTypes
  <2>3. \A p \in Paths : NoVersion[p] <= disk[p]
    BY <1>3 DEF NoVersion
  <2> QED BY <2>1, <2>2, <2>3 DEF VersionInvariant
<1>17. CASE UNCHANGED vars
  BY <1>17, <1>6 DEF vars
<1> QED
  BY <1>1, <1>2, <1>3, <1>4, <1>5, <1>6, <1>7, <1>8, <1>9, <1>10, <1>11,
     <1>12, <1>13, <1>14, <1>15, <1>16, <1>17
     DEF Next, Corpus, DaemonStep, BuildStep, QueryStep

\* Nothing drained is forgotten (Changed::absorb).
LEMMA QueueIsAbsorbed ==
    ASSUME AbsorbQueue
    PROVE  /\ \A p : Accounted(sincePublish, p) => Names(sincePublish', p)
           /\ \A p : Accounted(sinceWalk, p) => Names(sinceWalk', p)
           /\ queue' = {}
<1>1. CASE queue = {}
  BY <1>1 DEF AbsorbQueue, Accounted, Names
<1>2. CASE queue # {}
  BY <1>2, AbsorbNames DEF AbsorbQueue, Accounted
<1> QED BY <1>1, <1>2 DEF AbsorbQueue

\* An unbounded change set names every path.
LEMMA WideNamesAll ==
    ASSUME NEW changes, NEW p, Wide \in changes
    PROVE  Names(changes, p) /\ Accounted(changes, p)
BY DEF Names, Accounted

\* A change set that absorbs an unbounded one is unbounded.
LEMMA WideIsAbsorbed ==
    ASSUME AbsorbQueue
    PROVE  /\ Wide \in sincePublish \cup queue => Wide \in sincePublish'
           /\ Wide \in sinceWalk \cup queue => Wide \in sinceWalk'
BY DEF AbsorbQueue, Absorb, Unbounded

\* No build is under way and the change set is unbounded, as it is for a tree
\* that is not watched.
LEMMA DirtUnbounded ==
    ASSUME (Wide \in sincePublish)', (build["child"].phase = "none")', ~Swapped'
    PROVE  DirtInvariant'
BY WideNamesAll DEF DirtInvariant, Accounted, Names

\* Nothing the invariant is about changes.
LEMMA DirtKept ==
    ASSUME DirtInvariant, Swapped' => Swapped,
           UNCHANGED <<disk, queue, index, watching, sincePublish, sinceWalk,
                       build>>
    PROVE  DirtInvariant'
<1>1. (~watching => Wide \in sincePublish)'
  BY DEF DirtInvariant
<1>2. (\A p \in Paths : index[p] < disk[p] => Accounted(sincePublish, p))'
  BY DEF DirtInvariant, Accounted, Names
<1>3. (~watching /\ (build["child"].phase # "none" \/ Swapped) =>
          Wide \in sinceWalk)'
  BY DEF DirtInvariant
<1>4. (build["child"].phase = "reading" =>
          \A p \in Paths \ build["child"].unread :
              build["child"].got[p] < disk[p] => Accounted(sinceWalk, p))'
  BY DEF DirtInvariant, Accounted, Names
<1>5. (Swapped => \A p \in Paths :
                    index[p] < disk[p] => Accounted(sinceWalk, p))'
  BY DEF DirtInvariant, Accounted, Names
<1> QED BY <1>1, <1>2, <1>3, <1>4, <1>5 DEF DirtInvariant

\* A change on disk is queued when the tree is watched.
LEMMA DirtQueued ==
    ASSUME DirtInvariant,
           UNCHANGED <<index, watching, sincePublish, sinceWalk, build, dpc,
                       outcome>>,
           queue \subseteq queue',
           \A p \in Paths : \/ disk'[p] = disk[p]
                            \/ ~watching
                            \/ Names(queue, p)'
    PROVE  DirtInvariant'
<1>1. UNCHANGED Swapped
  BY DEF Swapped
<1>2. \A p : /\ Accounted(sincePublish, p) => Accounted(sincePublish, p)'
             /\ Accounted(sinceWalk, p) => Accounted(sinceWalk, p)'
  BY DEF Accounted, Names
<1>3. \A p : Names(queue, p)' =>
             Accounted(sincePublish, p)' /\ Accounted(sinceWalk, p)'
  BY DEF Accounted
<1>4. ~watching => \A p : Accounted(sincePublish, p)'
  BY DEF DirtInvariant, Accounted, Names
<1>5. ~watching /\ (build["child"].phase # "none" \/ Swapped) =>
         \A p : Accounted(sinceWalk, p)'
  BY DEF DirtInvariant, Accounted, Names
<1>6. (\A p \in Paths : index[p] < disk[p] => Accounted(sincePublish, p))'
  BY <1>2, <1>3, <1>4 DEF DirtInvariant
<1>7. (build["child"].phase = "reading" =>
          \A p \in Paths \ build["child"].unread :
              build["child"].got[p] < disk[p] => Accounted(sinceWalk, p))'
  BY <1>2, <1>3, <1>5 DEF DirtInvariant
<1>8. (Swapped => \A p \in Paths :
                    index[p] < disk[p] => Accounted(sinceWalk, p))'
  BY <1>1, <1>2, <1>3, <1>5 DEF DirtInvariant
<1> QED BY <1>1, <1>6, <1>7, <1>8 DEF DirtInvariant

\* A drain moves what is queued into the change sets.
LEMMA DirtDrained ==
    ASSUME DirtInvariant, AbsorbQueue, MayGiveUp, Swapped' => Swapped,
           UNCHANGED <<disk, index, build>>
    PROVE  DirtInvariant'
<1>1. /\ ~watching' => Wide \in sincePublish'
      /\ ~watching' /\ (build["child"].phase # "none" \/ Swapped) =>
            Wide \in sinceWalk'
  BY WideIsAbsorbed DEF DirtInvariant, MayGiveUp
<1>2. \A p : /\ Accounted(sincePublish, p) => Accounted(sincePublish, p)'
             /\ Accounted(sinceWalk, p) => Accounted(sinceWalk, p)'
  BY QueueIsAbsorbed DEF Accounted
<1> QED BY <1>1, <1>2 DEF DirtInvariant

\* Every step keeps the misses of generation and walk in a change set or
\* in the queue (TreeDirt, Watcher).
LEMMA DirtNext ==
    ASSUME TypeOK, TypeOK', ~OrphansSurvive, ~WatchesRunOut, ControlInvariant,
           VersionInvariant, DirtInvariant, [Next]_vars
    PROVE  DirtInvariant'
<1> USE DEF watchVars, fileVars, indexVars, dirtVars, queryVars, daemonVars
<1>1. ASSUME 
           LeaseExpires \/ Start \/ Stamp \/ Publish \/ SkipRequest \/
           SkipBuild \/ Poll \/ Leave \/ ChooseVictim
     PROVE  DirtInvariant'
  <2>1. UNCHANGED <<disk, queue, index, watching, sincePublish, sinceWalk,
                    build>>
    BY <1>1 DEF LeaseExpires, Start, Stamp, Publish, SkipRequest, SkipBuild,
                Poll, Leave, ChooseVictim
  <2>2. Swapped' => Swapped
    BY <1>1 DEF LeaseExpires, Start, Stamp, Publish, SkipRequest, SkipBuild,
                Poll, Leave, ChooseVictim, Swapped, ControlInvariant
  <2> QED BY <2>1, <2>2, DirtKept
<1>2. ASSUME NEW q \in Queries,
           Plan(q) \/ TakeFloor(q) \/ Register(q) \/ Ask(q) \/
           KeepAlive(q) \/ ReadLedger(q) \/ PollExpires(q) \/
           WaitReady(q) \/ WaitReregisters(q) \/ WaitExpires(q) \/
           AnswerFromIndex(q) \/ IndexStopsAnswering(q) \/ Scan(q) \/
           Finish(q)
     PROVE  DirtInvariant'
  <2>1. UNCHANGED <<disk, queue, index, watching, sincePublish, sinceWalk,
                    build>>
    BY <1>2 DEF Plan, Goto, TakeFloor, Register, WriteWake, Ask, Unvouched,
                KeepAlive, ReadLedger, PollExpires, WaitReady,
                WaitReregisters, WaitExpires, AnswerFromIndex,
                IndexStopsAnswering, Scan, Finish
  <2>2. Swapped' => Swapped
    BY <1>2 DEF Plan, Goto, TakeFloor, Register, WriteWake, Ask, Unvouched,
                KeepAlive, ReadLedger, PollExpires, WaitReady,
                WaitReregisters, WaitExpires, AnswerFromIndex,
                IndexStopsAnswering, Scan, Finish, Swapped, ControlInvariant
  <2> QED BY <2>1, <2>2, DirtKept
<1>3. ASSUME NEW p \in Paths, Write(p)
     PROVE  DirtInvariant'
  <2>1. UNCHANGED <<index, watching, sincePublish, sinceWalk, build, dpc,
                    outcome>>
    BY <1>3 DEF Write
  <2>2. queue \subseteq queue'
    BY <1>3 DEF Write, Notify
  <2>3. watching => Names(queue, p)'
    BY <1>3 DEF Write, Notify, Names
  <2>4. \A r \in Paths \ {p} : disk'[r] = disk[r]
    BY <1>3 DEF Write, TypeOK, ValueTypes, Contents
  <2> QED BY <2>1, <2>2, <2>3, <2>4, DirtQueued
<1>4. ASSUME NEW moved \in SUBSET Paths, Restructure(moved)
     PROVE  DirtInvariant'
  <2>1. UNCHANGED <<index, watching, sincePublish, sinceWalk, build, dpc,
                    outcome>>
    BY <1>4 DEF Restructure
  <2>2. queue \subseteq queue'
    BY <1>4 DEF Restructure, Notify
  <2>3. watching => \A r \in Paths : Names(queue, r)'
    BY <1>4 DEF Restructure, Notify, Names
  <2> QED BY <2>1, <2>2, <2>3, DirtQueued
<1>5. CASE Drain
  <2>1. Swapped' => Swapped
    BY <1>5 DEF Drain, Swapped
  <2>2. (AbsorbQueue /\ MayGiveUp) /\ UNCHANGED <<disk, index, build>>
    BY <1>5 DEF Drain
  <2> QED BY <2>1, <2>2, DirtDrained
<1>6. CASE ReleaseUnleased
  <2>1. build'["child"].phase = "none" /\ outcome' = "none"
    BY <1>6 DEF ReleaseUnleased, ControlInvariant
  <2>2. CASE ForgetTree
    BY <2>1, <2>2, DirtUnbounded DEF ForgetTree, Unbounded, Swapped
  <2>3. CASE UNCHANGED <<watchVars, sincePublish, sinceWalk>>
    <3>1. UNCHANGED <<disk, index, build>>
      BY <1>6 DEF ReleaseUnleased
    <3> QED BY <2>1, <2>3, <3>1 DEF DirtInvariant, Accounted, Swapped
  <2> QED BY <2>2, <2>3, <1>6 DEF ReleaseUnleased
<1>7. CASE WatchRequest
  <2>1. ~Swapped' /\ build'["child"].phase = "none"
    BY <1>7 DEF WatchRequest, ControlInvariant, Swapped
  <2>2. watching' /\ UNCHANGED <<disk, queue, index, sincePublish>>
    BY <1>7 DEF WatchRequest
  <2> QED BY <2>1, <2>2 DEF DirtInvariant, Accounted
<1>8. CASE RefuseWatch
  <2>1. build'["child"].phase = "none" /\ outcome' = "none"
    BY <1>8 DEF RefuseWatch, ControlInvariant
  <2>2. Wide \in sincePublish'
    BY <1>8 DEF RefuseWatch, DirtInvariant
  <2> QED BY <2>1, <2>2, DirtUnbounded DEF Swapped
<1>9. CASE StartBuild
  <2>1. watching' /\ UNCHANGED <<disk, queue, index, sincePublish>>
    BY <1>9 DEF StartBuild, BeginBuild, ControlInvariant
  <2>2. outcome = "none" /\ build["child"].phase = "none"
    BY <1>9 DEF StartBuild, BeginBuild, ControlInvariant
  <2>3. build'["child"].phase = "reading" /\ build'["child"].unread = Paths
    BY <1>9, <2>2, ChildIsTyped DEF StartBuild, BeginBuild, TypeOK, Builders
  <2>4. ~Swapped'
    BY <1>9, <2>2, <2>3 DEF StartBuild, BeginBuild, Swapped
  <2> QED BY <2>1, <2>3, <2>4 DEF DirtInvariant, Accounted
<1>10. CASE SpawnNothing
  <2>1. watching' /\ UNCHANGED <<disk, queue, index, sincePublish, build>>
    BY <1>10 DEF SpawnNothing, BeginBuild, ControlInvariant
  <2>2. build'["child"].phase = "none" /\ outcome' # "built"
    BY <1>10 DEF SpawnNothing, BeginBuild, ControlInvariant
  <2>3. ~Swapped'
    BY <2>2 DEF Swapped
  <2> QED BY <2>1, <2>2, <2>3 DEF DirtInvariant, Accounted
<1>11. CASE Reap
  <2>1. UNCHANGED <<disk, queue, index, watching, sincePublish, sinceWalk>>
    BY <1>11 DEF Reap
  <2>2. build["child"].phase # "none" /\ build'["child"].phase = "none"
    BY <1>11, ChildIsTyped DEF Reap, TypeOK, NoBuild, Builders
  <2>3. Swapped' => Swapped
    BY <1>11, <2>2 DEF Reap, Swapped
  <2> QED BY <2>1, <2>2, <2>3 DEF DirtInvariant, Accounted
<1>12. CASE Commit
  <2>1. UNCHANGED <<disk, queue, index, watching, build>>
    BY <1>12 DEF Commit
  <2>2. build["child"].phase = "none" /\ ~Swapped'
    BY <1>12 DEF Commit, ControlInvariant, Swapped
  <2>3. CASE outcome = "built"
    <3>1. Swapped
      BY <1>12, <2>3 DEF Commit, Swapped
    <3>2. sincePublish' = sinceWalk
      BY <1>12, <2>3 DEF Commit
    <3> QED BY <2>1, <2>2, <3>1, <3>2 DEF DirtInvariant, Accounted
  <2>4. CASE UNCHANGED sincePublish
    BY <2>1, <2>2, <2>4 DEF DirtInvariant, Accounted
  <2> QED BY <2>3, <2>4, <1>12 DEF Commit
<1>13. CASE Wait
  <2>1. Swapped' => Swapped
    BY <1>13 DEF Wait, Swapped, ControlInvariant
  <2>2. UNCHANGED <<disk, index, build>>
    BY <1>13 DEF Wait
  <2>3. CASE AbsorbQueue /\ MayGiveUp
    BY <2>1, <2>2, <2>3, DirtDrained
  <2>4. CASE UNCHANGED <<queue, watching, sincePublish, sinceWalk>>
    BY <2>1, <2>2, <2>4 DEF DirtInvariant, Accounted
  <2> QED BY <2>3, <2>4, <1>13 DEF Wait
<1>60. CASE ServeAnotherTree
  <2>1. Swapped' => Swapped
    BY <1>60 DEF ServeAnotherTree, Swapped, ControlInvariant
  <2>2. UNCHANGED <<disk, index, build>>
    BY <1>60 DEF ServeAnotherTree
  <2>3. CASE AbsorbQueue /\ MayGiveUp
    BY <2>1, <2>2, <2>3, DirtDrained
  <2>4. CASE UNCHANGED <<queue, watching, sincePublish, sinceWalk>>
    BY <2>1, <2>2, <2>4 DEF DirtInvariant, Accounted
  <2> QED BY <2>3, <2>4, <1>60 DEF ServeAnotherTree
<1>14. CASE Evict
  <2>1. Wide \in sincePublish'
    BY <1>14 DEF Evict, ForgetTree, Unbounded
  <2>2. build'["child"].phase = "none" /\ outcome' = "none"
    BY <1>14, ChildIsTyped
       DEF Evict, ControlInvariant, TypeOK, NoBuild, Builders
  <2> QED BY <2>1, <2>2, DirtUnbounded DEF Swapped
<1>15. CASE Exit
  <2>1. Wide \in sincePublish'
    BY <1>15 DEF Exit, ProcessEnds, ForgetTree, Unbounded
  <2>2. build'["child"].phase = "none" /\ outcome' = "none"
    BY <1>15, ChildIsTyped
       DEF Exit, ProcessEnds, ControlInvariant, TypeOK, NoBuild, Builders
  <2> QED BY <2>1, <2>2, DirtUnbounded DEF Swapped
<1>16. CASE Crash
  <2>1. Wide \in sincePublish'
    BY <1>16 DEF Crash, ProcessEnds, ForgetTree, Unbounded
  <2>2. build'["child"].phase = "none" /\ outcome' = "none"
    BY <1>16, ChildIsTyped
       DEF Crash, ProcessEnds, ControlInvariant, TypeOK, NoBuild, Builders
  <2> QED BY <2>1, <2>2, DirtUnbounded DEF Swapped
<1>17. ASSUME NEW b \in Builders, NEW p \in Paths, ReadPath(b, p)
     PROVE  DirtInvariant'
  <2>1. UNCHANGED <<disk, queue, index, watching, sincePublish, sinceWalk, dpc,
                    outcome>>
    BY <1>17 DEF ReadPath
  <2> DEFINE child == build["child"]
  <2>2. /\ child.phase = "reading" /\ child'.phase = "reading"
        /\ child'.unread = child.unread \ {p} /\ child'.got[p] = disk[p]
        /\ \A r \in Paths \ {p} : child'.got[r] = child.got[r]
    BY <1>17, ReadPathEffect DEF TypeOK
  <2>3. disk[p] \in Nat
    BY VersionsAreNumbers DEF TypeOK, ValueTypes
  <2>4. UNCHANGED Swapped
    BY <2>1, <2>2 DEF Swapped
  <2>5. ASSUME NEW r \in Paths \ child'.unread, child'.got[r] < disk[r]
        PROVE  Accounted(sinceWalk, r)
    BY <2>2, <2>3, <2>5 DEF DirtInvariant
  <2> QED BY <2>1, <2>2, <2>4, <2>5 DEF DirtInvariant, Accounted
<1>18. ASSUME NEW b \in Builders, SwapIn(b)
     PROVE  DirtInvariant'
  <2>1. UNCHANGED <<disk, queue, watching, sincePublish, sinceWalk, dpc,
                    outcome>>
    BY <1>18 DEF SwapIn
  <2>2. /\ build["child"].phase = "reading" /\ build["child"].unread = {}
        /\ index' = build["child"].got /\ build'["child"].phase = "published"
    BY <1>18, SwapInEffect DEF TypeOK
  <2>3. ASSUME NEW r \in Paths, index'[r] < disk[r]
        PROVE  Accounted(sinceWalk, r) /\ Accounted(sincePublish, r)
    <3>1. /\ index[r] <= index'[r] /\ index[r] \in Nat /\ index'[r] \in Nat
          /\ disk[r] \in Nat
      BY <1>18, BuildsGrow, VersionsAreNumbers
         DEF TypeOK, ValueTypes, Next, BuildStep
    <3> QED BY <2>2, <2>3, <3>1 DEF DirtInvariant
  <2> QED BY <2>1, <2>2, <2>3 DEF DirtInvariant, Accounted
<1>19. ASSUME NEW b \in Builders, BuildExits(b)
     PROVE  DirtInvariant'
  <2>1. UNCHANGED <<disk, queue, index, watching, sincePublish, sinceWalk, dpc,
                    outcome>>
    BY <1>19 DEF BuildExits
  <2>2. /\ build["child"].phase # "none" /\ build'["child"].phase # "reading"
        /\ build'["child"].phase \in {"published", "succeeded"} =>
              build["child"].phase = "published"
    BY <1>19, BuildExitsEffect DEF TypeOK
  <2>3. Swapped' => Swapped
    BY <2>1, <2>2 DEF Swapped
  <2> QED BY <2>1, <2>2, <2>3 DEF DirtInvariant, Accounted
<1>20. CASE UNCHANGED vars
  <2>1. UNCHANGED <<disk, queue, index, watching, sincePublish, sinceWalk,
                    build>>
    BY <1>20 DEF vars
  <2>2. Swapped' => Swapped
    BY <1>20 DEF vars, Swapped
  <2> QED BY <2>1, <2>2, DirtKept
<1> QED
  BY <1>1, <1>2, <1>3, <1>4, <1>5, <1>6, <1>7, <1>8, <1>9, <1>10, <1>11,
     <1>12, <1>13, <1>60, <1>14, <1>15, <1>16, <1>17, <1>18, <1>19, <1>20
     DEF Next, Corpus, DaemonStep, BuildStep, QueryStep

\* Steps that touch neither change sets nor drains keep what was drained.
LEMMA DrainKept ==
    ASSUME DrainInvariant,
           UNCHANGED <<index, floor, sincePublish, drainedAt>>,
           dpc' # "drain" => dpc # "drain",
           dpc' = "commit" => UNCHANGED <<dpc, outcome, sinceWalk>>
    PROVE  DrainInvariant'
<1>1. (dpc # "drain" =>
          \A q \in drainedAt, p \in Paths :
              index[p] < floor[q][p] => Names(sincePublish, p))'
  BY DEF DrainInvariant, Names
<1>2. (dpc = "commit" /\ outcome = "built" =>
          \A q \in drainedAt, p \in Paths :
              index[p] < floor[q][p] => Names(sinceWalk, p))'
  BY DEF DrainInvariant, Names
<1> QED BY <1>1, <1>2 DEF DrainInvariant

\* An unbounded change set covers every floor there is.
LEMMA DrainForgotten ==
    ASSUME (Wide \in sincePublish)', dpc' # "commit"
    PROVE  DrainInvariant'
BY DEF DrainInvariant, Names

\* Every step keeps the floors of a drain covered by the change set.
LEMMA DrainNext ==
    ASSUME TypeOK, TypeOK', ~OrphansSurvive, ControlInvariant,
           VersionInvariant, DirtInvariant, DrainInvariant, [Next]_vars
    PROVE  DrainInvariant'
<1> USE DEF watchVars, fileVars, indexVars, dirtVars, queryVars, daemonVars
<1>1. ASSUME 
           LeaseExpires \/ Start \/ Publish \/ SkipRequest \/
           WatchRequest \/ RefuseWatch \/ StartBuild \/ SpawnNothing \/
           SkipBuild \/ Poll \/ Reap \/ Leave \/ ChooseVictim
     PROVE  DrainInvariant'
  <2>1. UNCHANGED <<index, floor, sincePublish, drainedAt>>
    BY <1>1 DEF LeaseExpires, Start, Publish, SkipRequest, WatchRequest,
                RefuseWatch, StartBuild, BeginBuild, SpawnNothing, SkipBuild,
                Poll, Reap, Leave, ChooseVictim
  <2>2. dpc' # "drain" => dpc # "drain"
    BY <1>1 DEF LeaseExpires, Start, Publish, SkipRequest, WatchRequest,
                RefuseWatch, StartBuild, BeginBuild, SpawnNothing, SkipBuild,
                Poll, Reap, Leave, ChooseVictim
  <2>3. dpc' = "commit" => UNCHANGED <<dpc, outcome, sinceWalk>>
    BY <1>1 DEF LeaseExpires, Start, Publish, SkipRequest, WatchRequest,
                RefuseWatch, StartBuild, BeginBuild, SpawnNothing, SkipBuild,
                Poll, Reap, Leave, ChooseVictim
  <2> QED BY <2>1, <2>2, <2>3, DrainKept
<1>2. ASSUME NEW b \in Builders,
           BuildExits(b)
     PROVE  DrainInvariant'
  <2>1. UNCHANGED <<index, floor, sincePublish, drainedAt>>
    BY <1>2 DEF BuildExits
  <2>2. dpc' # "drain" => dpc # "drain"
    BY <1>2 DEF BuildExits
  <2>3. dpc' = "commit" => UNCHANGED <<dpc, outcome, sinceWalk>>
    BY <1>2 DEF BuildExits
  <2> QED BY <2>1, <2>2, <2>3, DrainKept
<1>3. ASSUME NEW b \in Builders, NEW p \in Paths,
           ReadPath(b, p)
     PROVE  DrainInvariant'
  <2>1. UNCHANGED <<index, floor, sincePublish, drainedAt>>
    BY <1>3 DEF ReadPath
  <2>2. dpc' # "drain" => dpc # "drain"
    BY <1>3 DEF ReadPath
  <2>3. dpc' = "commit" => UNCHANGED <<dpc, outcome, sinceWalk>>
    BY <1>3 DEF ReadPath
  <2> QED BY <2>1, <2>2, <2>3, DrainKept
<1>4. ASSUME NEW p \in Paths,
           Write(p)
     PROVE  DrainInvariant'
  <2>1. UNCHANGED <<index, floor, sincePublish, drainedAt>>
    BY <1>4 DEF Write, Notify
  <2>2. dpc' # "drain" => dpc # "drain"
    BY <1>4 DEF Write, Notify
  <2>3. dpc' = "commit" => UNCHANGED <<dpc, outcome, sinceWalk>>
    BY <1>4 DEF Write, Notify
  <2> QED BY <2>1, <2>2, <2>3, DrainKept
<1>5. ASSUME NEW moved \in SUBSET Paths,
           Restructure(moved)
     PROVE  DrainInvariant'
  <2>1. UNCHANGED <<index, floor, sincePublish, drainedAt>>
    BY <1>5 DEF Restructure, Notify
  <2>2. dpc' # "drain" => dpc # "drain"
    BY <1>5 DEF Restructure, Notify
  <2>3. dpc' = "commit" => UNCHANGED <<dpc, outcome, sinceWalk>>
    BY <1>5 DEF Restructure, Notify
  <2> QED BY <2>1, <2>2, <2>3, DrainKept
<1>6. ASSUME NEW q \in Queries,
           Plan(q) \/ Register(q) \/ Ask(q) \/ KeepAlive(q) \/
           ReadLedger(q) \/ PollExpires(q) \/ WaitReady(q) \/
           WaitReregisters(q) \/ WaitExpires(q) \/ AnswerFromIndex(q) \/
           IndexStopsAnswering(q) \/ Scan(q)
     PROVE  DrainInvariant'
  <2>1. UNCHANGED <<index, floor, sincePublish, drainedAt>>
    BY <1>6 DEF Plan, Goto, Register, WriteWake, Ask, Unvouched, KeepAlive,
                ReadLedger, PollExpires, WaitReady, WaitReregisters,
                WaitExpires, AnswerFromIndex, IndexStopsAnswering, Scan
  <2>2. dpc' # "drain" => dpc # "drain"
    BY <1>6 DEF Plan, Goto, Register, WriteWake, Ask, Unvouched, KeepAlive,
                ReadLedger, PollExpires, WaitReady, WaitReregisters,
                WaitExpires, AnswerFromIndex, IndexStopsAnswering, Scan
  <2>3. dpc' = "commit" => UNCHANGED <<dpc, outcome, sinceWalk>>
    BY <1>6 DEF Plan, Goto, Register, WriteWake, Ask, Unvouched, KeepAlive,
                ReadLedger, PollExpires, WaitReady, WaitReregisters,
                WaitExpires, AnswerFromIndex, IndexStopsAnswering, Scan
  <2> QED BY <2>1, <2>2, <2>3, DrainKept
<1>7. CASE Stamp
  BY <1>7 DEF Stamp, DrainInvariant
<1>8. CASE Drain
  <2>1. UNCHANGED <<disk, index, floor, drainedAt, outcome>>
    BY <1>8 DEF Drain
  <2>2. ASSUME NEW q \in drainedAt, NEW p \in Paths, index[p] < floor[q][p]
        PROVE  index[p] < disk[p]
    <3>1. q \in Queries
      BY DEF TypeOK, ValueTypes
    <3>2. index[p] \in Nat /\ floor[q][p] \in Nat /\ disk[p] \in Nat
      BY <3>1, VersionsAreNumbers DEF TypeOK, ValueTypes
    <3> QED BY <2>2, <3>1, <3>2 DEF VersionInvariant
  <2>3. \A p \in Paths : index[p] < disk[p] => Names(sincePublish', p)
    BY <1>8, QueueIsAbsorbed DEF Drain, DirtInvariant
  <2>4. dpc' = "commit" /\ outcome = "built" => Swapped
    BY <1>8 DEF Drain, Swapped
  <2>5. Swapped => \A p \in Paths : index[p] < disk[p] => Names(sinceWalk', p)
    BY <1>8, QueueIsAbsorbed DEF Drain, DirtInvariant
  <2> QED BY <2>1, <2>2, <2>3, <2>4, <2>5 DEF DrainInvariant, Names
<1>9. CASE ReleaseUnleased
  <2>1. dpc = "release" /\ dpc' = "request"
    BY <1>9 DEF ReleaseUnleased
  <2>2. CASE ForgetTree
    BY <2>1, <2>2, DrainForgotten DEF ForgetTree, Unbounded
  <2>3. CASE UNCHANGED <<watchVars, sincePublish, sinceWalk>>
    <3>1. UNCHANGED <<index, floor, sincePublish, drainedAt>>
      BY <1>9, <2>3 DEF ReleaseUnleased
    <3> QED BY <2>1, <3>1, DrainKept
  <2> QED BY <2>2, <2>3, <1>9 DEF ReleaseUnleased
<1>10. CASE Commit
  <2>1. dpc = "commit" /\ dpc' = "publish" /\ UNCHANGED <<index, floor, drainedAt>>
    BY <1>10 DEF Commit
  <2>2. CASE outcome = "built"
    BY <2>1, <2>2, <1>10 DEF Commit, DrainInvariant, Names
  <2>3. CASE UNCHANGED sincePublish
    BY <2>1, <2>3, DrainKept
  <2> QED BY <2>2, <2>3, <1>10 DEF Commit
<1>11. CASE Wait
  <2>1. dpc = "wait" /\ dpc' = "stamp" /\ UNCHANGED <<index, floor, drainedAt>>
    BY <1>11 DEF Wait
  <2>2. CASE AbsorbQueue
    BY <2>1, <2>2, QueueIsAbsorbed DEF DrainInvariant, Accounted, Names
  <2>3. CASE UNCHANGED sincePublish
    BY <2>1, <2>3, DrainKept
  <2> QED BY <2>2, <2>3, <1>11 DEF Wait
<1>60. CASE ServeAnotherTree
  <2>1. dpc = "request" /\ dpc' = "request" /\ UNCHANGED <<index, floor, drainedAt>>
    BY <1>60 DEF ServeAnotherTree
  <2>2. CASE AbsorbQueue
    BY <2>1, <2>2, QueueIsAbsorbed DEF DrainInvariant, Accounted, Names
  <2>3. CASE UNCHANGED sincePublish
    BY <2>1, <2>3, DrainKept
  <2> QED BY <2>2, <2>3, <1>60 DEF ServeAnotherTree
<1>12. CASE Evict
  BY <1>12, DrainForgotten DEF Evict, ForgetTree, Unbounded
<1>13. CASE Exit
  BY <1>13, DrainForgotten DEF Exit, ProcessEnds, ForgetTree, Unbounded
<1>14. CASE Crash
  BY <1>14, DrainForgotten DEF Crash, ProcessEnds, ForgetTree, Unbounded
<1>15. ASSUME NEW b \in Builders, SwapIn(b)
     PROVE  DrainInvariant'
  <2>1. UNCHANGED <<floor, sincePublish, sinceWalk, drainedAt, dpc, outcome>>
    BY <1>15 DEF SwapIn
  <2>2. ASSUME NEW q \in drainedAt, NEW p \in Paths, index'[p] < floor[q][p]
        PROVE  index[p] < floor[q][p]
    <3>1. q \in Queries
      BY DEF TypeOK, ValueTypes
    <3>2. index[p] \in Nat /\ index'[p] \in Nat /\ floor[q][p] \in Nat
      BY <3>1, VersionsAreNumbers DEF TypeOK, ValueTypes
    <3>3. index[p] <= index'[p]
      BY BuildsGrow
    <3> QED BY <2>2, <3>2, <3>3
  <2> QED BY <2>1, <2>2 DEF DrainInvariant, Names
<1>16. ASSUME NEW q \in Queries, TakeFloor(q)
     PROVE  DrainInvariant'
  <2>1. /\ UNCHANGED <<index, sincePublish, sinceWalk, dpc, outcome>>
        /\ drainedAt' = drainedAt \ {q}
    BY <1>16 DEF TakeFloor
  <2>2. \A r \in Queries \ {q} : floor'[r] = floor[r]
    BY <1>16 DEF TakeFloor, TypeOK, ValueTypes
  <2>3. drainedAt \subseteq Queries
    BY DEF TypeOK, ValueTypes
  <2> QED BY <2>1, <2>2, <2>3 DEF DrainInvariant, Names
<1>17. ASSUME NEW q \in Queries, Finish(q)
     PROVE  DrainInvariant'
  <2>1. UNCHANGED <<index, sincePublish, sinceWalk, drainedAt, dpc, outcome>>
    BY <1>17 DEF Finish
  <2>2. ASSUME NEW r \in drainedAt, NEW p \in Paths, index[p] < floor'[r][p]
        PROVE  index[p] < floor[r][p]
    <3>1. r \in Queries
      BY DEF TypeOK, ValueTypes
    <3>2. floor' = [floor EXCEPT ![q] = NoVersion]
      BY <1>17 DEF Finish
    <3>3. CASE r = q
      <4>1. floor'[r][p] = 0
        BY <3>1, <3>2, <3>3 DEF TypeOK, ValueTypes, NoVersion
      <4>2. index[p] \in Nat
        BY VersionsAreNumbers DEF TypeOK, ValueTypes
      <4> QED BY <2>2, <4>1, <4>2
    <3>4. CASE r # q
      BY <2>2, <3>1, <3>2, <3>4 DEF TypeOK, ValueTypes
    <3> QED BY <3>3, <3>4
  <2> QED BY <2>1, <2>2 DEF DrainInvariant, Names
<1>18. CASE UNCHANGED vars
  <2>1. UNCHANGED <<index, floor, sincePublish, drainedAt>>
    BY <1>18 DEF vars
  <2>2. dpc' # "drain" => dpc # "drain"
    BY <1>18 DEF vars
  <2>3. dpc' = "commit" => UNCHANGED <<dpc, outcome, sinceWalk>>
    BY <1>18 DEF vars
  <2> QED BY <2>1, <2>2, <2>3, DrainKept
<1> QED
  BY <1>1, <1>2, <1>3, <1>4, <1>5, <1>6, <1>7, <1>8, <1>9, <1>10, <1>11, <1>60,
     <1>12, <1>13, <1>14, <1>15, <1>16, <1>17, <1>18
     DEF Next, Corpus, DaemonStep, BuildStep, QueryStep

\* Steps that touch neither ledger, generation nor floors keep it true.
LEMMA LedgerKept ==
    ASSUME LedgerAccountsForFloors, UNCHANGED <<ledger, index, floor>>
    PROVE  LedgerAccountsForFloors'
BY DEF LedgerAccountsForFloors

\* Every step keeps the ledger true to the generation beside it.
LEMMA LedgerNext ==
    ASSUME TypeOK, TypeOK', ~OrphansSurvive, ControlInvariant,
           VersionInvariant, DrainInvariant, LedgerAccountsForFloors,
           [Next]_vars
    PROVE  LedgerAccountsForFloors'
<1> USE DEF watchVars, fileVars, indexVars, dirtVars, queryVars, daemonVars
<1>1. ASSUME 
           LeaseExpires \/ Stamp \/ Drain \/ ReleaseUnleased \/
           SkipRequest \/ WatchRequest \/ RefuseWatch \/ StartBuild \/
           SpawnNothing \/ SkipBuild \/ Poll \/ Reap \/ Commit \/ Wait \/
           ServeAnotherTree \/ Evict \/ Leave \/ ChooseVictim \/ Crash
     PROVE  UNCHANGED <<ledger, index, floor>>
  BY <1>1
     DEF LeaseExpires, Stamp, Drain, AbsorbQueue, MayGiveUp, ReleaseUnleased,
         ForgetTree, SkipRequest, WatchRequest, RefuseWatch, StartBuild,
         BeginBuild, SpawnNothing, SkipBuild, Poll, Reap, Commit, Wait,
         ServeAnotherTree, Evict, Leave, ChooseVictim, Crash, ProcessEnds
<1>2. ASSUME NEW b \in Builders,
           BuildExits(b)
     PROVE  UNCHANGED <<ledger, index, floor>>
  BY <1>2
     DEF BuildExits
<1>3. ASSUME NEW b \in Builders, NEW p \in Paths,
           ReadPath(b, p)
     PROVE  UNCHANGED <<ledger, index, floor>>
  BY <1>3
     DEF ReadPath
<1>4. ASSUME NEW p \in Paths,
           Write(p)
     PROVE  UNCHANGED <<ledger, index, floor>>
  BY <1>4
     DEF Write, Notify
<1>5. ASSUME NEW moved \in SUBSET Paths,
           Restructure(moved)
     PROVE  UNCHANGED <<ledger, index, floor>>
  BY <1>5
     DEF Restructure, Notify
<1>6. ASSUME NEW q \in Queries,
           Plan(q) \/ Register(q) \/ Ask(q) \/ KeepAlive(q) \/
           ReadLedger(q) \/ PollExpires(q) \/ WaitReady(q) \/
           WaitReregisters(q) \/ WaitExpires(q) \/ AnswerFromIndex(q) \/
           IndexStopsAnswering(q) \/ Scan(q)
     PROVE  UNCHANGED <<ledger, index, floor>>
  BY <1>6
     DEF Plan, Goto, Register, WriteWake, Ask, Unvouched, KeepAlive,
         ReadLedger, PollExpires, WaitReady, WaitReregisters, WaitExpires,
         AnswerFromIndex, IndexStopsAnswering, Scan
<1>7. ASSUME UNCHANGED <<ledger, index, floor>>
     PROVE  LedgerAccountsForFloors'
  BY <1>7, LedgerKept
<1>8. CASE Start
  <2>1. ledger' = NoLedger \/ ledger' = ledger
    BY <1>8 DEF Start
  <2>2. UNCHANGED <<index, floor>>
    BY <1>8 DEF Start
  <2> QED BY <2>1, <2>2, LedgerKept DEF LedgerAccountsForFloors, NoLedger
<1>9. CASE Publish
  <2>1. dpc = "publish" /\ UNCHANGED <<index, floor>>
    BY <1>9 DEF Publish
  <2>2. CASE UNCHANGED ledger
    BY <2>1, <2>2, LedgerKept
  <2>3. CASE ledger' = [present |-> TRUE, paths |-> sincePublish,
                       drained |-> drainedAt]
    <3>1. ASSUME NEW q \in drainedAt, NEW p \in Paths \ sincePublish,
                 Wide \notin sincePublish
          PROVE  index[p] >= floor[q][p]
      <4>1. q \in Queries
        BY DEF TypeOK, ValueTypes
      <4>2. index[p] \in Nat /\ floor[q][p] \in Nat
        BY <4>1, VersionsAreNumbers DEF TypeOK, ValueTypes
      <4>3. ~(index[p] < floor[q][p])
        BY <2>1, <3>1 DEF DrainInvariant, Names
      <4> QED BY <4>2, <4>3
    <3> QED BY <2>1, <2>3, <3>1 DEF LedgerAccountsForFloors
  <2> QED BY <2>2, <2>3, <1>9 DEF Publish
<1>10. CASE Exit
  BY <1>10 DEF Exit, LedgerAccountsForFloors, NoLedger
<1>11. ASSUME NEW b \in Builders, SwapIn(b)
     PROVE  LedgerAccountsForFloors'
  <2>1. UNCHANGED <<floor, ledger>>
    BY <1>11 DEF SwapIn
  <2>2. ASSUME NEW q \in ledger.drained, NEW p \in Paths, index[p] >= floor[q][p]
        PROVE  index'[p] >= floor[q][p]
    <3>1. q \in Queries
      BY DEF TypeOK, ValueTypes, Ledgers
    <3>2. index[p] \in Nat /\ index'[p] \in Nat /\ floor[q][p] \in Nat
      BY <3>1, VersionsAreNumbers DEF TypeOK, ValueTypes
    <3>3. index[p] <= index'[p]
      BY BuildsGrow
    <3> QED BY <2>2, <3>2, <3>3
  <2> QED BY <2>1, <2>2 DEF LedgerAccountsForFloors
<1>12. ASSUME NEW q \in Queries, TakeFloor(q)
     PROVE  LedgerAccountsForFloors'
  <2>1. index' = index
    BY <1>12 DEF TakeFloor
  <2>2. /\ ledger'.present = ledger.present /\ ledger'.paths = ledger.paths
        /\ ledger'.drained = ledger.drained \ {q}
    BY <1>12 DEF TakeFloor, TypeOK, ValueTypes, Ledgers
  <2>3. \A r \in Queries \ {q} : floor'[r] = floor[r]
    BY <1>12 DEF TakeFloor, TypeOK, ValueTypes
  <2>4. ledger.drained \subseteq Queries
    BY DEF TypeOK, ValueTypes, Ledgers
  <2> QED BY <2>1, <2>2, <2>3, <2>4 DEF LedgerAccountsForFloors
<1>13. ASSUME NEW q \in Queries, Finish(q)
     PROVE  LedgerAccountsForFloors'
  <2>1. UNCHANGED <<index, ledger>>
    BY <1>13 DEF Finish
  <2>2. ASSUME NEW r \in ledger.drained, NEW p \in Paths, index[p] >= floor[r][p]
        PROVE  index[p] >= floor'[r][p]
    <3>1. r \in Queries
      BY DEF TypeOK, ValueTypes, Ledgers
    <3>2. floor' = [floor EXCEPT ![q] = NoVersion]
      BY <1>13 DEF Finish
    <3>3. CASE r = q
      <4>1. floor'[r][p] = 0
        BY <3>1, <3>2, <3>3 DEF TypeOK, ValueTypes, NoVersion
      <4>2. index[p] \in Nat
        BY VersionsAreNumbers DEF TypeOK, ValueTypes
      <4> QED BY <4>1, <4>2
    <3>4. CASE r # q
      BY <2>2, <3>1, <3>2, <3>4 DEF TypeOK, ValueTypes
    <3> QED BY <3>3, <3>4
  <2> QED BY <2>1, <2>2 DEF LedgerAccountsForFloors
<1>14. CASE UNCHANGED vars
  BY <1>14, <1>7 DEF vars
<1> QED
  BY <1>1, <1>2, <1>3, <1>4, <1>5, <1>6, <1>7, <1>8, <1>9, <1>10, <1>11,
     <1>12, <1>13, <1>14
     DEF Next, Corpus, DaemonStep, BuildStep, QueryStep

\* Steps that touch neither queries nor their views keep their answers.
LEMMA AnswerKept ==
    ASSUME AnswerInvariant, UNCHANGED <<index, floor, named, view>>,
           \A q \in Queries : qpc'[q] \in {"loading", "answered"} => qpc'[q] = qpc[q]
    PROVE  AnswerInvariant'
BY DEF AnswerInvariant

\* Every step keeps what loading and finished queries hold (settle).
LEMMA AnswerNext ==
    ASSUME TypeOK, TypeOK', ~OrphansSurvive, ControlInvariant,
           VersionInvariant, LedgerAccountsForFloors, AnswerInvariant,
           [Next]_vars
    PROVE  AnswerInvariant'
<1> USE DEF watchVars, fileVars, indexVars, dirtVars, queryVars, daemonVars
<1>1. ASSUME 
           LeaseExpires \/ Start \/ Stamp \/ Drain \/ Publish \/
           ReleaseUnleased \/ SkipRequest \/ WatchRequest \/ RefuseWatch \/
           StartBuild \/ SpawnNothing \/ SkipBuild \/ Poll \/ Reap \/
           Commit \/ Wait \/ ServeAnotherTree \/ Evict \/ Leave \/ Exit \/
           ChooseVictim \/ Crash
     PROVE  AnswerInvariant'
  <2>1. UNCHANGED <<index, floor, named, view>>
    BY <1>1 DEF LeaseExpires, Start, Stamp, Drain, AbsorbQueue, MayGiveUp,
                Publish, ReleaseUnleased, ForgetTree, SkipRequest,
                WatchRequest, RefuseWatch, StartBuild, BeginBuild,
                SpawnNothing, SkipBuild, Poll, Reap, Commit, Wait,
                ServeAnotherTree, Evict, Leave, Exit, ProcessEnds,
                ChooseVictim, Crash
  <2>2. \A r \in Queries :
           qpc'[r] \in {"loading", "answered"} => qpc'[r] = qpc[r]
    BY <1>1 DEF LeaseExpires, Start, Stamp, Drain, AbsorbQueue, MayGiveUp,
                Publish, ReleaseUnleased, ForgetTree, SkipRequest,
                WatchRequest, RefuseWatch, StartBuild, BeginBuild,
                SpawnNothing, SkipBuild, Poll, Reap, Commit, Wait,
                ServeAnotherTree, Evict, Leave, Exit, ProcessEnds,
                ChooseVictim, Crash, TypeOK, ValueTypes
  <2> QED BY <2>1, <2>2, AnswerKept
<1>2. ASSUME NEW b \in Builders,
           BuildExits(b)
     PROVE  AnswerInvariant'
  <2>1. UNCHANGED <<index, floor, named, view>>
    BY <1>2 DEF BuildExits
  <2>2. \A r \in Queries :
           qpc'[r] \in {"loading", "answered"} => qpc'[r] = qpc[r]
    BY <1>2 DEF BuildExits, TypeOK, ValueTypes
  <2> QED BY <2>1, <2>2, AnswerKept
<1>3. ASSUME NEW b \in Builders, NEW p \in Paths,
           ReadPath(b, p)
     PROVE  AnswerInvariant'
  <2>1. UNCHANGED <<index, floor, named, view>>
    BY <1>3 DEF ReadPath
  <2>2. \A r \in Queries :
           qpc'[r] \in {"loading", "answered"} => qpc'[r] = qpc[r]
    BY <1>3 DEF ReadPath, TypeOK, ValueTypes
  <2> QED BY <2>1, <2>2, AnswerKept
<1>4. ASSUME NEW p \in Paths,
           Write(p)
     PROVE  AnswerInvariant'
  <2>1. UNCHANGED <<index, floor, named, view>>
    BY <1>4 DEF Write, Notify
  <2>2. \A r \in Queries :
           qpc'[r] \in {"loading", "answered"} => qpc'[r] = qpc[r]
    BY <1>4 DEF Write, Notify, TypeOK, ValueTypes
  <2> QED BY <2>1, <2>2, AnswerKept
<1>5. ASSUME NEW moved \in SUBSET Paths,
           Restructure(moved)
     PROVE  AnswerInvariant'
  <2>1. UNCHANGED <<index, floor, named, view>>
    BY <1>5 DEF Restructure, Notify
  <2>2. \A r \in Queries :
           qpc'[r] \in {"loading", "answered"} => qpc'[r] = qpc[r]
    BY <1>5 DEF Restructure, Notify, TypeOK, ValueTypes
  <2> QED BY <2>1, <2>2, AnswerKept
<1>6. ASSUME NEW q \in Queries,
           Plan(q) \/ Register(q) \/ Ask(q) \/ KeepAlive(q) \/
           PollExpires(q) \/ WaitReady(q) \/ WaitReregisters(q) \/
           WaitExpires(q) \/ IndexStopsAnswering(q)
     PROVE  AnswerInvariant'
  <2>1. UNCHANGED <<index, floor, named, view>>
    BY <1>6 DEF Plan, Goto, Register, WriteWake, Ask, Unvouched, KeepAlive,
                PollExpires, WaitReady, WaitReregisters, WaitExpires,
                IndexStopsAnswering
  <2>2. \A r \in Queries :
           qpc'[r] \in {"loading", "answered"} => qpc'[r] = qpc[r]
    BY <1>6 DEF Plan, Goto, Register, WriteWake, Ask, Unvouched, KeepAlive,
                PollExpires, WaitReady, WaitReregisters, WaitExpires,
                IndexStopsAnswering, TypeOK, ValueTypes
  <2> QED BY <2>1, <2>2, AnswerKept
<1>7. ASSUME NEW b \in Builders, SwapIn(b)
     PROVE  AnswerInvariant'
  <2>1. UNCHANGED <<qpc, floor, named, view>>
    BY <1>7 DEF SwapIn
  <2>2. ASSUME NEW q \in Queries, NEW p \in Paths, floor[q][p] <= index[p]
        PROVE  floor[q][p] <= index'[p]
    <3>1. index[p] \in Nat /\ index'[p] \in Nat /\ floor[q][p] \in Nat
      BY VersionsAreNumbers DEF TypeOK, ValueTypes
    <3>2. index[p] <= index'[p]
      BY BuildsGrow
    <3> QED BY <2>2, <3>1, <3>2
  <2> QED BY <2>1, <2>2 DEF AnswerInvariant
<1>8. ASSUME NEW q \in Queries, TakeFloor(q)
     PROVE  AnswerInvariant'
  <2>1. \A r \in Queries \ {q} : /\ qpc'[r] = qpc[r] /\ floor'[r] = floor[r]
                                 /\ named'[r] = named[r] /\ view'[r] = view[r]
    BY <1>8 DEF TakeFloor, Goto, TypeOK, ValueTypes
  <2>2. index' = index
    BY <1>8 DEF TakeFloor
  <2>3. qpc'[q] \notin {"loading", "answered"}
    BY <1>8 DEF TakeFloor, Goto, TypeOK, ValueTypes
  <2> QED BY <2>1, <2>2, <2>3 DEF AnswerInvariant
<1>9. ASSUME NEW q \in Queries, ReadLedger(q)
     PROVE  AnswerInvariant'
  <2>1. \A r \in Queries \ {q} : /\ qpc'[r] = qpc[r] /\ floor'[r] = floor[r]
                                 /\ named'[r] = named[r] /\ view'[r] = view[r]
    BY <1>9 DEF ReadLedger, Unvouched, Goto, TypeOK, ValueTypes
  <2>2. index' = index
    BY <1>9 DEF ReadLedger
  <2>3. floor' = floor
    BY <1>9 DEF ReadLedger
  <2>4. qpc'[q] # "answered"
    BY <1>9 DEF ReadLedger, Unvouched, Goto, TypeOK, ValueTypes
  <2>5. qpc'[q] = "loading" => named'[q] = ledger.paths
    BY <1>9 DEF ReadLedger, Unvouched, Goto, TypeOK, ValueTypes
  <2>6. ASSUME NEW p \in Paths \ ledger.paths PROVE floor[q][p] <= index[p]
    <3>1. index[p] \in Nat /\ floor[q][p] \in Nat
      BY VersionsAreNumbers DEF TypeOK, ValueTypes
    <3>2. index[p] >= floor[q][p]
      BY <1>9 DEF ReadLedger, Answers, LedgerAccountsForFloors
    <3> QED BY <3>1, <3>2
  <2> QED BY <2>1, <2>2, <2>3, <2>4, <2>5, <2>6 DEF AnswerInvariant
<1>10. ASSUME NEW q \in Queries, AnswerFromIndex(q)
     PROVE  AnswerInvariant'
  <2>1. \A r \in Queries \ {q} : /\ qpc'[r] = qpc[r] /\ floor'[r] = floor[r]
                                 /\ named'[r] = named[r] /\ view'[r] = view[r]
    BY <1>10 DEF AnswerFromIndex, Goto, TypeOK, ValueTypes
  <2>2. index' = index
    BY <1>10 DEF AnswerFromIndex
  <2>3. qpc[q] = "loading" /\ qpc'[q] = "answered" /\ floor' = floor
    BY <1>10 DEF AnswerFromIndex, Goto, TypeOK, ValueTypes
  <2>4. \A p \in Paths :
           view'[q][p] = IF p \in named[q] THEN disk[p] ELSE index[p]
    BY <1>10 DEF AnswerFromIndex, TypeOK, ValueTypes
  <2>5. \A p \in Paths : floor[q][p] <= view'[q][p]
    BY <2>3, <2>4 DEF AnswerInvariant, VersionInvariant
  <2> QED BY <2>1, <2>2, <2>3, <2>5 DEF AnswerInvariant
<1>11. ASSUME NEW q \in Queries, Scan(q)
     PROVE  AnswerInvariant'
  <2>1. \A r \in Queries \ {q} : /\ qpc'[r] = qpc[r] /\ floor'[r] = floor[r]
                                 /\ named'[r] = named[r] /\ view'[r] = view[r]
    BY <1>11 DEF Scan, Goto, TypeOK, ValueTypes
  <2>2. index' = index
    BY <1>11 DEF Scan
  <2>3. qpc'[q] = "answered" /\ floor' = floor /\ view'[q] = disk
    BY <1>11 DEF Scan, Goto, TypeOK, ValueTypes
  <2> QED BY <2>1, <2>2, <2>3 DEF AnswerInvariant, VersionInvariant
<1>12. ASSUME NEW q \in Queries, Finish(q)
     PROVE  AnswerInvariant'
  <2>1. \A r \in Queries \ {q} : /\ qpc'[r] = qpc[r] /\ floor'[r] = floor[r]
                                 /\ named'[r] = named[r] /\ view'[r] = view[r]
    BY <1>12 DEF Finish, Goto, TypeOK, ValueTypes
  <2>2. index' = index
    BY <1>12 DEF Finish
  <2>3. qpc'[q] \notin {"loading", "answered"}
    BY <1>12 DEF Finish, Goto, TypeOK, ValueTypes
  <2> QED BY <2>1, <2>2, <2>3 DEF AnswerInvariant
<1>13. CASE UNCHANGED vars
  <2>1. UNCHANGED <<index, floor, named, view>>
    BY <1>13 DEF vars
  <2>2. \A r \in Queries :
           qpc'[r] \in {"loading", "answered"} => qpc'[r] = qpc[r]
    BY <1>13 DEF vars, TypeOK, ValueTypes
  <2> QED BY <2>1, <2>2, AnswerKept
<1> QED
  BY <1>1, <1>2, <1>3, <1>4, <1>5, <1>6, <1>7, <1>8, <1>9, <1>10, <1>11,
     <1>12, <1>13
     DEF Next, Corpus, DaemonStep, BuildStep, QueryStep

\* Nothing marks the generation clean meanwhile.
LEMMA CleanKept ==
    ASSUME CleanInvariant, UNCHANGED <<sincePublish, outcome>>,
           journalClean'.present => journalClean.present,
           build'["child"].phase # "none" => build["child"].phase # "none",
           outcome # "none" /\ dpc' # "publish" => dpc # "publish"
    PROVE  CleanInvariant'
BY DEF CleanInvariant

\* Nothing is claimed of a journal-clean that is withdrawn.
LEMMA CleanWithdrawn ==
    ASSUME ~journalClean'.present
    PROVE  CleanInvariant'
BY DEF CleanInvariant

\* Every step keeps what a standing journal-clean implies (publish_dirt).
LEMMA CleanNext ==
    ASSUME TypeOK, ~OrphansSurvive, ControlInvariant, CleanInvariant,
           [Next]_vars
    PROVE  CleanInvariant'
<1> USE DEF watchVars, fileVars, indexVars, dirtVars, queryVars, daemonVars
<1>1. ASSUME 
           LeaseExpires \/ Stamp \/ SkipRequest \/ WatchRequest \/
           RefuseWatch \/ SkipBuild \/ Poll \/ Leave \/ ChooseVictim
     PROVE  CleanInvariant'
  <2>1. UNCHANGED <<sincePublish, outcome, build>>
    BY <1>1 DEF LeaseExpires, Stamp, SkipRequest, WatchRequest, RefuseWatch,
                SkipBuild, Poll, Leave, ChooseVictim
  <2>2. journalClean'.present => journalClean.present
    BY <1>1 DEF LeaseExpires, Stamp, SkipRequest, WatchRequest, RefuseWatch,
                SkipBuild, Poll, Leave, ChooseVictim, TypeOK, ValueTypes,
                CleanMarkers
  <2>3. outcome # "none" /\ dpc' # "publish" => dpc # "publish"
    BY <1>1 DEF LeaseExpires, Stamp, SkipRequest, WatchRequest, RefuseWatch,
                SkipBuild, Poll, Leave, ChooseVictim, ControlInvariant
  <2> QED BY <2>1, <2>2, <2>3, CleanKept
<1>2. ASSUME NEW p \in Paths,
           Write(p)
     PROVE  CleanInvariant'
  <2>1. UNCHANGED <<sincePublish, outcome, build>>
    BY <1>2 DEF Write, Notify
  <2>2. journalClean'.present => journalClean.present
    BY <1>2 DEF Write, Notify, TypeOK, ValueTypes, CleanMarkers
  <2>3. outcome # "none" /\ dpc' # "publish" => dpc # "publish"
    BY <1>2 DEF Write, Notify, ControlInvariant
  <2> QED BY <2>1, <2>2, <2>3, CleanKept
<1>3. ASSUME NEW moved \in SUBSET Paths,
           Restructure(moved)
     PROVE  CleanInvariant'
  <2>1. UNCHANGED <<sincePublish, outcome, build>>
    BY <1>3 DEF Restructure, Notify
  <2>2. journalClean'.present => journalClean.present
    BY <1>3 DEF Restructure, Notify, TypeOK, ValueTypes, CleanMarkers
  <2>3. outcome # "none" /\ dpc' # "publish" => dpc # "publish"
    BY <1>3 DEF Restructure, Notify, ControlInvariant
  <2> QED BY <2>1, <2>2, <2>3, CleanKept
<1>4. ASSUME NEW q \in Queries,
           Plan(q) \/ TakeFloor(q) \/ Register(q) \/ Ask(q) \/
           KeepAlive(q) \/ ReadLedger(q) \/ PollExpires(q) \/
           WaitReady(q) \/ WaitReregisters(q) \/ WaitExpires(q) \/
           AnswerFromIndex(q) \/ IndexStopsAnswering(q) \/ Scan(q) \/
           Finish(q)
     PROVE  CleanInvariant'
  <2>1. UNCHANGED <<sincePublish, outcome, build>>
    BY <1>4 DEF Plan, Goto, TakeFloor, Register, WriteWake, Ask, Unvouched,
                KeepAlive, ReadLedger, PollExpires, WaitReady,
                WaitReregisters, WaitExpires, AnswerFromIndex,
                IndexStopsAnswering, Scan, Finish
  <2>2. journalClean'.present => journalClean.present
    BY <1>4 DEF Plan, Goto, TakeFloor, Register, WriteWake, Ask, Unvouched,
                KeepAlive, ReadLedger, PollExpires, WaitReady,
                WaitReregisters, WaitExpires, AnswerFromIndex,
                IndexStopsAnswering, Scan, Finish, TypeOK, ValueTypes,
                CleanMarkers
  <2>3. outcome # "none" /\ dpc' # "publish" => dpc # "publish"
    BY <1>4 DEF Plan, Goto, TakeFloor, Register, WriteWake, Ask, Unvouched,
                KeepAlive, ReadLedger, PollExpires, WaitReady,
                WaitReregisters, WaitExpires, AnswerFromIndex,
                IndexStopsAnswering, Scan, Finish, ControlInvariant
  <2> QED BY <2>1, <2>2, <2>3, CleanKept
<1>5. CASE Start
  BY <1>5, CleanWithdrawn DEF Start, NotClean
<1>6. CASE Drain
  <2>1. UNCHANGED <<outcome, build>> /\ dpc # "publish"
    BY <1>6 DEF Drain
  <2>2. CASE queue = {}
    <3>1. UNCHANGED <<sincePublish, journalClean>>
      BY <1>6, <2>2 DEF Drain, AbsorbQueue
    <3> QED BY <2>1, <3>1, CleanKept
  <2>3. CASE queue # {}
    BY <1>6, <2>3, CleanWithdrawn DEF Drain, AbsorbQueue, NotClean
  <2> QED BY <2>2, <2>3
<1>7. CASE Publish
  <2>1. UNCHANGED <<sincePublish, journalClean, build>> /\ outcome' = "none"
    BY <1>7 DEF Publish
  <2> QED BY <2>1 DEF CleanInvariant
<1>8. CASE ReleaseUnleased
  <2>1. dpc # "publish" /\ UNCHANGED <<outcome, build, journalClean>>
    BY <1>8 DEF ReleaseUnleased
  <2>2. CASE ForgetTree
    BY <2>1, <2>2 DEF ForgetTree, Unbounded, CleanInvariant
  <2>3. CASE UNCHANGED sincePublish
    BY <2>1, <2>3, CleanKept
  <2> QED BY <2>2, <2>3, <1>8 DEF ReleaseUnleased
<1>9. CASE StartBuild
  BY <1>9, CleanWithdrawn DEF StartBuild, BeginBuild, NotClean
<1>10. CASE SpawnNothing
  BY <1>10, CleanWithdrawn DEF SpawnNothing, BeginBuild, NotClean
<1>11. CASE Reap
  <2>1. ~journalClean.present
    BY <1>11 DEF Reap, CleanInvariant
  <2> QED BY <2>1, <1>11, CleanWithdrawn DEF Reap, NotClean
<1>12. CASE Commit
  <2>1. ~journalClean.present /\ UNCHANGED <<outcome, build>>
    BY <1>12 DEF Commit, CleanInvariant, ControlInvariant
  <2>2. build["child"].phase = "none" /\ dpc' = "publish"
    BY <1>12 DEF Commit, ControlInvariant
  <2>3. CASE UNCHANGED journalClean
    BY <2>1, <2>3, CleanWithdrawn
  <2>4. CASE sincePublish' = {}
    BY <2>1, <2>2, <2>4 DEF CleanInvariant
  <2> QED BY <2>3, <2>4, <1>12 DEF Commit
<1>13. CASE Wait
  <2>1. UNCHANGED <<outcome, build>> /\ dpc # "publish"
    BY <1>13 DEF Wait
  <2>2. CASE queue = {}
    <3>1. UNCHANGED <<sincePublish, journalClean>>
      BY <1>13, <2>2 DEF Wait, AbsorbQueue
    <3> QED BY <2>1, <3>1, CleanKept
  <2>3. CASE queue # {}
    BY <1>13, <2>3, CleanWithdrawn DEF Wait, AbsorbQueue, NotClean
  <2> QED BY <2>2, <2>3
<1>60. CASE ServeAnotherTree
  <2>1. UNCHANGED <<outcome, build>> /\ dpc # "publish"
    BY <1>60 DEF ServeAnotherTree
  <2>2. CASE queue = {}
    <3>1. UNCHANGED <<sincePublish, journalClean>>
      BY <1>60, <2>2 DEF ServeAnotherTree, AbsorbQueue
    <3> QED BY <2>1, <3>1, CleanKept
  <2>3. CASE queue # {}
    BY <1>60, <2>3, CleanWithdrawn DEF ServeAnotherTree, AbsorbQueue, NotClean
  <2> QED BY <2>2, <2>3
<1>14. CASE Evict
  BY <1>14, CleanWithdrawn DEF Evict, NotClean
<1>15. CASE Exit
  BY <1>15, CleanWithdrawn DEF Exit, NotClean
<1>16. CASE Crash
  <2>1. Wide \in sincePublish' /\ outcome' = "none"
    BY <1>16 DEF Crash, ProcessEnds, ForgetTree, Unbounded
  <2>2. build'["child"].phase = "none"
    BY <1>16, ChildIsTyped DEF Crash, TypeOK, NoBuild, Builders
  <2> QED BY <2>1, <2>2 DEF CleanInvariant
<1>17. ASSUME NEW b \in Builders, NEW p \in Paths, ReadPath(b, p)
     PROVE  CleanInvariant'
  <2>1. build["child"].phase # "none"
    BY <1>17, ReadPathEffect DEF TypeOK
  <2>2. UNCHANGED <<sincePublish, outcome, journalClean, dpc>>
    BY <1>17 DEF ReadPath
  <2> QED BY <2>1, <2>2, CleanKept
<1>18. ASSUME NEW b \in Builders, SwapIn(b)
     PROVE  CleanInvariant'
  <2>1. build["child"].phase # "none"
    BY <1>18, SwapInEffect DEF TypeOK
  <2>2. UNCHANGED <<sincePublish, outcome, journalClean, dpc>>
    BY <1>18 DEF SwapIn
  <2> QED BY <2>1, <2>2, CleanKept
<1>19. ASSUME NEW b \in Builders, BuildExits(b)
     PROVE  CleanInvariant'
  <2>1. build["child"].phase # "none"
    BY <1>19, BuildExitsEffect DEF TypeOK
  <2>2. UNCHANGED <<sincePublish, outcome, journalClean, dpc>>
    BY <1>19 DEF BuildExits
  <2> QED BY <2>1, <2>2, CleanKept
<1>20. CASE UNCHANGED vars
  <2>1. UNCHANGED <<sincePublish, outcome, build>>
    BY <1>20 DEF vars
  <2>2. journalClean'.present => journalClean.present
    BY <1>20 DEF vars, TypeOK, ValueTypes, CleanMarkers
  <2>3. outcome # "none" /\ dpc' # "publish" => dpc # "publish"
    BY <1>20 DEF vars
  <2> QED BY <2>1, <2>2, <2>3, CleanKept
<1> QED
  BY <1>1, <1>2, <1>3, <1>4, <1>5, <1>6, <1>7, <1>8, <1>9, <1>10, <1>11,
     <1>12, <1>13, <1>60, <1>14, <1>15, <1>16, <1>17, <1>18, <1>19, <1>20
     DEF Next, Corpus, DaemonStep, BuildStep, QueryStep

\* The invariant holds before the first daemon starts.
LEMMA InvariantInit == Init => FreshnessInvariant
<1> SUFFICES ASSUME Init PROVE FreshnessInvariant
  OBVIOUS
<1>1. TypeOK
  BY TypeInit
<1>2. /\ build["child"] = NoBuild /\ build["orphan"] = NoBuild
      /\ build["child"].phase = "none"
  BY DEF Init, Builders, NoBuild
<1>3. /\ \A p \in Paths : index[p] = 0 /\ disk[p] = 0
      /\ \A q \in Queries : \A p \in Paths : floor[q][p] = 0
  BY DEF Init, NoVersion
<1>4. ControlInvariant
  BY <1>2 DEF Init, ControlInvariant
<1>5. VersionInvariant
  BY <1>2, <1>3 DEF VersionInvariant
<1>6. DirtInvariant
  BY <1>2, <1>3 DEF Init, DirtInvariant, Swapped, Unbounded
<1>7. DrainInvariant /\ LedgerAccountsForFloors
  BY DEF Init, DrainInvariant, LedgerAccountsForFloors, NoLedger
<1>8. AnswerInvariant
  BY DEF Init, AnswerInvariant
<1>9. CleanInvariant
  BY <1>2 DEF Init, CleanInvariant, NotClean
<1> QED
  BY <1>1, <1>4, <1>5, <1>6, <1>7, <1>8, <1>9 DEF FreshnessInvariant

\* Every step of daemon, child, corpus and query keeps the invariant.
LEMMA InvariantNext ==
    ASSUME ~OrphansSurvive, ~WatchesRunOut, FreshnessInvariant, [Next]_vars
    PROVE  FreshnessInvariant'
<1> USE DEF FreshnessInvariant
<1>1. TypeOK'
  BY TypeNext
<1>2. ControlInvariant'
  BY ControlNext
<1>3. VersionInvariant'
  BY <1>1, VersionNext
<1>4. DirtInvariant'
  BY <1>1, DirtNext
<1>5. DrainInvariant'
  BY <1>1, DrainNext
<1>6. LedgerAccountsForFloors'
  BY <1>1, LedgerNext
<1>7. AnswerInvariant'
  BY <1>1, AnswerNext
<1>8. CleanInvariant'
  BY CleanNext
<1> QED BY <1>1, <1>2, <1>3, <1>4, <1>5, <1>6, <1>7, <1>8

-----------------------------------------------------------------------------
(***************************************************************************)
(* The theorems, for a daemon whose rebuilds die with it and a watch       *)
(* budget that keeps holding a tree it held.                               *)
(***************************************************************************)

\* The inductive invariant: what the generation misses is named by a change
\* set or still queued, at every point of Daemon::serve and of a query.
THEOREM InvariantHolds ==
    ASSUME ~OrphansSurvive, ~WatchesRunOut
    PROVE  Spec => []FreshnessInvariant
<1>1. Init => FreshnessInvariant
  BY InvariantInit
<1>2. FreshnessInvariant /\ [Next]_vars => FreshnessInvariant'
  BY InvariantNext
<1> QED BY <1>1, <1>2, PTL DEF Spec

\* Every answer reflects every change that landed before its query asked, for
\* any number of queries and paths (Vouched::Covered, Vouched::Changed and
\* readiness::scan_instead).
THEOREM AnswersAreComplete ==
    ASSUME ~OrphansSurvive, ~WatchesRunOut
    PROVE  Spec => []VouchedAnswersAreComplete
<1>1. FreshnessInvariant => VouchedAnswersAreComplete
  <2> SUFFICES ASSUME FreshnessInvariant,
                      NEW q \in Queries, qpc[q] = "answered", NEW p \in Paths
               PROVE  view[q][p] >= floor[q][p]
    BY DEF VouchedAnswersAreComplete
  <2>1. view[q][p] \in Nat /\ floor[q][p] \in Nat
    BY VersionsAreNumbers DEF FreshnessInvariant, TypeOK, ValueTypes
  <2>2. floor[q][p] <= view[q][p]
    BY DEF FreshnessInvariant, AnswerInvariant
  <2> QED BY <2>1, <2>2
<1> QED BY <1>1, InvariantHolds, PTL

\* The published dirty ledger never claims more than the generation covers
\* (Dirt::publish against swap_in, whichever comes first).
THEOREM LedgerIsHonest ==
    ASSUME ~OrphansSurvive, ~WatchesRunOut
    PROVE  Spec => []LedgerAccountsForFloors
<1>1. FreshnessInvariant => LedgerAccountsForFloors
  BY DEF FreshnessInvariant
<1> QED BY <1>1, InvariantHolds, PTL

\* No change of a watched tree falls between the watcher, a running build and
\* the change set it is committed to (Dirt::record, commit_build).
THEOREM NothingIsForgotten ==
    ASSUME ~OrphansSurvive, ~WatchesRunOut
    PROVE  Spec => []NoChangeIsForgotten
<1>1. FreshnessInvariant => NoChangeIsForgotten
  BY DEF FreshnessInvariant, DirtInvariant, NoChangeIsForgotten, Accounted,
     Names
<1> QED BY <1>1, InvariantHolds, PTL

\* Of a tree covered since its walk, journal-clean means what daemon.md says:
\* no change is unprocessed (publish_generation, absorb).
THEOREM CleanIsCaughtUp ==
    ASSUME ~OrphansSurvive, ~WatchesRunOut
    PROVE  Spec => []CleanMeansCaughtUpSinceWatch
<1>1. FreshnessInvariant => CleanMeansCaughtUpSinceWatch
  BY DEF FreshnessInvariant, DirtInvariant, CleanInvariant, Accounted, Names,
         CleanMeansCaughtUpSinceWatch
<1> QED BY <1>1, InvariantHolds, PTL

\* A published generation only gives way to one at least as new on every path
\* (Rebuild::published, swap_in).
THEOREM GenerationsAdvance ==
    ASSUME ~OrphansSurvive, ~WatchesRunOut
    PROVE  Spec => GenerationNeverRegresses
<1>1. FreshnessInvariant /\ [Next]_vars =>
        [\A p \in Paths : index'[p] >= index[p]]_vars
  <2> SUFFICES ASSUME FreshnessInvariant, [Next]_vars, NEW p \in Paths
               PROVE  index'[p] >= index[p]
    OBVIOUS
  <2>1. TypeOK'
    BY TypeNext DEF FreshnessInvariant
  <2>2. index[p] \in Nat /\ index'[p] \in Nat
    BY <2>1, VersionsAreNumbers DEF FreshnessInvariant, TypeOK, ValueTypes
  <2>3. index[p] <= index'[p]
    BY BuildsGrow DEF FreshnessInvariant
  <2> QED BY <2>2, <2>3
<1> QED BY <1>1, InvariantHolds, PTL DEF Spec, GenerationNeverRegresses

-----------------------------------------------------------------------------
(***************************************************************************)
(* The protocol implements Search.                                         *)
(***************************************************************************)

\* A step that leaves corpus and answers alone is a stutter of Search.
LEMMA SearchStutters ==
    ASSUME UNCHANGED <<disk, floor, view>>,
           \A q \in Queries : Phase(qpc'[q]) = Phase(qpc[q])
    PROVE  UNCHANGED Promise!vars
<1>1. [q \in Queries |-> Phase(qpc[q])]' = [q \in Queries |-> Phase(qpc[q])]
  OBVIOUS
<1> QED BY <1>1 DEF Promise!vars

\* Only the query that moved changes its phase.
LEMMA PhaseMoves ==
    ASSUME TypeOK, NEW q \in Queries, NEW pc, Goto(q, pc)
    PROVE  [r \in Queries |-> Phase(qpc[r])]' =
               [[r \in Queries |-> Phase(qpc[r])] EXCEPT ![q] = Phase(pc)]
<1>1. \A r \in Queries : qpc'[r] = IF r = q THEN pc ELSE qpc[r]
  BY DEF Goto, TypeOK, ValueTypes
<1> QED BY <1>1

\* An initial state of the protocol is one of Search.
LEMMA SearchInit == Init => Promise!Init
<1> SUFFICES ASSUME Init PROVE Promise!Init
  OBVIOUS
<1>1. \A q \in Queries : Phase(qpc[q]) = "idle"
  BY DEF Init, Phase
<1> QED BY <1>1 DEF Init, NoVersion, Promise!Init, Promise!NoVersion

\* Every step of the protocol is a step of Search or a stutter.
LEMMA SearchNext ==
    ASSUME ~OrphansSurvive, ~WatchesRunOut, FreshnessInvariant, [Next]_vars
    PROVE  [Promise!Next]_(Promise!vars)
<1> USE DEF watchVars, fileVars, indexVars, dirtVars, queryVars, daemonVars
<1>1. FreshnessInvariant' /\ TypeOK' /\ AnswerInvariant'
  BY InvariantNext DEF FreshnessInvariant
<1>2. TypeOK
  BY DEF FreshnessInvariant
<1>3. \A p \in Paths : disk[p] <= disk[p]
  BY <1>2, VersionsAreNumbers DEF TypeOK, ValueTypes
<1>4. ASSUME 
           LeaseExpires \/ Start \/ Stamp \/ Drain \/ Publish \/
           ReleaseUnleased \/ SkipRequest \/ WatchRequest \/ RefuseWatch \/
           StartBuild \/ SpawnNothing \/ SkipBuild \/ Poll \/ Reap \/
           Commit \/ Wait \/ ServeAnotherTree \/ Evict \/ Leave \/ Exit \/
           ChooseVictim \/ Crash
     PROVE  [Promise!Next]_(Promise!vars)
  <2>1. UNCHANGED <<disk, floor, view>>
    BY <1>4 DEF LeaseExpires, Start, Stamp, Drain, AbsorbQueue, MayGiveUp,
                Publish, ReleaseUnleased, ForgetTree, SkipRequest,
                WatchRequest, RefuseWatch, StartBuild, BeginBuild,
                SpawnNothing, SkipBuild, Poll, Reap, Commit, Wait,
                ServeAnotherTree, Evict, Leave, Exit, ProcessEnds,
                ChooseVictim, Crash
  <2>2. \A r \in Queries : Phase(qpc'[r]) = Phase(qpc[r])
    BY <1>4 DEF LeaseExpires, Start, Stamp, Drain, AbsorbQueue, MayGiveUp,
                Publish, ReleaseUnleased, ForgetTree, SkipRequest,
                WatchRequest, RefuseWatch, StartBuild, BeginBuild,
                SpawnNothing, SkipBuild, Poll, Reap, Commit, Wait,
                ServeAnotherTree, Evict, Leave, Exit, ProcessEnds,
                ChooseVictim, Crash, Phase, FreshnessInvariant, TypeOK,
                ValueTypes
  <2> QED BY <2>1, <2>2, SearchStutters
<1>5. ASSUME NEW b \in Builders,
           SwapIn(b) \/ BuildExits(b)
     PROVE  [Promise!Next]_(Promise!vars)
  <2>1. UNCHANGED <<disk, floor, view>>
    BY <1>5 DEF SwapIn, BuildExits
  <2>2. \A r \in Queries : Phase(qpc'[r]) = Phase(qpc[r])
    BY <1>5 DEF SwapIn, BuildExits, Phase, FreshnessInvariant, TypeOK,
                ValueTypes
  <2> QED BY <2>1, <2>2, SearchStutters
<1>6. ASSUME NEW b \in Builders, NEW p \in Paths,
           ReadPath(b, p)
     PROVE  [Promise!Next]_(Promise!vars)
  <2>1. UNCHANGED <<disk, floor, view>>
    BY <1>6 DEF ReadPath
  <2>2. \A r \in Queries : Phase(qpc'[r]) = Phase(qpc[r])
    BY <1>6 DEF ReadPath, Phase, FreshnessInvariant, TypeOK, ValueTypes
  <2> QED BY <2>1, <2>2, SearchStutters
<1>7. ASSUME NEW q \in Queries,
           Plan(q) \/ Register(q) \/ Ask(q) \/ KeepAlive(q) \/
           ReadLedger(q) \/ PollExpires(q) \/ WaitReady(q) \/
           WaitExpires(q) \/ IndexStopsAnswering(q)
     PROVE  [Promise!Next]_(Promise!vars)
  <2>1. UNCHANGED <<disk, floor, view>>
    BY <1>7 DEF Plan, Goto, Register, WriteWake, Ask, Unvouched, KeepAlive,
                ReadLedger, PollExpires, WaitReady, WaitExpires,
                IndexStopsAnswering
  <2>2. \A r \in Queries : Phase(qpc'[r]) = Phase(qpc[r])
    BY <1>7 DEF Plan, Goto, Register, WriteWake, Ask, Unvouched, KeepAlive,
                ReadLedger, PollExpires, WaitReady, WaitExpires,
                IndexStopsAnswering, Phase, FreshnessInvariant, TypeOK,
                ValueTypes
  <2> QED BY <2>1, <2>2, SearchStutters
<1>8. ASSUME NEW p \in Paths, Write(p)
     PROVE  [Promise!Next]_(Promise!vars)
  <2>1. disk' \in [Paths -> 0 .. MaxVersion]
    BY <1>1 DEF TypeOK, ValueTypes, Contents, Versions
  <2>2. \A r \in Paths : disk'[r] >= disk[r]
    BY <1>1, <1>2, DiskGrows, VersionsAreNumbers DEF TypeOK, ValueTypes
  <2>3. UNCHANGED <<[q \in Queries |-> Phase(qpc[q])], floor, view>>
    BY <1>8 DEF Write
  <2>4. Promise!Change
    BY <2>1, <2>2, <2>3 DEF Promise!Change, Promise!Versions
  <2> QED BY <2>4 DEF Promise!Next
<1>9. ASSUME NEW moved \in SUBSET Paths, Restructure(moved)
     PROVE  [Promise!Next]_(Promise!vars)
  <2>1. disk' \in [Paths -> 0 .. MaxVersion]
    BY <1>1 DEF TypeOK, ValueTypes, Contents, Versions
  <2>2. \A r \in Paths : disk'[r] >= disk[r]
    BY <1>1, <1>2, DiskGrows, VersionsAreNumbers DEF TypeOK, ValueTypes
  <2>3. UNCHANGED <<[q \in Queries |-> Phase(qpc[q])], floor, view>>
    BY <1>9 DEF Restructure
  <2>4. Promise!Change
    BY <2>1, <2>2, <2>3 DEF Promise!Change, Promise!Versions
  <2> QED BY <2>4 DEF Promise!Next
<1>10. ASSUME NEW q \in Queries, TakeFloor(q)
     PROVE  [Promise!Next]_(Promise!vars)
  <2>1. UNCHANGED <<disk, view>> /\ floor' = [floor EXCEPT ![q] = disk]
    BY <1>10 DEF TakeFloor
  <2>2. PICK pc \in {"asking", "registering"} : Goto(q, pc)
    BY <1>10 DEF TakeFloor
  <2>3. Phase(pc) = "asked" /\ Phase(qpc[q]) \in {"idle", "asked"}
    BY <2>2, <1>10 DEF TakeFloor, Phase
  <2>4. Promise!Ask(q)
    BY <2>1, <2>2, <2>3, <1>2, PhaseMoves DEF Promise!Ask
  <2> QED BY <2>4 DEF Promise!Next
<1>11. ASSUME NEW q \in Queries, WaitReregisters(q)
     PROVE  [Promise!Next]_(Promise!vars)
  <2>1. UNCHANGED <<disk, view, floor>> /\ Phase(qpc[q]) = "asked"
    BY <1>11 DEF WaitReregisters, Phase
  <2>2. CASE Goto(q, "failed")
    <3>1. Phase("failed") = "failed"
      BY DEF Phase
    <3>2. Promise!Fail(q)
      BY <2>1, <2>2, <3>1, <1>2, PhaseMoves DEF Promise!Fail
    <3> QED BY <3>2 DEF Promise!Next
  <2>3. CASE Goto(q, "waiting")
    <3>1. \A r \in Queries : Phase(qpc'[r]) = Phase(qpc[r])
      BY <2>3, <1>11, <1>2 DEF WaitReregisters, Goto, TypeOK, ValueTypes
    <3> QED BY <2>1, <3>1, SearchStutters
  <2> QED BY <2>2, <2>3, <1>11 DEF WaitReregisters
<1>12. ASSUME NEW q \in Queries, AnswerFromIndex(q)
     PROVE  [Promise!Next]_(Promise!vars)
  <2>1. UNCHANGED <<disk, floor>> /\ Goto(q, "answered")
    BY <1>12 DEF AnswerFromIndex
  <2>2. Phase(qpc[q]) = "asked" /\ Phase("answered") = "answered"
    BY <1>12 DEF AnswerFromIndex, Phase
  <2> DEFINE seen == view'[q]
  <2>3. seen \in Contents
    BY <1>1 DEF TypeOK, ValueTypes
  <2>4. \A p \in Paths : floor[q][p] <= seen[p]
    BY <1>1, <2>1, <1>2 DEF AnswerInvariant, Goto, TypeOK, ValueTypes
  <2>5. \A p \in Paths : seen[p] <= disk[p]
    <3>1. \A p \in Paths : seen[p] \in {disk[p], index[p]}
      BY <1>12, <1>2 DEF AnswerFromIndex, TypeOK, ValueTypes
    <3> QED BY <3>1, <1>3, <1>2 DEF VersionInvariant, FreshnessInvariant
  <2>6. view' = [view EXCEPT ![q] = seen]
    BY <1>12, <1>2 DEF AnswerFromIndex, TypeOK, ValueTypes
  <2> HIDE DEF seen
  <2>7. Promise!Answer(q)
    BY <2>1, <2>2, <2>3, <2>4, <2>5, <2>6, <1>2, PhaseMoves
       DEF Promise!Answer, Promise!Versions, Contents, Versions
  <2> QED BY <2>7 DEF Promise!Next
<1>13. ASSUME NEW q \in Queries, Scan(q)
     PROVE  [Promise!Next]_(Promise!vars)
  <2>1. UNCHANGED <<disk, floor>> /\ Goto(q, "answered")
    BY <1>13 DEF Scan
  <2>2. Phase(qpc[q]) = "asked" /\ Phase("answered") = "answered"
    BY <1>13 DEF Scan, Phase
  <2> DEFINE seen == view'[q]
  <2>3. seen \in Contents
    BY <1>1 DEF TypeOK, ValueTypes
  <2>4. \A p \in Paths : floor[q][p] <= seen[p]
    BY <1>1, <2>1, <1>2 DEF AnswerInvariant, Goto, TypeOK, ValueTypes
  <2>5. \A p \in Paths : seen[p] <= disk[p]
    <3>1. seen = disk
      BY <1>13, <1>2 DEF Scan, TypeOK, ValueTypes
    <3> QED BY <3>1, <1>3
  <2>6. view' = [view EXCEPT ![q] = seen]
    BY <1>13, <1>2 DEF Scan, TypeOK, ValueTypes
  <2> HIDE DEF seen
  <2>7. Promise!Answer(q)
    BY <2>1, <2>2, <2>3, <2>4, <2>5, <2>6, <1>2, PhaseMoves
       DEF Promise!Answer, Promise!Versions, Contents, Versions
  <2> QED BY <2>7 DEF Promise!Next
<1>14. ASSUME NEW q \in Queries, Finish(q)
     PROVE  [Promise!Next]_(Promise!vars)
  <2>1. /\ UNCHANGED disk /\ Goto(q, "idle")
        /\ floor' = [floor EXCEPT ![q] = NoVersion]
        /\ view' = [view EXCEPT ![q] = NoVersion]
    BY <1>14 DEF Finish
  <2>2. Phase(qpc[q]) \in {"answered", "failed"} /\ Phase("idle") = "idle"
    BY <1>14 DEF Finish, Phase
  <2>3. Promise!Finish(q)
    BY <2>1, <2>2, <1>2, PhaseMoves
       DEF Promise!Finish, Promise!NoVersion, NoVersion
  <2> QED BY <2>3 DEF Promise!Next
<1>15. CASE UNCHANGED vars
  <2>1. UNCHANGED <<disk, floor, view>>
    BY <1>15 DEF vars
  <2>2. \A r \in Queries : Phase(qpc'[r]) = Phase(qpc[r])
    BY <1>15 DEF vars, Phase, FreshnessInvariant, TypeOK, ValueTypes
  <2> QED BY <2>1, <2>2, SearchStutters
<1> QED
  BY <1>1, <1>2, <1>3, <1>4, <1>5, <1>6, <1>7, <1>8, <1>9, <1>10, <1>11,
     <1>12, <1>13, <1>14, <1>15
     DEF Next, Corpus, DaemonStep, BuildStep, QueryStep

\* Whatever the daemon does, a query gets what Search promises (daemon.md,
\* "the query falls back to the exact scan").
THEOREM SearchIsImplemented ==
    ASSUME ~OrphansSurvive, ~WatchesRunOut
    PROVE  Spec => ImplementsSearch
<1>1. Init => Promise!Init
  BY SearchInit
<1>2. FreshnessInvariant /\ [Next]_vars => [Promise!Next]_(Promise!vars)
  BY SearchNext
<1> QED
  BY <1>1, <1>2, InvariantHolds, PTL DEF Spec, ImplementsSearch, Promise!Spec
=============================================================================
