---------------------------- MODULE WatchesProofs ----------------------------
(***************************************************************************)
(* Proofs about Watches, for every layout of directories and trees, every  *)
(* value of the ceilings, and whatever the corpus does.                    *)
(***************************************************************************)
EXTENDS Watches, TLAPS, FiniteSetTheorems

\* A registration under way is of an indexed tree, and goes back to where a
\* drain or a sync left off.
TaskIsTyped ==
    /\ task \in [todo : {task.todo}, listing : {task.listing},
                 deep : {task.deep}, tree : Trees \cup {Nothing},
                 back : {"top", "poll", "settle", "serve"}]
    /\ dpc = "register" => task.tree \in Trees

\* The inductive invariant: the registry, the budget and the kernel's marks.
RegistryInvariant ==
    /\ node \in [Dirs -> Nodes \cup {Nothing}]
    /\ byWatch \in [Nodes -> Watch \cup {NoWatch}]
    /\ TaskIsTyped
    /\ BudgetIsHonest
    /\ MarksAreRegistered

\* There are finitely many descriptors, so the budget's count is a number.
LEMMA RegisteredIsFinite ==
    /\ IsFiniteSet(Registered)
    /\ Cardinality(Registered) \in Nat
<1>1. IsFiniteSet(Registered)
  BY ConstantsAssumption, FS_Subset DEF Registered
<1> QED BY <1>1, FS_CardinalityType

\* A free entry of dirs_by_watch is not an entry of any directory.
LEMMA NoWatchIsNoWatch == NoWatch \notin Watch
BY ConstantsAssumption DEF NoWatch, Watch

\* What is dropped is gone from every table, and the budget has it back.
LEMMA DropKeepsTheRegistry ==
    ASSUME RegistryInvariant, NEW wds \in SUBSET Registered, Drop(wds)
    PROVE  /\ byWatch' \in [Nodes -> Watch \cup {NoWatch}]
           /\ BudgetIsHonest'
           /\ MarksAreRegistered'
<1>1. /\ byWatch' = [wd \in Nodes |-> IF wd \in wds THEN NoWatch ELSE byWatch[wd]]
      /\ watchedDirs' = watchedDirs \ {byWatch[wd].dir : wd \in wds}
      /\ held' = held - Cardinality(wds)
      /\ marks' = marks \ wds
  BY Zenon DEF Drop
<1>2. byWatch \in [Nodes -> Watch \cup {NoWatch}]
  BY DEF RegistryInvariant
<1>3. byWatch' \in [Nodes -> Watch \cup {NoWatch}]
  BY <1>1, <1>2
<1>4. Registered' = Registered \ wds
  BY <1>1 DEF Registered
<1>5. MarksAreRegistered'
  BY <1>1, <1>4 DEF RegistryInvariant, MarksAreRegistered
<1>6. held' = Cardinality(Registered') /\ held' <= Ceiling
  <2>1. IsFiniteSet(wds) /\ Cardinality(wds) \in Nat
    BY RegisteredIsFinite, FS_Subset, FS_CardinalityType
  <2>2. Registered \cap wds = wds
    OBVIOUS
  <2>3. Cardinality(Registered \ wds) = Cardinality(Registered) - Cardinality(wds)
    BY <2>1, <2>2, RegisteredIsFinite, FS_Difference
  <2> QED
    BY <1>1, <1>4, <2>1, <2>3, RegisteredIsFinite, ConstantsAssumption
       DEF RegistryInvariant, BudgetIsHonest
<1>7. watchedDirs' = {byWatch'[wd].dir : wd \in Registered'}
  <2>1. watchedDirs = {byWatch[wd].dir : wd \in Registered}
    BY DEF RegistryInvariant, BudgetIsHonest
  <2>2. \A v, w \in Registered : byWatch[v].dir = byWatch[w].dir => v = w
    BY DEF RegistryInvariant, BudgetIsHonest
  <2>3. \A wd \in Registered \ wds : byWatch'[wd] = byWatch[wd]
    BY <1>1 DEF Registered
  <2> QED BY <1>1, <1>4, <2>1, <2>2, <2>3
<1>8. \A v, w \in Registered' : byWatch'[v].dir = byWatch'[w].dir => v = w
  <2>1. \A wd \in Registered \ wds : byWatch'[wd] = byWatch[wd]
    BY <1>1 DEF Registered
  <2> QED BY <1>4, <2>1 DEF RegistryInvariant, BudgetIsHonest
<1> QED BY <1>3, <1>5, <1>6, <1>7, <1>8 DEF BudgetIsHonest

\* A directory that is not watched under its path takes one claim, or the
\* place of the path it was watched under (WatchRegistry::insert).
LEMMA InsertKeepsTheRegistry ==
    ASSUME RegistryInvariant, NEW d \in Dirs, NEW t \in Trees,
           Exists(d), d \notin watchedDirs, held < Ceiling, Insert(d, t)
    PROVE  /\ byWatch' \in [Nodes -> Watch \cup {NoWatch}]
           /\ BudgetIsHonest'
           /\ MarksAreRegistered'
<1> DEFINE wd  == node[d]
           old == IF byWatch[wd] = NoWatch THEN {} ELSE {byWatch[wd].dir}
<1>1. /\ byWatch' = [byWatch EXCEPT ![wd] = [dir |-> d, tree |-> t]]
      /\ watchedDirs' = (watchedDirs \cup {d}) \ old
      /\ held' = IF old = {} THEN held + 1 ELSE held
      /\ marks' = marks \cup {wd}
  BY DEF Insert
<1>2. wd \in Nodes
  BY DEF RegistryInvariant, Exists
<1>3. byWatch \in [Nodes -> Watch \cup {NoWatch}]
  BY DEF RegistryInvariant
<1>4. [dir |-> d, tree |-> t] \in Watch
  BY DEF Watch
<1>5. byWatch' \in [Nodes -> Watch \cup {NoWatch}]
  BY <1>1, <1>3, <1>4
<1>6. Registered' = Registered \cup {wd}
  BY <1>1, <1>2, <1>3, <1>4, NoWatchIsNoWatch DEF Registered
<1>7. MarksAreRegistered'
  BY <1>1, <1>6 DEF RegistryInvariant, MarksAreRegistered
<1>8. wd \in Registered <=> old # {}
  BY <1>2 DEF Registered
<1>9. held' = Cardinality(Registered') /\ held' <= Ceiling
  <2>1. Cardinality(Registered') =
            IF wd \in Registered THEN Cardinality(Registered)
                                 ELSE Cardinality(Registered) + 1
    BY <1>6, RegisteredIsFinite, FS_AddElement
  <2>2. held = Cardinality(Registered) /\ held \in Nat
    BY RegisteredIsFinite DEF RegistryInvariant, BudgetIsHonest
  <2> HIDE DEF old, wd
  <2> QED BY <1>1, <1>8, <2>1, <2>2, ConstantsAssumption
<1>10. /\ \A w \in Registered \ {wd} : byWatch'[w] = byWatch[w]
       /\ byWatch'[wd].dir = d
  BY <1>1, <1>2, <1>3 DEF Registered
<1>11. /\ watchedDirs = {byWatch[w].dir : w \in Registered}
       /\ \A v, w \in Registered : byWatch[v].dir = byWatch[w].dir => v = w
  BY DEF RegistryInvariant, BudgetIsHonest
<1>12. \A w \in Registered : byWatch[w].dir # d
  BY <1>11
<1>13. \A v, w \in Registered' : byWatch'[v].dir = byWatch'[w].dir => v = w
  BY <1>6, <1>10, <1>11, <1>12
<1>14. watchedDirs' = {byWatch'[w].dir : w \in Registered'}
  <2>1. CASE wd \in Registered
    <3>1. old = {byWatch[wd].dir}
      BY <2>1 DEF Registered
    <3>2. watchedDirs' = {byWatch[w].dir : w \in Registered \ {wd}} \cup {d}
      BY <1>1, <1>11, <1>12, <2>1, <3>1
    <3> QED BY <1>6, <1>10, <2>1, <3>2
  <2>2. CASE wd \notin Registered
    <3>1. old = {}
      BY <1>8, <2>2
    <3> HIDE DEF old
    <3>2. watchedDirs' = {byWatch[w].dir : w \in Registered} \cup {d}
      BY <1>1, <1>11, <3>1
    <3> QED BY <1>6, <1>10, <2>2, <3>2
  <2> QED BY <2>1, <2>2
<1> QED BY <1>5, <1>7, <1>9, <1>13, <1>14 DEF BudgetIsHonest

\* Steps that touch neither the registry nor the kernel's marks.
LEMMA OtherStepsKeepTheRegistry ==
    ASSUME RegistryInvariant, UNCHANGED registryVars, marks' \subseteq marks,
           node' \in [Dirs -> Nodes \cup {Nothing}], TaskIsTyped'
    PROVE  RegistryInvariant'
<1>1. byWatch' = byWatch /\ watchedDirs' = watchedDirs /\ held' = held
  BY DEF registryVars
<1>2. Registered' = Registered
  BY <1>1 DEF Registered
<1>3. BudgetIsHonest'
  BY <1>1, <1>2 DEF RegistryInvariant, BudgetIsHonest
<1>4. MarksAreRegistered'
  BY <1>2 DEF RegistryInvariant, MarksAreRegistered
<1> QED BY <1>1, <1>3, <1>4 DEF RegistryInvariant

\* An empty registry is an honest one.
LEMMA EmptyRegistry ==
    ASSUME byWatch = [wd \in Nodes |-> NoWatch], watchedDirs = {}, held = 0,
           marks = {}
    PROVE  /\ byWatch \in [Nodes -> Watch \cup {NoWatch}]
           /\ BudgetIsHonest
           /\ MarksAreRegistered
<1>1. Registered = {}
  BY DEF Registered
<1>2. Cardinality(Registered) = 0
  BY <1>1, FS_EmptySet
<1>3. BudgetIsHonest
  BY <1>1, <1>2, ConstantsAssumption DEF BudgetIsHonest
<1> QED BY <1>3 DEF MarksAreRegistered

\* A registration under way stays typed while nobody touches it.
LEMMA TaskKept ==
    ASSUME TaskIsTyped, UNCHANGED task, dpc' # "register"
    PROVE  TaskIsTyped'
BY DEF TaskIsTyped

\* A registration that ends leaves a typed one behind.
LEMMA TaskEnded ==
    ASSUME task' = NoTask, dpc' # "register"
    PROVE  TaskIsTyped'
BY DEF TaskIsTyped, NoTask

\* Watcher::watch_tree and watch_dirs begin a typed registration.
LEMMA TaskBegun ==
    ASSUME NEW t \in Trees, NEW dirs, NEW deep,
           NEW back \in {"top", "poll", "settle", "serve"},
           Register(t, dirs, deep, back)
    PROVE  TaskIsTyped'
BY DEF TaskIsTyped, Register

\* A registration goes back to one of the places that call for one.
LEMMA WhereTasksGoBack ==
    ASSUME TaskIsTyped
    PROVE  task.back \in {"top", "poll", "settle", "serve"}
BY DEF TaskIsTyped

\* The watches of a tree are registered ones (WatchRegistry::all_for).
LEMMA WatchesOfAreRegistered ==
    ASSUME NEW t
    PROVE  WatchesOf(t) \subseteq Registered
BY DEF WatchesOf

\* The daemon starts with an empty registry, an empty budget and no marks.
THEOREM RegistryInit == Init => RegistryInvariant
<1> SUFFICES ASSUME Init PROVE RegistryInvariant
  OBVIOUS
<1>1. node \in [Dirs -> Nodes \cup {Nothing}]
  BY DEF Init
<1>2. TaskIsTyped
  BY DEF Init, TaskIsTyped, NoTask
<1>3. /\ byWatch \in [Nodes -> Watch \cup {NoWatch}]
      /\ BudgetIsHonest /\ MarksAreRegistered
  BY EmptyRegistry DEF Init
<1> QED BY <1>1, <1>2, <1>3 DEF RegistryInvariant

\* The corpus can take marks from the kernel but never from the registry.
LEMMA CorpusKeepsTheRegistry ==
    ASSUME RegistryInvariant, Corpus
    PROVE  RegistryInvariant'
<1>1. UNCHANGED registryVars /\ UNCHANGED daemonVars
  BY DEF Corpus, WriteFile, MakeDir, RemoveDir, MoveDir, ToggleFile
<1>2. marks' \subseteq marks
  BY DEF Corpus, WriteFile, MakeDir, RemoveDir, MoveDir, ToggleFile
<1>3. node' \in [Dirs -> Nodes \cup {Nothing}]
  BY DEF RegistryInvariant, Corpus, WriteFile, MakeDir, RemoveDir, MoveDir,
         ToggleFile, Exists
<1>4. TaskIsTyped'
  BY <1>1 DEF RegistryInvariant, TaskIsTyped, daemonVars
<1> QED BY <1>1, <1>2, <1>3, <1>4, OtherStepsKeepTheRegistry

\* Watching, giving up and listing directories (watch_dir_recursive).
LEMMA RegistrationKeepsTheRegistry ==
    ASSUME RegistryInvariant, NEW d \in Dirs,
           WatchDir(d) \/ GiveUp(d) \/ WatchFails(d)
    PROVE  RegistryInvariant'
<1> USE DEF RegistryInvariant
<1>1. node' = node
  BY Zenon DEF WatchDir, GiveUp, WatchFails, corpusVars
<1>2. CASE WatchDir(d)
  <2>1. TaskIsTyped'
    <3>1. /\ task' = [task EXCEPT !.todo = @ \ {d},
                          !.listing = IF task.deep THEN d ELSE Nothing]
          /\ dpc' = dpc
      BY <1>2 DEF WatchDir
    <3>2. task'.tree = task.tree
      BY <3>1 DEF TaskIsTyped
    <3>3. task' \in [todo : {task'.todo}, listing : {task'.listing},
                     deep : {task'.deep}, tree : Trees \cup {Nothing},
                     back : {"top", "poll", "settle", "serve"}]
      BY <3>1 DEF TaskIsTyped
    <3> QED BY <3>1, <3>2, <3>3 DEF TaskIsTyped
  <2>2. CASE UNCHANGED <<registryVars, kernelVars>>
    BY <1>1, <2>1, <2>2, OtherStepsKeepTheRegistry DEF kernelVars
  <2>3. CASE d \notin watchedDirs /\ Exists(d) /\ ~Spent(d) /\ Insert(d, task.tree)
    <3>1. task.tree \in Trees
      BY <1>2 DEF WatchDir, TaskIsTyped
    <3>2. held < Ceiling
      BY <2>3, RegisteredIsFinite, ConstantsAssumption
         DEF Spent, BudgetIsHonest
    <3> QED BY <1>1, <2>1, <2>3, <3>1, <3>2, InsertKeepsTheRegistry
  <2> QED BY <1>2, <2>2, <2>3 DEF WatchDir
<1>3. CASE GiveUp(d)
  <2>1. Drop(WatchesOf(task.tree)) /\ task' = NoTask
        /\ dpc' = IF task.back = "serve" THEN "refused" ELSE task.back
    BY <1>3, Zenon DEF GiveUp
  <2>2. TaskIsTyped'
    BY <2>1, WhereTasksGoBack, TaskEnded
  <2> QED BY <1>1, <2>1, <2>2, WatchesOfAreRegistered, DropKeepsTheRegistry
<1>4. CASE WatchFails(d)
  <2>1. UNCHANGED registryVars /\ marks' = marks /\ task' = NoTask
        /\ dpc' \in {"serve", "dead"}
    BY <1>4 DEF WatchFails
  <2>2. TaskIsTyped'
    BY <2>1, TaskEnded
  <2> QED BY <1>1, <2>1, <2>2, OtherStepsKeepTheRegistry
<1> QED BY <1>2, <1>3, <1>4

\* Reading events, absorbing them, and an error in a registration they began.
LEMMA DrainKeepsTheRegistry ==
    ASSUME RegistryInvariant, ListDir \/ Registration \/ ApplyEvent \/ Drained
    PROVE  RegistryInvariant'
<1> USE DEF RegistryInvariant
<1>1. node' = node /\ UNCHANGED registryVars /\ marks' = marks
  BY DEF ListDir, Registration, ApplyEvent, Drained, corpusVars, kernelVars
<1>2. TaskIsTyped'
  <2>1. CASE ListDir
    <3>1. /\ task' = [task EXCEPT !.listing = Nothing,
                          !.todo = @ \cup {c \in Children(task.listing) : Exists(c)}]
          /\ dpc' = dpc
      BY <2>1 DEF ListDir
    <3>2. task'.tree = task.tree
      BY <3>1 DEF TaskIsTyped
    <3>3. task' \in [todo : {task'.todo}, listing : {task'.listing},
                     deep : {task'.deep}, tree : Trees \cup {Nothing},
                     back : {"top", "poll", "settle", "serve"}]
      BY <3>1 DEF TaskIsTyped
    <3> QED BY <3>1, <3>2, <3>3 DEF TaskIsTyped
  <2>2. CASE Registration
    BY <2>2, WhereTasksGoBack, TaskEnded DEF Registration
  <2>3. CASE ApplyEvent
    <3>1. CASE UNCHANGED <<dpc, task>>
      BY <3>1 DEF TaskIsTyped
    <3>2. CASE /\ Head(queue).wd \in Registered
               /\ Register(byWatch[Head(queue).wd].tree, {Head(queue).dir}, TRUE, dpc)
      <4>1. byWatch[Head(queue).wd].tree \in Trees
        BY <3>2 DEF Registered, Watch
      <4>2. dpc \in {"top", "poll", "settle", "serve"}
        BY <2>3 DEF ApplyEvent, Draining
      <4> QED BY <3>2, <4>1, <4>2, TaskBegun
    <3> QED BY <2>3, <3>1, <3>2 DEF ApplyEvent
  <2>4. CASE Drained
    BY <2>4, TaskKept DEF Drained
  <2> QED BY <2>1, <2>2, <2>3, <2>4
<1> QED BY <1>1, <1>2, OtherStepsKeepTheRegistry

\* Releases, syncs, evictions and refusals of a pass (sync_watches).
LEMMA ServingKeepsTheRegistry ==
    ASSUME RegistryInvariant, NEW t \in Trees,
           Release(t) \/ SyncNothing(t) \/ SyncTree(t) \/ SyncDirs(t) \/ Evict(t)
    PROVE  RegistryInvariant'
<1> USE DEF RegistryInvariant
<1>1. node' = node
  BY Zenon DEF Release, SyncNothing, SyncTree, SyncDirs, Evict, corpusVars
<1>2. CASE Release(t)
  <2>1. Drop(WatchesOf(t)) /\ UNCHANGED daemonVars
    BY <1>2, Zenon DEF Release
  <2>2. TaskIsTyped'
    BY <2>1 DEF TaskIsTyped, daemonVars
  <2> QED BY <1>1, <2>1, <2>2, WatchesOfAreRegistered, DropKeepsTheRegistry
<1>3. CASE SyncNothing(t)
  <2>1. UNCHANGED registryVars /\ marks' = marks /\ UNCHANGED task /\ dpc' = "begin"
    BY <1>3 DEF SyncNothing, kernelVars
  <2> QED BY <1>1, <2>1, TaskKept, OtherStepsKeepTheRegistry
<1>4. CASE SyncTree(t)
  <2>1. UNCHANGED registryVars /\ marks' = marks
        /\ Register(t, {IndexRoot[t]}, TRUE, "serve")
    BY <1>4 DEF SyncTree, kernelVars
  <2> QED BY <1>1, <2>1, TaskBegun, OtherStepsKeepTheRegistry
<1>5. CASE SyncDirs(t)
  <2>1. \/ Drop(WatchesOf(t)) /\ dpc' = "refused" /\ UNCHANGED task
        \/ Drop(Stale(t)) /\ Register(t, Wanted(t), FALSE, "serve")
    BY <1>5, Zenon DEF SyncDirs
  <2>2. Stale(t) \subseteq Registered
    BY WatchesOfAreRegistered DEF Stale
  <2>3. TaskIsTyped'
    BY <2>1, TaskKept, TaskBegun
  <2> QED BY <1>1, <2>1, <2>2, <2>3, WatchesOfAreRegistered, DropKeepsTheRegistry
<1>6. CASE Evict(t)
  <2>1. Drop(WatchesOf(t)) /\ UNCHANGED task /\ dpc' = "again"
    BY <1>6, Zenon DEF Evict
  <2> QED
    BY <1>1, <2>1, TaskKept, WatchesOfAreRegistered, DropKeepsTheRegistry
<1> QED BY <1>2, <1>3, <1>4, <1>5, <1>6

\* The steps of a pass that decide about a rebuild leave the registry alone.
LEMMA PassKeepsTheRegistry ==
    ASSUME RegistryInvariant,
           Refuse \/ NoRefresh \/ BeginBuild \/ Reap \/ Commit \/ PassEnds
    PROVE  RegistryInvariant'
<1>1. /\ node' = node /\ UNCHANGED registryVars /\ marks' = marks
      /\ UNCHANGED task /\ dpc' # "register"
  BY DEF Refuse, NoRefresh, BeginBuild, Reap, Commit, PassEnds, corpusVars,
         kernelVars
<1> QED BY <1>1, TaskKept, OtherStepsKeepTheRegistry DEF RegistryInvariant

\* A new daemon starts from an empty registry.
LEMMA RestartKeepsTheRegistry ==
    ASSUME RegistryInvariant, Restart
    PROVE  RegistryInvariant'
<1>1. /\ byWatch' = [wd \in Nodes |-> NoWatch] /\ watchedDirs' = {}
      /\ held' = 0 /\ marks' = {} /\ task' = NoTask /\ dpc' = "top"
      /\ node' = node
  BY DEF Restart, corpusVars
<1>2. Registered' = {}
  BY <1>1 DEF Registered
<1>3. BudgetIsHonest'
  BY <1>1, <1>2, FS_EmptySet, ConstantsAssumption DEF BudgetIsHonest
<1>4. MarksAreRegistered'
  BY <1>1 DEF MarksAreRegistered
<1> QED BY <1>1, <1>3, <1>4, TaskEnded DEF RegistryInvariant

\* A rebuild is another process: it reads the corpus and writes files only.
LEMMA BuildKeepsTheRegistry ==
    ASSUME RegistryInvariant, BuildStep
    PROVE  RegistryInvariant'
<1>1. /\ node' = node /\ UNCHANGED registryVars /\ marks' = marks
      /\ UNCHANGED <<task, dpc>>
  BY DEF BuildStep, Visit, SwapIn, WriteWatchDirs, BuildFails, corpusVars,
         kernelVars, daemonVars
<1>2. TaskIsTyped'
  BY <1>1 DEF RegistryInvariant, TaskIsTyped
<1> QED BY <1>1, <1>2, OtherStepsKeepTheRegistry DEF RegistryInvariant

\* Every step of the daemon, the corpus and a rebuild keeps the registry's
\* invariant.
THEOREM RegistryStep == RegistryInvariant /\ [Next]_vars => RegistryInvariant'
<1> SUFFICES ASSUME RegistryInvariant, [Next]_vars PROVE RegistryInvariant'
  OBVIOUS
<1>1. CASE Corpus
  BY <1>1, CorpusKeepsTheRegistry
<1>2. CASE DaemonStep
  <2>1. CASE \E d \in Dirs : WatchDir(d) \/ GiveUp(d) \/ WatchFails(d)
    BY <2>1, RegistrationKeepsTheRegistry
  <2>2. CASE ListDir \/ Registration \/ ApplyEvent \/ Drained
    BY <2>2, DrainKeepsTheRegistry
  <2>3. CASE \E t \in Trees : Release(t) \/ SyncNothing(t) \/ SyncTree(t)
                              \/ SyncDirs(t) \/ Evict(t)
    BY <2>3, ServingKeepsTheRegistry
  <2>4. CASE Refuse \/ NoRefresh \/ BeginBuild \/ Reap \/ Commit \/ PassEnds
    BY <2>4, PassKeepsTheRegistry
  <2> QED BY <1>2, <2>1, <2>2, <2>3, <2>4 DEF DaemonStep
<1>3. CASE Restart
  BY <1>3, RestartKeepsTheRegistry
<1>4. CASE BuildStep
  BY <1>4, BuildKeepsTheRegistry
<1>5. CASE UNCHANGED vars
  <2>1. /\ node' = node /\ UNCHANGED registryVars /\ marks' = marks
        /\ UNCHANGED <<task, dpc>>
    BY <1>5 DEF vars, corpusVars, kernelVars, daemonVars
  <2>2. TaskIsTyped'
    BY <2>1 DEF RegistryInvariant, TaskIsTyped
  <2> QED BY <2>1, <2>2, OtherStepsKeepTheRegistry DEF RegistryInvariant
<1> QED BY <1>1, <1>2, <1>3, <1>4, <1>5 DEF Next

\* The registry, the budget and the kernel's marks agree in every behaviour.
THEOREM RegistryHolds == Spec => []RegistryInvariant
BY RegistryInit, RegistryStep, PTL DEF Spec

\* The budget counts the watches registered, never more than its ceiling, and
\* the two tables of the registry name the same directories (WatchRegistry,
\* WatchBudget): for every tree layout and ceiling.
THEOREM BudgetStaysHonest == Spec => []BudgetIsHonest
<1>1. RegistryInvariant => BudgetIsHonest
  BY DEF RegistryInvariant
<1> QED BY <1>1, RegistryHolds, PTL

\* No watch outlives its registration (Watcher::drop_watch).
THEOREM NoWatchLeaks == Spec => []MarksAreRegistered
<1>1. RegistryInvariant => MarksAreRegistered
  BY DEF RegistryInvariant
<1> QED BY <1>1, RegistryHolds, PTL

-----------------------------------------------------------------------------
(***************************************************************************)
(* Types.                                                                  *)
(***************************************************************************)

\* An event of something made names a directory: a registration starts there.
NamedEvents == {e \in Events : e.kind = "made" => e.dir \in Dirs}

Places == {"top", "poll", "settle", "register", "serve", "again", "refused",
           "begin", "commit", "dead"}

CorpusTyped == disk \in [Dirs -> Versions \cup {Nothing}] /\ files \subseteq Dirs

QueueTyped == queue \in Seq(NamedEvents)

FilesTyped ==
    /\ listed \in [Trees -> SUBSET Dirs]
    /\ synced \in [Trees -> BOOLEAN]
    /\ ready \in [Trees -> BOOLEAN]

DirtTyped ==
    /\ sincePublish \in [Trees -> Change]
    /\ sinceWalk \in [Trees -> Change]
    /\ drained \in [Trees -> Change]

DaemonTyped == dpc \in Places /\ cur \in Trees /\ task \in Tasks

BuildTyped ==
    /\ build \in Builds
    /\ index \in [Trees -> [Dirs -> Versions \cup {Nothing}]]

TypeInvariant ==
    /\ RegistryInvariant
    /\ CorpusTyped /\ QueueTyped /\ FilesTyped /\ DirtTyped /\ DaemonTyped
    /\ BuildTyped

\* Changed::absorb of two change sets is one.
LEMMA AbsorbIsAChange ==
    ASSUME NEW c \in Change, NEW m \in Change
    PROVE  Absorb(c, m) \in Change
BY ConstantsAssumption DEF Absorb, Change, Unbounded

\* The kernel queues events of the kinds there are.
LEMMA QueuedIsTyped ==
    ASSUME NEW q \in Seq(NamedEvents), NEW wd \in Nodes \cup {Nothing},
           NEW kind \in Kinds, NEW d \in Dirs \cup {Nothing},
           kind = "made" => d \in Dirs
    PROVE  Queued(q, wd, kind, d) \in Seq(NamedEvents)
<1> DEFINE e == [wd |-> wd, kind |-> kind, dir |-> d]
<1>1. e \in NamedEvents
  BY DEF NamedEvents, Events
<1>2. Overflow \in NamedEvents
  BY DEF NamedEvents, Events, Overflow, Kinds
<1>3. Queued(q, wd, kind, d) \in {q, Append(q, e), Append(q, Overflow)}
  BY Zenon DEF Queued
<1> HIDE DEF e
<1> QED BY <1>1, <1>2, <1>3

\* Giving descriptors up leaves a queue of events behind.
LEMMA DisownedIsTyped ==
    ASSUME NEW q \in Seq(NamedEvents), NEW wds
    PROVE  Disowned(q, wds) \in Seq(NamedEvents)
<1>1. Stray \in NamedEvents
  BY DEF NamedEvents, Events, Stray, Kinds
<1>2. Disowned(q, wds) \in [1 .. Len(q) -> NamedEvents]
  BY <1>1 DEF Disowned
<1> QED BY <1>2

\* What a directory's identity and a path it is in are.
LEMMA NodesAreTyped ==
    ASSUME TypeInvariant, NEW d \in Dirs
    PROVE  /\ node[d] \in Nodes \cup {Nothing}
           /\ Parent[d] \in Dirs
BY ConstantsAssumption DEF TypeInvariant, RegistryInvariant

LEMMA TypesInit == Init => TypeInvariant
<1> SUFFICES ASSUME Init PROVE TypeInvariant
  OBVIOUS
<1>1. CorpusTyped /\ QueueTyped /\ FilesTyped
  BY DEF Init, CorpusTyped, QueueTyped, FilesTyped
<1>2. DirtTyped
  BY DEF Init, DirtTyped, NoDrain, Change, Unbounded
<1>3. DaemonTyped
  BY DEF Init, DaemonTyped, Places, Tasks, NoTask
<1>4. BuildTyped
  BY DEF Init, BuildTyped, Builds, NoBuild, Absent
<1> QED BY <1>1, <1>2, <1>3, <1>4, RegistryInit DEF TypeInvariant

\* The corpus changes the disk, and the kernel queues what it is told.
LEMMA CorpusKeepsTypes ==
    ASSUME TypeInvariant, Corpus
    PROVE  TypeInvariant'
<1>1. UNCHANGED <<fileVars, dirtVars, daemonVars, buildVars>>
  BY Zenon DEF Corpus, WriteFile, MakeDir, RemoveDir, MoveDir, ToggleFile
<1>2. FilesTyped' /\ DirtTyped' /\ DaemonTyped' /\ BuildTyped'
  BY <1>1 DEF TypeInvariant, FilesTyped, DirtTyped, DaemonTyped, BuildTyped,
              fileVars, dirtVars, daemonVars, buildVars
<1>3. CorpusTyped'
  <2> USE DEF TypeInvariant, CorpusTyped
  <2>1. ASSUME NEW d \in Dirs, WriteFile(d) \/ MakeDir(d) \/ RemoveDir(d)
        PROVE  CorpusTyped'
    BY <2>1 DEF WriteFile, MakeDir, RemoveDir
  <2>2. ASSUME NEW d \in Dirs, ToggleFile(d) PROVE CorpusTyped'
    BY <2>2 DEF ToggleFile
  <2>3. ASSUME NEW d \in Dirs, NEW e \in Dirs, MoveDir(d, e) PROVE CorpusTyped'
    BY <2>3 DEF MoveDir
  <2> QED BY <2>1, <2>2, <2>3 DEF Corpus
<1>4. QueueTyped'
  <2> USE DEF Kinds
  <2>1. queue \in Seq(NamedEvents)
    BY DEF TypeInvariant, QueueTyped
  <2>2. ASSUME NEW d \in Dirs, WriteFile(d) PROVE QueueTyped'
    BY <2>1, <2>2, NodesAreTyped, QueuedIsTyped DEF WriteFile, QueueTyped
  <2>3. ASSUME NEW d \in Dirs, MakeDir(d) PROVE QueueTyped'
    BY <2>1, <2>3, NodesAreTyped, QueuedIsTyped DEF MakeDir, QueueTyped
  <2>4. ASSUME NEW d \in Dirs, RemoveDir(d) PROVE QueueTyped'
    <3>1. Queued(queue, node[Parent[d]], "gone", d) \in Seq(NamedEvents)
      BY <2>1, NodesAreTyped, QueuedIsTyped
    <3> QED BY <2>4, <3>1, NodesAreTyped, QueuedIsTyped DEF RemoveDir, QueueTyped
  <2>5. ASSUME NEW d \in Dirs, ToggleFile(d) PROVE QueueTyped'
    BY <2>1, <2>5, NodesAreTyped, QueuedIsTyped DEF ToggleFile, QueueTyped
  <2>6. ASSUME NEW d \in Dirs, NEW e \in Dirs, MoveDir(d, e) PROVE QueueTyped'
    <3> DEFINE q1 == Queued(queue, node[Parent[d]], "gone", d)
               q2 == Queued(q1, node[Parent[e]], "made", e)
    <3>1. q1 \in Seq(NamedEvents)
      BY <2>1, NodesAreTyped, QueuedIsTyped
    <3>2. q2 \in Seq(NamedEvents)
      <4> HIDE DEF q1
      <4> QED BY <3>1, NodesAreTyped, QueuedIsTyped
    <3>3. queue' = Queued(q2, node[d], "self", Nothing)
      BY <2>6, Zenon DEF MoveDir
    <3> HIDE DEF q2
    <3> QED BY <3>2, <3>3, NodesAreTyped, QueuedIsTyped DEF QueueTyped
  <2> QED BY <2>2, <2>3, <2>4, <2>5, <2>6 DEF Corpus
<1> QED BY <1>2, <1>3, <1>4, CorpusKeepsTheRegistry DEF TypeInvariant

\* A build is one that can be, whatever field of it a step sets.
LEMMA BuildsAreTyped ==
    ASSUME NEW b \in Builds
    PROVE  /\ b.phase \in {"none", "walking", "published", "succeeded", "failed"}
           /\ b.tree \in Trees \cup {Nothing} /\ b.child \in BOOLEAN
           /\ b.found \in SUBSET Dirs /\ b.seen \in SUBSET Dirs
           /\ b.got \in [Dirs -> Versions \cup {Nothing}]
BY DEF Builds

LEMMA NoBuildIsABuild == NoBuild \in Builds
BY DEF NoBuild, Builds, Absent

LEMMA BuildStepKeepsTypes ==
    ASSUME TypeInvariant, BuildStep
    PROVE  TypeInvariant'
<1>1. UNCHANGED <<corpusVars, kernelVars, dirtVars, daemonVars>>
  BY Zenon DEF BuildStep, Visit, SwapIn, WriteWatchDirs, BuildFails
<1>2. CorpusTyped' /\ QueueTyped' /\ DirtTyped' /\ DaemonTyped'
  BY <1>1 DEF TypeInvariant, CorpusTyped, QueueTyped, DirtTyped, DaemonTyped,
              corpusVars, kernelVars, dirtVars, daemonVars
<1>3. build \in Builds /\ FilesTyped
      /\ index \in [Trees -> [Dirs -> Versions \cup {Nothing}]]
  BY DEF TypeInvariant, BuildTyped
<1>4. NoBuild \in Builds
  BY NoBuildIsABuild
<1>5. CASE \E d \in Dirs : Visit(d)
  <2>1. PICK d \in Dirs : Visit(d)
    BY <1>5
  <2>2. build' = [build EXCEPT
                    !.found = (@ \ {d}) \cup {c \in Children(d) : Exists(c)},
                    !.seen = IF Exists(d) THEN @ \cup {d} ELSE @,
                    !.got[d] = disk[d]]
    BY <2>1 DEF Visit
  <2>3. disk[d] \in Versions \cup {Nothing}
    BY DEF TypeInvariant, CorpusTyped
  <2>4. /\ (build.found \ {d}) \cup {c \in Children(d) : Exists(c)} \in SUBSET Dirs
        /\ (IF Exists(d) THEN build.seen \cup {d} ELSE build.seen) \in SUBSET Dirs
        /\ [build.got EXCEPT ![d] = disk[d]] \in [Dirs -> Versions \cup {Nothing}]
    BY <1>3, <2>3, BuildsAreTyped DEF Children
  <2>5. build' \in Builds
    BY <1>3, <2>2, <2>4, BuildsAreTyped DEF Builds
  <2>6. UNCHANGED <<fileVars, index>>
    BY <2>1 DEF Visit
  <2> QED
    BY <1>2, <1>3, <2>5, <2>6, BuildKeepsTheRegistry
       DEF TypeInvariant, BuildTyped, FilesTyped, fileVars
<1>6. CASE SwapIn
  <2>1. build' = [build EXCEPT !.phase = "published"]
        /\ index' = [index EXCEPT ![build.tree] = build.got] /\ UNCHANGED fileVars
    BY <1>6 DEF SwapIn
  <2>2. build' \in Builds
    BY <1>3, <2>1 DEF Builds
  <2>3. index' \in [Trees -> [Dirs -> Versions \cup {Nothing}]]
    BY <1>3, <2>1, BuildsAreTyped
  <2> QED
    BY <1>2, <1>3, <2>1, <2>2, <2>3, BuildKeepsTheRegistry
       DEF TypeInvariant, BuildTyped, FilesTyped, fileVars
<1>7. CASE WriteWatchDirs
  <2>1. /\ listed' = [listed EXCEPT ![build.tree] = build.seen]
        /\ synced' = [synced EXCEPT ![build.tree] = FALSE]
        /\ UNCHANGED <<ready, index>>
    BY <1>7 DEF WriteWatchDirs
  <2>2. build' \in {[build EXCEPT !.phase = "succeeded"], NoBuild}
    BY <1>7 DEF WriteWatchDirs
  <2>3. build' \in Builds
    BY <1>3, <1>4, <2>2 DEF Builds
  <2>4. FilesTyped'
    BY <1>3, <2>1, BuildsAreTyped DEF FilesTyped
  <2> QED
    BY <1>2, <1>3, <2>1, <2>3, <2>4, BuildKeepsTheRegistry
       DEF TypeInvariant, BuildTyped
<1>8. CASE BuildFails
  <2>1. build' \in {[build EXCEPT !.phase = "failed"], NoBuild}
        /\ UNCHANGED <<fileVars, index>>
    BY <1>8 DEF BuildFails
  <2>2. build' \in Builds
    BY <1>3, <1>4, <2>1 DEF Builds
  <2> QED
    BY <1>2, <1>3, <2>1, <2>2, BuildKeepsTheRegistry
       DEF TypeInvariant, BuildTyped, FilesTyped, fileVars
<1> QED BY <1>5, <1>6, <1>7, <1>8 DEF BuildStep

\* The daemon writes neither the corpus nor an index, and of a build only
\* whose child it is.
LEMMA DaemonLeavesTheRest ==
    ASSUME DaemonStep
    PROVE  UNCHANGED <<corpusVars, listed, index>>
BY Zenon DEF DaemonStep, WatchDir, GiveUp, WatchFails, ListDir, Registration,
       ApplyEvent, Drained, Release, SyncNothing, SyncTree, SyncDirs, Evict,
       Refuse, NoRefresh, BeginBuild, Reap, Commit, PassEnds, buildVars, fileVars

\* Drop and Insert leave a queue of events.
LEMMA DropKeepsTheQueue ==
    ASSUME QueueTyped, NEW wds, Drop(wds)
    PROVE  QueueTyped'
BY DisownedIsTyped DEF Drop, QueueTyped

\* A task is one that can be.
LEMMA TasksAreTyped ==
    ASSUME NEW k \in Tasks
    PROVE  /\ k.todo \in SUBSET Dirs /\ k.listing \in Dirs \cup {Nothing}
           /\ k.deep \in BOOLEAN /\ k.tree \in Trees \cup {Nothing}
           /\ k.back \in {"top", "poll", "settle", "serve"}
BY DEF Tasks

LEMMA NoTaskIsATask == NoTask \in Tasks
BY DEF Tasks, NoTask

LEMMA NoDrainIsTyped == NoDrain \in [Trees -> Change]
BY DEF NoDrain, Change

\* watch_one_dir of every kind.
LEMMA WatchingKeepsTypes ==
    ASSUME TypeInvariant, NEW d \in Dirs,
           WatchDir(d) \/ GiveUp(d) \/ WatchFails(d)
    PROVE  TypeInvariant'
<1>1. RegistryInvariant' /\ CorpusTyped'
  <2>1. UNCHANGED corpusVars
    BY Zenon DEF WatchDir, GiveUp, WatchFails
  <2> QED
    BY <2>1, RegistrationKeepsTheRegistry DEF TypeInvariant, CorpusTyped, corpusVars
<1>2. QueueTyped /\ FilesTyped /\ DirtTyped /\ DaemonTyped /\ BuildTyped
  BY DEF TypeInvariant
<1>3. CASE WatchDir(d)
  <2>1. UNCHANGED <<fileVars, dirtVars, dpc, cur, buildVars, queue>>
    BY <1>3, Zenon DEF WatchDir, Insert, kernelVars
  <2>2. task' = [task EXCEPT !.todo = @ \ {d},
                            !.listing = IF task.deep THEN d ELSE Nothing]
    BY <1>3, Zenon DEF WatchDir
  <2>3. task' \in Tasks
    BY <1>2, <2>2 DEF Tasks, DaemonTyped
  <2> QED
    BY <1>1, <1>2, <2>1, <2>3
       DEF TypeInvariant, QueueTyped, FilesTyped, DirtTyped, DaemonTyped,
           BuildTyped, fileVars, dirtVars, buildVars
<1>4. CASE GiveUp(d)
  <2>1. UNCHANGED <<fileVars, dirtVars, cur, buildVars>> /\ task' = NoTask
        /\ dpc' \in {"refused", task.back} /\ Drop(WatchesOf(task.tree))
    BY <1>4, Zenon DEF GiveUp
  <2>2. dpc' \in Places
    BY <1>2, <2>1, TasksAreTyped DEF DaemonTyped, Places
  <2> QED
    BY <1>1, <1>2, <2>1, <2>2, NoTaskIsATask, DropKeepsTheQueue
       DEF TypeInvariant, FilesTyped, DirtTyped, DaemonTyped, BuildTyped,
           fileVars, dirtVars, buildVars
<1>5. CASE WatchFails(d)
  <2>1. /\ dpc' \in {"serve", "dead"} /\ task' = NoTask
        /\ UNCHANGED <<cur, listed, sincePublish, sinceWalk, index>>
        /\ synced' \in {synced, [synced EXCEPT ![cur] = FALSE]}
        /\ ready' \in {ready, [t \in Trees |-> FALSE]}
        /\ drained' \in {drained, NoDrain}
        /\ build' \in {build, NoBuild, [build EXCEPT !.child = FALSE]}
    BY <1>5, Zenon DEF WatchFails
  <2>2. QueueTyped'
    <3>1. queue' = queue \/ \E n \in 0 .. Len(queue) : queue' = SubSeq(queue, n + 1, Len(queue))
      BY <1>5, Zenon DEF WatchFails
    <3>2. ASSUME NEW n \in 0 .. Len(queue)
          PROVE  SubSeq(queue, n + 1, Len(queue)) \in Seq(NamedEvents)
      BY <1>2 DEF QueueTyped
    <3> QED BY <1>2, <3>1, <3>2 DEF QueueTyped
  <2>3. FilesTyped'
    BY <1>2, <2>1 DEF FilesTyped
  <2>4. DirtTyped'
    BY <1>2, <2>1, NoDrainIsTyped DEF DirtTyped
  <2>5. DaemonTyped'
    BY <1>2, <2>1, NoTaskIsATask DEF DaemonTyped, Places
  <2>6. BuildTyped'
    <3>1. [build EXCEPT !.child = FALSE] \in Builds
      BY <1>2 DEF BuildTyped, Builds
    <3> QED BY <1>2, <2>1, <3>1, NoBuildIsABuild DEF BuildTyped
  <2> QED BY <1>1, <2>2, <2>3, <2>4, <2>5, <2>6 DEF TypeInvariant
<1> QED BY <1>3, <1>4, <1>5

\* The events read, and the registrations they begin and end.
LEMMA DrainKeepsTypes ==
    ASSUME TypeInvariant, ListDir \/ Registration \/ ApplyEvent \/ Drained
    PROVE  TypeInvariant'
<1>1. RegistryInvariant' /\ CorpusTyped'
  <2>1. UNCHANGED corpusVars
    BY Zenon DEF ListDir, Registration, ApplyEvent, Drained
  <2> QED
    BY <2>1, DrainKeepsTheRegistry DEF TypeInvariant, CorpusTyped, corpusVars
<1>2. QueueTyped /\ FilesTyped /\ DirtTyped /\ DaemonTyped /\ BuildTyped
      /\ RegistryInvariant
  BY DEF TypeInvariant
<1>3. CASE ListDir
  <2>1. UNCHANGED <<kernelVars, fileVars, dirtVars, dpc, cur, buildVars>>
    BY <1>3 DEF ListDir
  <2>2. task' = [task EXCEPT !.listing = Nothing,
                            !.todo = @ \cup {c \in Children(task.listing) : Exists(c)}]
    BY <1>3 DEF ListDir
  <2>3. {c \in Children(task.listing) : Exists(c)} \subseteq Dirs
    BY DEF Children
  <2>4. task' \in Tasks
    BY <1>2, <2>2, <2>3 DEF Tasks, DaemonTyped
  <2> QED
    BY <1>1, <1>2, <2>1, <2>4
       DEF TypeInvariant, QueueTyped, FilesTyped, DirtTyped, DaemonTyped,
           BuildTyped, kernelVars, fileVars, dirtVars, buildVars
<1>4. CASE Registration
  <2>1. UNCHANGED <<kernelVars, listed, synced, dirtVars, cur, buildVars>>
        /\ task' = NoTask /\ dpc' \in {"begin", task.back}
        /\ ready' \in {ready, [ready EXCEPT ![cur] = TRUE]}
    BY <1>4 DEF Registration
  <2>2. dpc' \in Places
    BY <1>2, <2>1, TasksAreTyped DEF DaemonTyped, Places
  <2> QED
    BY <1>1, <1>2, <2>1, <2>2, NoTaskIsATask
       DEF TypeInvariant, QueueTyped, FilesTyped, DirtTyped, DaemonTyped,
           BuildTyped, kernelVars, dirtVars, buildVars
<1>5. CASE ApplyEvent
  <2> DEFINE e == Head(queue)
  <2>1. e \in NamedEvents
    BY <1>2, <1>5 DEF ApplyEvent, QueueTyped
  <2>2. QueueTyped'
    BY <1>2, <1>5 DEF ApplyEvent, QueueTyped
  <2>3. Reports(e) \in [Trees -> Change]
    <3>1. ASSUME NEW t \in Trees, e.wd \in WatchesOf(t)
          PROVE  byWatch[e.wd].dir \in Dirs
      BY <1>2, <3>1 DEF RegistryInvariant, WatchesOf, Registered, Watch
    <3> HIDE DEF e
    <3>2. ASSUME NEW t \in Trees PROVE Reports(e)[t] \in Change
      <4>1. /\ {} \in Change /\ Unbounded \in Change
            /\ \A c \in Dirs : {c} \in Change
        BY DEF Change
      <4>2. Reports(e)[t] \in {Unbounded, {}}
            \/ (e.wd \in WatchesOf(t) /\ Reports(e)[t] = {byWatch[e.wd].dir})
        BY DEF Reports
      <4> QED BY <3>1, <4>1, <4>2
    <3> QED BY <3>2 DEF Reports
  <2>4. DirtTyped'
    <3>1. drained' = [t \in Trees |-> Absorb(drained[t], Reports(e)[t])]
          /\ UNCHANGED <<sincePublish, sinceWalk>>
      BY <1>5, Zenon DEF ApplyEvent
    <3> HIDE DEF e
    <3>2. \A t \in Trees : drained[t] \in Change /\ Reports(e)[t] \in Change
      BY <1>2, <2>3 DEF DirtTyped
    <3> QED BY <1>2, <3>1, <3>2, AbsorbIsAChange DEF DirtTyped
  <2>5. DaemonTyped'
    <3>1. cur' = cur
      BY <1>5 DEF ApplyEvent
    <3>2. CASE UNCHANGED <<dpc, task>>
      BY <1>2, <3>1, <3>2 DEF DaemonTyped
    <3>3. CASE /\ e.kind = "made" /\ e.wd \in Registered
               /\ Register(byWatch[e.wd].tree, {e.dir}, TRUE, dpc)
      <4>1. byWatch[e.wd].tree \in Trees
        BY <1>2, <3>3 DEF RegistryInvariant, Registered, Watch
      <4>2. e.dir \in Dirs
        BY <2>1, <3>3 DEF NamedEvents
      <4>3. dpc \in {"top", "poll", "settle"}
        BY <1>5 DEF ApplyEvent, Draining
      <4> HIDE DEF e
      <4>4. task' \in Tasks /\ dpc' = "register"
        BY <3>3, <4>1, <4>2, <4>3 DEF Register, Tasks
      <4> QED BY <1>2, <3>1, <4>4 DEF DaemonTyped, Places
    <3> QED BY <1>5, <3>2, <3>3 DEF ApplyEvent
  <2>6. UNCHANGED <<fileVars, buildVars>>
    BY <1>5 DEF ApplyEvent
  <2> QED
    BY <1>1, <1>2, <2>2, <2>4, <2>5, <2>6
       DEF TypeInvariant, FilesTyped, BuildTyped, fileVars, buildVars
<1>6. CASE Drained
  <2>1. UNCHANGED <<kernelVars, fileVars, cur, task, buildVars>>
        /\ dpc' \in {"serve", "commit", "poll"} /\ AbsorbDrained
    BY <1>6 DEF Drained
  <2>2. DirtTyped'
    BY <1>2, <2>1, AbsorbIsAChange, NoDrainIsTyped DEF AbsorbDrained, DirtTyped
  <2> QED
    BY <1>1, <1>2, <2>1, <2>2
       DEF TypeInvariant, QueueTyped, FilesTyped, DaemonTyped, Places,
           BuildTyped, kernelVars, fileVars, buildVars
<1> QED BY <1>3, <1>4, <1>5, <1>6

\* What a tree that is released or evicted leaves: no watch and no change set.
LEMMA LeavingKeepsTypes ==
    ASSUME TypeInvariant, NEW t \in Trees, Release(t) \/ Evict(t)
    PROVE  TypeInvariant'
<1>1. RegistryInvariant' /\ CorpusTyped'
  <2>1. UNCHANGED corpusVars
    BY Zenon DEF Release, Evict
  <2> QED
    BY <2>1, ServingKeepsTheRegistry DEF TypeInvariant, CorpusTyped, corpusVars
<1>2. QueueTyped /\ FilesTyped /\ DirtTyped /\ DaemonTyped /\ BuildTyped
  BY DEF TypeInvariant
<1>3. /\ Drop(WatchesOf(t))
      /\ synced' = [synced EXCEPT ![t] = FALSE]
      /\ ready' = [ready EXCEPT ![t] = FALSE]
      /\ sincePublish' = [sincePublish EXCEPT ![t] = Unbounded]
      /\ sinceWalk' = [sinceWalk EXCEPT ![t] = {}]
      /\ UNCHANGED <<listed, drained, cur, task, buildVars>>
      /\ dpc' \in {dpc, "again"}
  BY Zenon DEF Release, Evict, daemonVars
<1>4. FilesTyped' /\ QueueTyped'
  BY <1>2, <1>3, DropKeepsTheQueue DEF FilesTyped
<1>5. DirtTyped'
  <2>1. {} \in Change /\ Unbounded \in Change
    BY DEF Change
  <2> QED BY <1>2, <1>3, <2>1 DEF DirtTyped
<1>6. DaemonTyped' /\ BuildTyped'
  BY <1>2, <1>3 DEF DaemonTyped, Places, BuildTyped, buildVars
<1> QED BY <1>1, <1>4, <1>5, <1>6 DEF TypeInvariant

\* What sync_watches does for a tree.
LEMMA SyncingKeepsTypes ==
    ASSUME TypeInvariant, NEW t \in Trees,
           SyncNothing(t) \/ SyncTree(t) \/ SyncDirs(t)
    PROVE  TypeInvariant'
<1>1. RegistryInvariant' /\ CorpusTyped'
  <2>1. UNCHANGED corpusVars
    BY Zenon DEF SyncNothing, SyncTree, SyncDirs
  <2> QED
    BY <2>1, ServingKeepsTheRegistry DEF TypeInvariant, CorpusTyped, corpusVars
<1>2. QueueTyped /\ FilesTyped /\ DirtTyped /\ DaemonTyped /\ BuildTyped
  BY DEF TypeInvariant
<1>3. UNCHANGED <<listed, dirtVars, buildVars>> /\ cur' = t
  BY Zenon DEF SyncNothing, SyncTree, SyncDirs, fileVars
<1>4. FilesTyped'
  <2>1. /\ synced' \in {synced, [synced EXCEPT ![t] = TRUE]}
        /\ ready' \in {ready, [ready EXCEPT ![t] = TRUE]}
    BY Zenon DEF SyncNothing, SyncTree, SyncDirs, fileVars
  <2> QED BY <1>2, <1>3, <2>1 DEF FilesTyped
<1>5. QueueTyped'
  <2>1. UNCHANGED kernelVars \/ Drop(WatchesOf(t)) \/ Drop(Stale(t))
    BY Zenon DEF SyncNothing, SyncTree, SyncDirs
  <2> QED BY <1>2, <2>1, DropKeepsTheQueue DEF kernelVars, QueueTyped
<1>6. DaemonTyped'
  <2>1. \/ UNCHANGED task /\ dpc' \in {"begin", "refused"}
        \/ Register(t, {IndexRoot[t]}, TRUE, "serve")
        \/ Register(t, Wanted(t), FALSE, "serve")
    BY Zenon DEF SyncNothing, SyncTree, SyncDirs
  <2>2. IndexRoot[t] \in Dirs /\ Wanted(t) \subseteq Dirs
    BY <1>2, ConstantsAssumption DEF Wanted, FilesTyped
  <2>3. CASE UNCHANGED task /\ dpc' \in {"begin", "refused"}
    BY <1>2, <1>3, <2>3 DEF DaemonTyped, Places
  <2>4. ASSUME NEW dirs \in SUBSET Dirs, NEW deep \in BOOLEAN,
               Register(t, dirs, deep, "serve")
        PROVE  DaemonTyped'
    BY <1>3, <2>4 DEF Register, DaemonTyped, Places, Tasks
  <2> QED BY <2>1, <2>2, <2>3, <2>4
<1> QED
  BY <1>1, <1>2, <1>3, <1>4, <1>5, <1>6
     DEF TypeInvariant, DirtTyped, BuildTyped, dirtVars, buildVars

\* The rest of a pass.
LEMMA PassKeepsTypes ==
    ASSUME TypeInvariant,
           Refuse \/ NoRefresh \/ BeginBuild \/ Reap \/ Commit \/ PassEnds
    PROVE  TypeInvariant'
<1>1. /\ UNCHANGED <<corpusVars, kernelVars, listed, cur, task, drained, index>>
      /\ dpc' \in {"serve", "poll", "settle", "top"}
  BY Zenon DEF Refuse, NoRefresh, BeginBuild, Reap, Commit, PassEnds, fileVars,
               dirtVars, buildVars
<1>2. QueueTyped /\ FilesTyped /\ DirtTyped /\ DaemonTyped /\ BuildTyped
      /\ CorpusTyped
  BY DEF TypeInvariant
<1>3. CorpusTyped' /\ QueueTyped' /\ DaemonTyped'
  BY <1>1, <1>2 DEF CorpusTyped, QueueTyped, DaemonTyped, Places, corpusVars,
                    kernelVars
<1>4. FilesTyped'
  <2>1. /\ synced' \in {synced, [synced EXCEPT ![cur] = FALSE]}
        /\ ready' \in {ready, [ready EXCEPT ![cur] = FALSE]}
    BY Zenon DEF Refuse, NoRefresh, BeginBuild, Reap, Commit, PassEnds, fileVars
  <2> QED BY <1>1, <1>2, <2>1 DEF FilesTyped
<1>5. DirtTyped'
  <2>1. /\ sincePublish' \in {sincePublish, [sincePublish EXCEPT ![cur] = sinceWalk[cur]]}
        /\ sinceWalk' \in {sinceWalk, [sinceWalk EXCEPT ![cur] = {}]}
    BY Zenon DEF Refuse, NoRefresh, BeginBuild, Reap, Commit, PassEnds, dirtVars
  <2>2. {} \in Change
    BY DEF Change
  <2>3. cur \in Trees /\ sinceWalk[cur] \in Change
    BY <1>2 DEF DirtTyped, DaemonTyped
  <2> QED BY <1>1, <1>2, <2>1, <2>2, <2>3 DEF DirtTyped
<1>6. BuildTyped'
  <2>1. build' \in {build, NoBuild,
                    [NoBuild EXCEPT !.phase = "walking", !.tree = cur,
                                    !.child = TRUE, !.found = {IndexRoot[cur]}]}
    BY Zenon DEF Refuse, NoRefresh, BeginBuild, Reap, Commit, PassEnds, buildVars
  <2>2. cur \in Trees /\ IndexRoot[cur] \in Dirs
    BY <1>2, ConstantsAssumption DEF DaemonTyped
  <2>3. [NoBuild EXCEPT !.phase = "walking", !.tree = cur, !.child = TRUE,
                        !.found = {IndexRoot[cur]}] \in Builds
    BY <2>2, NoBuildIsABuild DEF Builds
  <2> QED BY <1>1, <1>2, <2>1, <2>3, NoBuildIsABuild DEF BuildTyped
<1> QED
  BY <1>3, <1>4, <1>5, <1>6, PassKeepsTheRegistry DEF TypeInvariant

\* A new daemon starts like the first one.
LEMMA RestartKeepsTypes ==
    ASSUME TypeInvariant, Restart
    PROVE  TypeInvariant'
<1>1. CorpusTyped' /\ QueueTyped' /\ FilesTyped'
  BY DEF Restart, TypeInvariant, CorpusTyped, QueueTyped, FilesTyped, corpusVars
<1>2. DirtTyped'
  <2>1. Unbounded \in Change
    BY DEF Change
  <2>2. /\ sincePublish' = [t \in Trees |-> Unbounded]
        /\ sinceWalk' = NoDrain /\ drained' = NoDrain
    BY Zenon DEF Restart
  <2> QED BY <2>1, <2>2, NoDrainIsTyped DEF DirtTyped
<1>3. DaemonTyped' /\ BuildTyped'
  BY NoTaskIsATask, NoBuildIsABuild
     DEF Restart, TypeInvariant, DaemonTyped, Places, BuildTyped
<1> QED
  BY <1>1, <1>2, <1>3, RestartKeepsTheRegistry DEF TypeInvariant

LEMMA TypesStep == TypeInvariant /\ [Next]_vars => TypeInvariant'
<1> SUFFICES ASSUME TypeInvariant, [Next]_vars PROVE TypeInvariant'
  OBVIOUS
<1>1. CASE Corpus
  BY <1>1, CorpusKeepsTypes
<1>2. CASE DaemonStep
  BY <1>2, WatchingKeepsTypes, DrainKeepsTypes, LeavingKeepsTypes,
     SyncingKeepsTypes, PassKeepsTypes
     DEF DaemonStep
<1>3. CASE Restart
  BY <1>3, RestartKeepsTypes
<1>4. CASE BuildStep
  BY <1>4, BuildStepKeepsTypes
<1>5. CASE UNCHANGED vars
  <2>1. RegistryInvariant'
    BY <1>5, RegistryStep DEF TypeInvariant
  <2>2. UNCHANGED <<disk, files, queue, fileVars, dirtVars, daemonVars, buildVars>>
    BY <1>5 DEF vars, corpusVars, kernelVars
  <2> QED
    BY <2>1, <2>2
       DEF TypeInvariant, CorpusTyped, QueueTyped, FilesTyped, DirtTyped,
           DaemonTyped, BuildTyped, fileVars, dirtVars, daemonVars, buildVars
<1> QED BY <1>1, <1>2, <1>3, <1>4, <1>5 DEF Next

\* Every variable keeps its type: in particular a change set is a set of paths
\* or everything, never both (Changed, dirty.rs), and every registration is of
\* directories, whatever was queued.
THEOREM TypesHold == Spec => []TypeOK
<1>1. Spec => []TypeInvariant
  BY TypesInit, TypesStep, PTL DEF Spec
<1>2. TypeInvariant => TypeOK
  <2> SUFFICES ASSUME TypeInvariant PROVE TypeOK
    OBVIOUS
  <2>1. marks \subseteq Nodes
    BY DEF TypeInvariant, RegistryInvariant, MarksAreRegistered, Registered
  <2>2. queue \in Seq(Events)
    BY DEF TypeInvariant, QueueTyped, NamedEvents
  <2>3. watchedDirs \subseteq Dirs
    BY DEF TypeInvariant, RegistryInvariant, BudgetIsHonest, Registered, Watch
  <2>4. held \in Nat
    BY RegisteredIsFinite DEF TypeInvariant, RegistryInvariant, BudgetIsHonest
  <2> QED
    BY <2>1, <2>2, <2>3, <2>4
       DEF TypeOK, TypeInvariant, RegistryInvariant, CorpusTyped, FilesTyped,
           DirtTyped, DaemonTyped, Places, BuildTyped
<1> QED BY <1>1, <1>2, PTL
=============================================================================
