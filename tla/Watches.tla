------------------------------- MODULE Watches -------------------------------
(***************************************************************************)
(* Which directories eg-indexd watches: inotify registrations under a      *)
(* budget, followed as directories come, go and move, and brought in line  *)
(* with the directories each rebuild walked.                               *)
(*                                                                         *)
(* A directory stands for the files directly in it, whose content is one   *)
(* version.  A node is a directory's identity, and the watch descriptor    *)
(* the kernel gives for it: one that is registered, queued or on disk is   *)
(* not given again.                                                        *)
(***************************************************************************)
EXTENDS Naturals, Sequences, FiniteSets

CONSTANTS
    Dirs,           \* directories, by their path
    Parent,         \* the directory each one is in; a root is in itself
    Trees,          \* indexed trees
    IndexRoot,      \* the directory each tree's index is rooted at
    Under,          \* the directories a walk of each tree can reach
    Nodes,          \* bound on the identities in use at once
    Versions,       \* versions of a directory's files
    QueueLimit,     \* the kernel's max_queued_events
    Ceiling,        \* WatchBudget.ceiling
    UserWatches,    \* the kernel's max_user_watches
    NamesReturn,    \* a path is created again while its removal is recorded
    ListsGoStale,   \* a watch-dirs list may miss a directory when it is used
    FilesTakeOver,  \* a file may stand where a directory was
    Wide, Nothing   \* an unbounded change; no watch, node, directory or tree

Children(d) == {c \in Dirs : Parent[c] = d /\ c # d}

ASSUME ConstantsAssumption ==
    /\ Parent \in [Dirs -> Dirs]
    /\ IndexRoot \in [Trees -> Dirs]
    /\ Under \in [Trees -> SUBSET Dirs]
    /\ IsFiniteSet(Nodes)
    /\ QueueLimit \in Nat
    /\ Ceiling \in Nat /\ UserWatches \in Nat
    /\ Wide \notin Dirs
    /\ Nothing \notin Dirs /\ Nothing \notin Nodes /\ Nothing \notin Versions
    /\ NamesReturn \in BOOLEAN /\ ListsGoStale \in BOOLEAN
    /\ FilesTakeOver \in BOOLEAN

VARIABLES
    node,         \* the identity of each directory, or Nothing
    disk,         \* the version of its files, or Nothing
    files,        \* paths of directories where a file stands
    marks,        \* nodes the kernel reports events for
    queue,        \* events the kernel has queued
    byWatch,      \* WatchRegistry.dirs_by_watch
    watchedDirs,  \* WatchRegistry.watched_dirs
    held,         \* WatchBudget.held
    listed,       \* the watch-dirs file of each tree, {} before there is one
    synced,       \* Daemon.watch_stamps is that of the file
    ready,        \* the watcher-ready marker
    sincePublish, \* TreeDirt.since_publish
    sinceWalk,    \* TreeDirt.since_walk
    drained,      \* DirtyEvents of the drain under way
    dpc,          \* where the daemon is
    cur,          \* the tree it is serving
    task,         \* the registration under way
    build,        \* the rebuild process
    index         \* versions each published generation was built from

corpusVars   == <<node, disk, files>>
registryVars == <<byWatch, watchedDirs, held>>
kernelVars   == <<marks, queue>>
fileVars     == <<listed, synced, ready>>
dirtVars     == <<sincePublish, sinceWalk, drained>>
daemonVars   == <<dpc, cur, task>>
buildVars    == <<build, index>>
vars == <<corpusVars, registryVars, kernelVars, fileVars, dirtVars, daemonVars,
          buildVars>>

Unbounded == {Wide}

Kinds  == {"file", "made", "gone", "self", "overflow"}
Events == [wd : Nodes \cup {Nothing}, kind : Kinds, dir : Dirs \cup {Nothing}]
Watch  == [dir : Dirs, tree : Trees]
Change == (SUBSET Dirs) \cup {Unbounded}
Tasks  == [todo : SUBSET Dirs, listing : Dirs \cup {Nothing}, deep : BOOLEAN,
           tree : Trees \cup {Nothing},
           back : {"top", "poll", "settle", "serve"}]
Builds == [phase : {"none", "walking", "published", "succeeded", "failed"},
           tree : Trees \cup {Nothing}, child : BOOLEAN, found : SUBSET Dirs,
           seen : SUBSET Dirs, got : [Dirs -> Versions \cup {Nothing}]]

Absent    == [d \in Dirs |-> Nothing]
NoWatch   == [dir |-> Nothing, tree |-> Nothing]
NoDrain   == [t \in Trees |-> {}]
NoTask    == [todo |-> {}, listing |-> Nothing, deep |-> FALSE,
              tree |-> Nothing, back |-> "top"]
NoBuild   == [phase |-> "none", tree |-> Nothing, child |-> FALSE,
              found |-> {}, seen |-> {}, got |-> Absent]

Exists(d)      == node[d] # Nothing
Registered     == {wd \in Nodes : byWatch[wd] # NoWatch}
WatchesOf(t)   == {wd \in Registered : byWatch[wd].tree = t}
WatchedTrees   == {t \in Trees : WatchesOf(t) # {}}
NodesInUse     == {node[d] : d \in Dirs} \cup marks \cup Registered
                      \cup {queue[i].wd : i \in DOMAIN queue}

\* Changed::absorb, once a path stands for all the files of a directory.
AbsorbPaths(changed, more) == changed \cup more

Absorb(changed, more) ==
    IF Wide \in changed \cup more THEN Unbounded ELSE changed \cup more

-----------------------------------------------------------------------------
(***************************************************************************)
(* The kernel.  An event equal to the last one queued is merged with it;   *)
(* a full queue takes one overflow event and drops what follows.           *)
(***************************************************************************)

Overflow == [wd |-> Nothing, kind |-> "overflow", dir |-> Nothing]

\* What is left of an event once its descriptor is given up: the daemon reads
\* it and finds no entry for it.
Stray == [wd |-> Nothing, kind |-> "self", dir |-> Nothing]

Disowned(q, wds) == [i \in DOMAIN q |-> IF q[i].wd \in wds THEN Stray ELSE q[i]]

Queued(q, wd, kind, d) ==
    LET e == [wd |-> wd, kind |-> kind, dir |-> d]
    IN IF \/ wd \notin marks
          \/ q # <<>> /\ q[Len(q)] = e
          \/ Overflow \in {q[i] : i \in DOMAIN q}
       THEN q
       ELSE Append(q, IF Len(q) < QueueLimit THEN e ELSE Overflow)

-----------------------------------------------------------------------------
Init ==
    /\ \E there \in SUBSET Dirs :
        /\ \A d \in there : Parent[d] \in there
        /\ \A t \in Trees : IndexRoot[t] \in there
        /\ node \in [Dirs -> Nodes \cup {Nothing}]
        /\ \A d \in Dirs : Exists(d) <=> d \in there
        /\ \A c, d \in there : node[c] = node[d] => c = d
        /\ disk \in [Dirs -> Versions \cup {Nothing}]
        /\ \A d \in Dirs : disk[d] # Nothing <=> d \in there
    /\ files = {}
    /\ marks = {} /\ queue = <<>>
    /\ byWatch = [wd \in Nodes |-> NoWatch] /\ watchedDirs = {} /\ held = 0
    /\ listed = [t \in Trees |-> {}]
    /\ synced = [t \in Trees |-> FALSE]
    /\ ready = [t \in Trees |-> FALSE]
    /\ sincePublish = [t \in Trees |-> Unbounded]
    /\ sinceWalk = NoDrain /\ drained = NoDrain
    /\ dpc = "top" /\ cur \in Trees /\ task = NoTask
    /\ build = NoBuild
    /\ index = [t \in Trees |-> Absent]

-----------------------------------------------------------------------------
(***************************************************************************)
(* The corpus.                                                             *)
(***************************************************************************)

WriteFile(d) ==
    /\ Exists(d)
    /\ \E v \in Versions \ {disk[d]} : disk' = [disk EXCEPT ![d] = v]
    /\ queue' = Queued(queue, node[d], "file", Nothing)
    /\ UNCHANGED <<node, files, marks, registryVars, fileVars, dirtVars,
                   daemonVars, buildVars>>

\* The tree would hear of a directory made here now, before any rebuild and
\* list of directories is used that is without it.
Expected(d) ==
    \A t \in Trees : d \in Under[t] =>
        /\ build.tree # t
        /\ listed[t] = {} \/ synced[t]
        /\ node[Parent[d]] \in WatchesOf(t) \cap marks
        /\ Len(queue) + 1 < QueueLimit
        /\ \A i \in DOMAIN queue : queue[i] # Overflow

\* No directory is there that a tree's list is without.
ListsAreCurrent ==
    \A t \in Trees : listed[t] # {} =>
        \A d \in Under[t] : Exists(d) => d \in listed[t]

MayAppear(d) ==
    /\ ~Exists(d) /\ d \notin files /\ Exists(Parent[d])
    /\ NamesReturn \/ d \notin watchedDirs
    /\ ListsGoStale \/ Expected(d)

MakeDir(d) ==
    /\ MayAppear(d)
    /\ \E n \in Nodes \ NodesInUse : node' = [node EXCEPT ![d] = n]
    /\ \E v \in Versions : disk' = [disk EXCEPT ![d] = v]
    /\ queue' = Queued(queue, node[Parent[d]], "made", d)
    /\ UNCHANGED <<files, marks, registryVars, fileVars, dirtVars, daemonVars,
                   buildVars>>

\* The kernel drops the mark of a directory that is removed.
RemoveDir(d) ==
    /\ Exists(d) /\ \A c \in Children(d) : ~Exists(c)
    /\ \A t \in Trees : IndexRoot[t] # d
    /\ node' = [node EXCEPT ![d] = Nothing]
    /\ disk' = [disk EXCEPT ![d] = Nothing]
    /\ queue' = Queued(Queued(queue, node[Parent[d]], "gone", d),
                       node[d], "self", Nothing)
    /\ marks' = marks \ {node[d]}
    /\ UNCHANGED <<files, registryVars, fileVars, dirtVars, daemonVars,
                   buildVars>>

\* A mark follows its directory to the new path.
MoveDir(d, e) ==
    /\ Exists(d) /\ Children(d) = {} /\ Children(e) = {}
    /\ \A t \in Trees : IndexRoot[t] # d
    /\ MayAppear(e)
    /\ node' = [node EXCEPT ![d] = Nothing, ![e] = node[d]]
    /\ disk' = [disk EXCEPT ![d] = Nothing, ![e] = disk[d]]
    /\ queue' = Queued(Queued(Queued(queue, node[Parent[d]], "gone", d),
                              node[Parent[e]], "made", e),
                       node[d], "self", Nothing)
    /\ UNCHANGED <<files, marks, registryVars, fileVars, dirtVars, daemonVars,
                   buildVars>>

\* A file comes to stand, or no longer stands, where a directory was.
ToggleFile(d) ==
    /\ FilesTakeOver
    /\ ~Exists(d) /\ Exists(Parent[d]) /\ Children(d) # {}
    /\ files' = IF d \in files THEN files \ {d} ELSE files \cup {d}
    /\ \E v \in Versions : disk' = [disk EXCEPT ![Parent[d]] = v]
    /\ queue' = Queued(queue, node[Parent[d]], "file", Nothing)
    /\ UNCHANGED <<node, marks, registryVars, fileVars, dirtVars, daemonVars,
                   buildVars>>

Corpus ==
    \/ \E d \in Dirs : WriteFile(d) \/ MakeDir(d) \/ RemoveDir(d) \/ ToggleFile(d)
    \/ \E d, e \in Dirs : MoveDir(d, e)

-----------------------------------------------------------------------------
(***************************************************************************)
(* The registry.                                                           *)
(***************************************************************************)

DropButTheMarks(wds) ==
    /\ byWatch' = [wd \in Nodes |-> IF wd \in wds THEN NoWatch ELSE byWatch[wd]]
    /\ watchedDirs' = watchedDirs \ {byWatch[wd].dir : wd \in wds}
    /\ held' = held - Cardinality(wds)
    /\ queue' = Disowned(queue, wds)
    /\ UNCHANGED marks

\* Watcher::drop_watch of each.
Drop(wds) ==
    /\ byWatch' = [wd \in Nodes |-> IF wd \in wds THEN NoWatch ELSE byWatch[wd]]
    /\ watchedDirs' = watchedDirs \ {byWatch[wd].dir : wd \in wds}
    /\ held' = held - Cardinality(wds)
    /\ marks' = marks \ wds
    /\ queue' = Disowned(queue, wds)

\* WatchRegistry::insert: a path that reaches a directory already watched
\* under another takes its place, and the claim made for it is refunded.
Insert(d, t) ==
    LET wd == node[d]
        displaced == IF byWatch[wd] = NoWatch THEN {} ELSE {byWatch[wd].dir}
    IN /\ byWatch' = [byWatch EXCEPT ![wd] = [dir |-> d, tree |-> t]]
       /\ watchedDirs' = (watchedDirs \cup {d}) \ displaced
       /\ held' = IF displaced = {} THEN held + 1 ELSE held
       /\ marks' = marks \cup {wd}
       /\ UNCHANGED queue

Register(t, dirs, deep, back) ==
    /\ dpc' = "register"
    /\ task' = [todo |-> dirs, listing |-> Nothing, deep |-> deep, tree |-> t,
                back |-> back]

BlockedByAbsence(d) == ~Exists(d)

\* The kernel says that there is no such directory, or that a file is in the
\* way; only the first is tolerated (tolerate_unwatchable).
Blocked(d) == Parent[d] \in files

Missing(d) == ~Exists(d) /\ ~Blocked(d)

\* A directory that is not watched finds the budget spent, or the kernel's.
Spent(d) ==
    \/ held >= Ceiling
    \/ Exists(d) /\ node[d] \notin marks /\ Cardinality(marks) >= UserWatches

\* Watcher::watch_one_dir of a directory that is watched, is gone, or can be
\* watched.
WatchDir(d) ==
    /\ dpc = "register" /\ task.listing = Nothing /\ d \in task.todo
    /\ \/ /\ d \in watchedDirs \/ (Missing(d) /\ held < Ceiling)
          /\ UNCHANGED <<registryVars, kernelVars>>
       \/ /\ d \notin watchedDirs /\ Exists(d) /\ ~Spent(d)
          /\ Insert(d, task.tree)
    /\ task' = [task EXCEPT !.todo = @ \ {d},
                            !.listing = IF task.deep THEN d ELSE Nothing]
    /\ UNCHANGED <<corpusVars, fileVars, dirtVars, dpc, cur, buildVars>>

GiveUpRefundingTheClaim(d) ==
    /\ dpc = "register" /\ task.listing = Nothing /\ d \in task.todo
    /\ d \notin watchedDirs /\ Spent(d)
    /\ LET wds == WatchesOf(task.tree)
       IN /\ byWatch' = [wd \in Nodes |-> IF wd \in wds THEN NoWatch ELSE byWatch[wd]]
          /\ watchedDirs' = watchedDirs \ {byWatch[wd].dir : wd \in wds}
          /\ held' = held - Cardinality(wds) - 1
          /\ marks' = marks \ wds
          /\ queue' = Disowned(queue, wds)
    /\ dpc' = IF task.back = "serve" THEN "refused" ELSE task.back
    /\ task' = NoTask
    /\ UNCHANGED <<corpusVars, fileVars, dirtVars, cur, buildVars>>

\* Watcher::give_up_on, when the budget or a kernel resource is spent.
GiveUp(d) ==
    /\ dpc = "register" /\ task.listing = Nothing /\ d \in task.todo
    /\ d \notin watchedDirs /\ Spent(d)
    /\ Drop(WatchesOf(task.tree))
    /\ dpc' = IF task.back = "serve" THEN "refused" ELSE task.back
    /\ task' = NoTask
    /\ UNCHANGED <<corpusVars, fileVars, dirtVars, cur, buildVars>>

\* watch_dir_recursive lists a directory once it is watched.
ListDir ==
    /\ dpc = "register" /\ task.listing # Nothing
    /\ task' = [task EXCEPT !.listing = Nothing,
                            !.todo = @ \cup {c \in Children(task.listing) : Exists(c)}]
    /\ UNCHANGED <<corpusVars, registryVars, kernelVars, fileVars, dirtVars,
                   dpc, cur, buildVars>>

\* The end of watch_tree or watch_dirs: watch_request stands the marker up.
\* The end of grow_into: on to the next event.
Registration ==
    /\ dpc = "register" /\ task.listing = Nothing /\ task.todo = {}
    /\ IF task.back = "serve"
       THEN dpc' = "begin" /\ ready' = [ready EXCEPT ![cur] = TRUE]
       ELSE dpc' = task.back /\ UNCHANGED ready
    /\ task' = NoTask
    /\ UNCHANGED <<corpusVars, registryVars, kernelVars, listed, synced,
                   dirtVars, cur, buildVars>>

-----------------------------------------------------------------------------
(***************************************************************************)
(* The drain: Watcher::drain_dirty and Daemon::absorb, at the top of a     *)
(* pass, while a rebuild runs, and after it.                               *)
(***************************************************************************)

Draining == dpc \in {"top", "poll", "settle"}

\* What apply_event records, for the trees that still have watches.
Reports(e) ==
    [t \in Trees |->
        CASE e.kind = "overflow" /\ t \in WatchedTrees -> Unbounded
          [] e.wd \in WatchesOf(t) /\ e.kind = "file"  -> {byWatch[e.wd].dir}
          [] e.wd \in WatchesOf(t) /\ e.kind # "file"  -> Unbounded
          [] OTHER                                     -> {}]

ApplyEvent ==
    /\ Draining /\ queue # <<>>
    /\ LET e == Head(queue)
       IN /\ drained' = [t \in Trees |-> Absorb(drained[t], Reports(e)[t])]
          /\ IF e.kind = "made" /\ e.wd \in Registered
             THEN Register(byWatch[e.wd].tree, {e.dir}, TRUE, dpc)
             ELSE UNCHANGED <<dpc, task>>
    /\ queue' = Tail(queue)
    /\ UNCHANGED <<corpusVars, marks, registryVars, fileVars, sincePublish,
                   sinceWalk, cur, buildVars>>

AbsorbDrainedOnce ==
    /\ sincePublish' = [t \in Trees |-> Absorb(sincePublish[t], drained[t])]
    /\ drained' = NoDrain
    /\ UNCHANGED sinceWalk

AbsorbDrained ==
    /\ sincePublish' = [t \in Trees |-> Absorb(sincePublish[t], drained[t])]
    /\ sinceWalk' = [t \in Trees |-> Absorb(sinceWalk[t], drained[t])]
    /\ drained' = NoDrain

Drained ==
    /\ Draining /\ queue = <<>>
    /\ AbsorbDrained
    /\ dpc' = CASE dpc = "top"    -> "serve"
                [] dpc = "settle" -> "commit"
                [] OTHER          -> "poll"
    /\ UNCHANGED <<corpusVars, registryVars, kernelVars, fileVars, cur, task,
                   buildVars>>

\* A daemon ends, of an error or a signal, with its child; another one starts.
Restart ==
    /\ ListsGoStale \/ ListsAreCurrent
    /\ byWatch' = [wd \in Nodes |-> NoWatch] /\ watchedDirs' = {} /\ held' = 0
    /\ marks' = {} /\ queue' = <<>>
    /\ synced' = [t \in Trees |-> FALSE]
    /\ ready' = [t \in Trees |-> FALSE]
    /\ sincePublish' = [t \in Trees |-> Unbounded]
    /\ sinceWalk' = NoDrain /\ drained' = NoDrain
    /\ dpc' = "top" /\ task' = NoTask
    /\ build' = NoBuild
    /\ UNCHANGED <<corpusVars, listed, cur, index>>

\* watch_one_dir fails for a file on the way.  The error ends the drain it is
\* part of and takes what was read with it; at the top of a pass it ends the
\* daemon, in a rebuild refresh_requests drops it and the child goes on alone.
\* In a sync, refresh_requests drops it and the tree is tried again next time.
WatchFails(d) ==
    /\ dpc = "register" /\ task.listing = Nothing /\ d \in task.todo
    /\ d \notin watchedDirs /\ Blocked(d) /\ held < Ceiling
    /\ task' = NoTask
    /\ \/ /\ task.back = "serve"
          /\ dpc' = "serve"
          /\ synced' = [synced EXCEPT ![cur] = FALSE]
          /\ UNCHANGED <<queue, ready, drained, build>>
       \/ /\ task.back = "top"
          /\ dpc' = "dead"
          /\ ready' = [t \in Trees |-> FALSE]
          /\ UNCHANGED <<queue, synced, drained, build>>
       \/ /\ task.back \in {"poll", "settle"}
          /\ dpc' = "serve"
          /\ \E n \in 0 .. Len(queue) : queue' = SubSeq(queue, n + 1, Len(queue))
          /\ drained' = NoDrain
          /\ build' = IF task.back = "settle"
                      THEN NoBuild ELSE [build EXCEPT !.child = FALSE]
          /\ UNCHANGED <<synced, ready>>
    /\ UNCHANGED <<corpusVars, marks, registryVars, listed, sincePublish,
                   sinceWalk, cur, index>>

-----------------------------------------------------------------------------
(***************************************************************************)
(* A pass over the requests.                                               *)
(***************************************************************************)

\* Daemon::release_unleased.
Release(t) ==
    /\ dpc = "serve" /\ t \in WatchedTrees
    /\ ListsGoStale \/ ListsAreCurrent
    /\ Drop(WatchesOf(t))
    /\ synced' = [synced EXCEPT ![t] = FALSE]
    /\ ready' = [ready EXCEPT ![t] = FALSE]
    /\ sincePublish' = [sincePublish EXCEPT ![t] = Unbounded]
    /\ sinceWalk' = [sinceWalk EXCEPT ![t] = {}]
    /\ UNCHANGED <<corpusVars, listed, drained, daemonVars, buildVars>>

Serving(t) == dpc = "serve" \/ (dpc = "again" /\ cur = t)

WantedIfWatched(t) == {IndexRoot[t]} \cup (listed[t] \cap watchedDirs)

Wanted(t) == {IndexRoot[t]} \cup listed[t]

Stale(t) == {wd \in WatchesOf(t) : byWatch[wd].dir \notin Wanted(t)}

KeptDirs(t) == watchedDirs \ {byWatch[wd].dir : wd \in Stale(t)}

\* Daemon::sync_watches: nothing to do, the whole tree, or the directories the
\* last rebuild walked, of which those it no longer walked are pruned.
SyncNothing(t) ==
    /\ Serving(t)
    /\ synced[t] /\ t \in WatchedTrees
    /\ cur' = t /\ dpc' = "begin"
    /\ ready' = [ready EXCEPT ![t] = TRUE]
    /\ UNCHANGED <<corpusVars, registryVars, kernelVars, listed, synced,
                   dirtVars, task, buildVars>>

SyncTree(t) ==
    /\ Serving(t)
    /\ listed[t] = {}
    /\ cur' = t
    /\ Register(t, {IndexRoot[t]}, TRUE, "serve")
    /\ UNCHANGED <<corpusVars, registryVars, kernelVars, fileVars, dirtVars,
                   buildVars>>

SyncDirs(t) ==
    /\ Serving(t)
    /\ listed[t] # {} /\ ~(synced[t] /\ t \in WatchedTrees)
    /\ cur' = t
    /\ IF Cardinality(Wanted(t) \ KeptDirs(t)) > Ceiling - (held - Cardinality(Stale(t)))
       THEN /\ Drop(WatchesOf(t))
            /\ dpc' = "refused"
            /\ UNCHANGED <<task, synced>>
       ELSE /\ Drop(Stale(t))
            /\ Register(t, Wanted(t), FALSE, "serve")
            /\ synced' = [synced EXCEPT ![t] = TRUE]
    /\ UNCHANGED <<corpusVars, listed, ready, dirtVars, buildVars>>

\* Daemon::evict of another tree, for one that did not fit.
Evict(t) ==
    /\ dpc = "refused" /\ t \in WatchedTrees \ {cur}
    /\ dpc' = "again"
    /\ Drop(WatchesOf(t))
    /\ synced' = [synced EXCEPT ![t] = FALSE]
    /\ ready' = [ready EXCEPT ![t] = FALSE]
    /\ sincePublish' = [sincePublish EXCEPT ![t] = Unbounded]
    /\ sinceWalk' = [sinceWalk EXCEPT ![t] = {}]
    /\ UNCHANGED <<corpusVars, listed, drained, cur, task, buildVars>>

\* Daemon::refuse_watch.
Refuse ==
    /\ dpc = "refused"
    /\ dpc' = "serve"
    /\ synced' = [synced EXCEPT ![cur] = FALSE]
    /\ ready' = [ready EXCEPT ![cur] = FALSE]
    /\ UNCHANGED <<corpusVars, registryVars, kernelVars, listed, dirtVars, cur,
                   task, buildVars>>

\* refresh_if_needed finds the tree clean, or deferred.
NoRefresh ==
    /\ dpc = "begin"
    /\ dpc' = "serve"
    /\ UNCHANGED <<corpusVars, registryVars, kernelVars, fileVars, dirtVars,
                   cur, task, buildVars>>

\* A rebuild is due.  Two at a time are the subject of Freshness: one that was
\* left to itself is taken to end first.
BeginBuild ==
    /\ dpc = "begin" /\ build.phase = "none"
    /\ dpc' = "poll"
    /\ sinceWalk' = [sinceWalk EXCEPT ![cur] = {}]
    /\ build' = [NoBuild EXCEPT !.phase = "walking", !.tree = cur,
                                !.child = TRUE, !.found = {IndexRoot[cur]}]
    /\ UNCHANGED <<corpusVars, registryVars, kernelVars, fileVars,
                   sincePublish, drained, cur, task, index>>

\* try_wait, between two drains.
Reap ==
    /\ dpc = "poll" /\ drained = NoDrain
    /\ build.phase \in {"succeeded", "failed"}
    /\ dpc' = "settle"
    /\ UNCHANGED <<corpusVars, registryVars, kernelVars, fileVars, dirtVars,
                   cur, task, buildVars>>

Commit ==
    /\ dpc = "commit"
    /\ dpc' = "serve"
    /\ IF build.phase = "succeeded"
       THEN /\ sincePublish' = [sincePublish EXCEPT ![cur] = sinceWalk[cur]]
            /\ sinceWalk' = [sinceWalk EXCEPT ![cur] = {}]
       ELSE UNCHANGED <<sincePublish, sinceWalk>>
    /\ build' = NoBuild
    /\ UNCHANGED <<corpusVars, registryVars, kernelVars, fileVars, drained,
                   cur, task, index>>

PassEnds ==
    /\ dpc = "serve"
    /\ dpc' = "top"
    /\ UNCHANGED <<corpusVars, registryVars, kernelVars, fileVars, dirtVars,
                   cur, task, buildVars>>

-----------------------------------------------------------------------------
(***************************************************************************)
(* The rebuild: daemon_refresh::run.                                       *)
(***************************************************************************)

\* The walk reads a directory's files and finds its directories.
Visit(d) ==
    /\ build.phase = "walking" /\ d \in build.found
    /\ build' = [build EXCEPT
                    !.found = (@ \ {d}) \cup {c \in Children(d) : Exists(c)},
                    !.seen = IF Exists(d) THEN @ \cup {d} ELSE @,
                    !.got[d] = disk[d]]
    /\ UNCHANGED <<corpusVars, registryVars, kernelVars, fileVars, dirtVars,
                   daemonVars, index>>

SwapIn ==
    /\ build.phase = "walking" /\ build.found = {}
    /\ index' = [index EXCEPT ![build.tree] = build.got]
    /\ build' = [build EXCEPT !.phase = "published"]
    /\ UNCHANGED <<corpusVars, registryVars, kernelVars, fileVars, dirtVars,
                   daemonVars>>

\* runtime::write_watch_dirs is the last thing a rebuild does.
WriteWatchDirs ==
    /\ build.phase = "published"
    /\ listed' = [listed EXCEPT ![build.tree] = build.seen]
    /\ synced' = [synced EXCEPT ![build.tree] = FALSE]
    /\ build' = IF build.child THEN [build EXCEPT !.phase = "succeeded"] ELSE NoBuild
    /\ UNCHANGED <<corpusVars, registryVars, kernelVars, ready, dirtVars,
                   daemonVars, index>>

BuildFails ==
    /\ build.phase \in {"walking", "published"}
    /\ build' = IF build.child THEN [build EXCEPT !.phase = "failed"] ELSE NoBuild
    /\ UNCHANGED <<corpusVars, registryVars, kernelVars, fileVars, dirtVars,
                   daemonVars, index>>

-----------------------------------------------------------------------------
DaemonStep ==
    \/ \E d \in Dirs : WatchDir(d) \/ GiveUp(d) \/ WatchFails(d)
    \/ ListDir \/ Registration \/ ApplyEvent \/ Drained
    \/ \E t \in Trees : \/ Release(t) \/ SyncNothing(t) \/ SyncTree(t)
                        \/ SyncDirs(t) \/ Evict(t)
    \/ Refuse \/ NoRefresh \/ BeginBuild \/ Reap \/ Commit \/ PassEnds

BuildStep == (\E d \in Dirs : Visit(d)) \/ SwapIn \/ WriteWatchDirs \/ BuildFails

Next == Corpus \/ DaemonStep \/ Restart \/ BuildStep

Spec == Init /\ [][Next]_vars

\* The daemon's loop goes on, and every pass serves every request that has a
\* lease (refresh_requests).
Fairness ==
    /\ WF_vars(DaemonStep) /\ WF_vars(BuildStep)
    /\ \A t \in Trees : SF_vars(SyncNothing(t) \/ SyncTree(t) \/ SyncDirs(t))

FairSpec == Spec /\ Fairness

-----------------------------------------------------------------------------
(***************************************************************************)
(* Properties.                                                             *)
(***************************************************************************)

TypeOK ==
    /\ node \in [Dirs -> Nodes \cup {Nothing}]
    /\ disk \in [Dirs -> Versions \cup {Nothing}]
    /\ files \subseteq Dirs
    /\ marks \subseteq Nodes
    /\ queue \in Seq(Events)
    /\ byWatch \in [Nodes -> Watch \cup {NoWatch}]
    /\ watchedDirs \subseteq Dirs
    /\ held \in Nat
    /\ listed \in [Trees -> SUBSET Dirs]
    /\ synced \in [Trees -> BOOLEAN]
    /\ ready \in [Trees -> BOOLEAN]
    /\ sincePublish \in [Trees -> Change]
    /\ sinceWalk \in [Trees -> Change]
    /\ drained \in [Trees -> Change]
    /\ dpc \in {"top", "poll", "settle", "register", "serve", "again",
                "refused", "begin", "commit", "dead"}
    /\ cur \in Trees
    /\ task \in Tasks
    /\ build \in Builds
    /\ index \in [Trees -> [Dirs -> Versions \cup {Nothing}]]

\* The budget counts the watches that are registered and the two tables of the
\* registry name the same directories, each once, whatever is displaced,
\* pruned or given up (WatchRegistry::insert and remove, WatchBudget).
BudgetIsHonest ==
    /\ held = Cardinality(Registered) /\ held <= Ceiling
    /\ watchedDirs = {byWatch[wd].dir : wd \in Registered}
    /\ \A v, w \in Registered : byWatch[v].dir = byWatch[w].dir => v = w

\* No watch outlives its registration: what the daemon gives back, the kernel
\* gets back (Watcher::drop_watch).
MarksAreRegistered == marks \subseteq Registered

\* An event that will name the directory's files to the tree, or everything.
Pending(t, d) ==
    \E i \in DOMAIN queue :
        \/ queue[i].kind = "overflow"
        \/ /\ queue[i].wd \in WatchesOf(t)
           /\ queue[i].kind # "file" \/ byWatch[queue[i].wd].dir = d

\* While a tree is ready, nothing that changes in it escapes: what its
\* generation misses is in its change set, or in an event it will be told of
\* (watcher-ready).
NoChangeEscapes ==
    \A t \in Trees : ready[t] =>
        \A d \in Under[t] : index[t][d] # disk[d] =>
            \/ {Wide, d} \cap (sincePublish[t] \cup drained[t]) # {}
            \/ Pending(t, d)

\* A tree with a bounded change set that no rebuild is at work on, and whose
\* events have been read, is watched in every directory it has: a partial
\* watch is not sound (Watcher::give_up_on).
ReadyTreesAreCovered ==
    \A t \in Trees :
        ready[t] /\ synced[t] /\ Wide \notin sincePublish[t] \cup drained[t]
        /\ queue = <<>> /\ dpc # "register" /\ build.tree # t =>
            \A d \in Under[t] : Exists(d) => node[d] \in WatchesOf(t) \cap marks

\* Once the corpus settles and the daemon runs on, a tree the budget has room
\* for is watched, again and again if its lease lapses: paths that cannot be
\* watched do not keep it from being served (tolerate_unwatchable).
TreesGetWatched ==
    <>[](dpc # "dead") /\ <>[][DaemonStep \/ BuildStep]_vars =>
        \A t \in Trees : []<>ready[t]
=============================================================================
