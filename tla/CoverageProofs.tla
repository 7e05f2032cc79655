---------------------------- MODULE CoverageProofs ----------------------------
(***************************************************************************)
(* Proofs that a ready tree hears of every change: of the ways to lose one *)
(* that the switches of Watches stand for, nested trees and a budget that  *)
(* runs out, there is no other.                                            *)
(***************************************************************************)
EXTENDS WatchesProofs

\* The directories form a forest, and a tree is all that is below its root.
\* No directory is in two trees.
Layout ==
    /\ IsFiniteSet(Dirs)
    /\ \E depth \in [Dirs -> Nat] :
          \A d \in Dirs : Parent[d] # d => depth[Parent[d]] < depth[d]
    /\ \A t \in Trees :
          /\ IndexRoot[t] \in Under[t]
          /\ \A d \in Under[t] : Children(d) \subseteq Under[t]
          /\ \A d \in Under[t] \ {IndexRoot[t]} :
                Parent[d] \in Under[t] /\ Parent[d] # d
    /\ \A t, u \in Trees : t # u => Under[t] \cap Under[u] = {}

\* Neither the budget nor the kernel runs out of watches.
Room == Cardinality(Dirs) <= Ceiling /\ Cardinality(Dirs) <= UserWatches

\* What Watches.tla shows to lose a change does not happen.
Calm == ~NamesReturn /\ ~ListsGoStale /\ ~FilesTakeOver

Setting == Layout /\ Room /\ Calm

-----------------------------------------------------------------------------
(***************************************************************************)
(* The corpus and the registry.                                            *)
(***************************************************************************)

\* The corpus is a forest of directories with an identity each.
CorpusIsATree ==
    /\ files = {}
    /\ \A t \in Trees : Exists(IndexRoot[t])
    /\ \A d \in Dirs : Exists(d) => Exists(Parent[d])
    /\ \A c, d \in Dirs : Exists(c) /\ node[c] = node[d] => c = d
    /\ \A d \in Dirs : disk[d] = Nothing <=> ~Exists(d)

\* An entry is of a directory of its tree, and a directory that is there under
\* the path it is registered by is the one that is watched.
EntriesAreTrue ==
    \A wd \in Registered :
        /\ byWatch[wd].dir \in Under[byWatch[wd].tree]
        /\ Exists(byWatch[wd].dir) => node[byWatch[wd].dir] = wd /\ wd \in marks

\* Only a directory without directories moves and leaves its entry behind.
OnlyLeavesMove ==
    \A d \in Dirs : Exists(d) /\ node[d] \in Registered =>
        \/ byWatch[node[d]].dir = d
        \/ Children(d) = {} /\ Children(byWatch[node[d]].dir) = {}

EventsIn(q) == {q[i] : i \in DOMAIN q}
Unread      == EventsIn(queue)

\* What is queued is of a registered directory, and what it says was made is
\* in that directory.
EventsAreOfTheRegistered ==
    \A e \in Unread :
        /\ e.wd \in Registered \cup {Nothing}
        /\ e.kind = "overflow" => e.wd = Nothing
        /\ e.kind = "made" => /\ e.wd \in Registered
                              /\ Parent[e.dir] # e.dir
                              /\ byWatch[e.wd].dir = Parent[e.dir]

-----------------------------------------------------------------------------
(***************************************************************************)
(* The daemon.                                                             *)
(***************************************************************************)

Registering(t) == dpc = "register" /\ task.tree = t
Syncing(t)     == Registering(t) /\ task.back = "serve"

DaemonIsWhereItIs ==
    /\ dpc \notin {"again", "refused", "dead"}
    /\ dpc = "register" => /\ task.todo \subseteq Under[task.tree]
                           /\ task.listing \in Under[task.tree] \cup {Nothing}
                           /\ task.back = "serve" => task.tree = cur
                           /\ task.back # "serve" => task.deep /\ ready[task.tree]
                           /\ ~task.deep => task.listing = Nothing
    /\ dpc = "begin" => ready[cur]
    /\ build.phase # "none" =>
          /\ build.child /\ build.tree = cur /\ ready[cur]
          /\ \/ dpc \in {"poll", "settle", "commit"}
             \/ dpc = "register" /\ task.back \in {"poll", "settle"}
    /\ build.phase = "none" => build.tree = Nothing

\* A tree that is watched at all is ready, or becomes it; and one that is
\* ready or synced has its root watched, or has its turn coming.
WatchedTreesAreTended ==
    \A t \in Trees :
        /\ WatchesOf(t) # {} => ready[t] \/ Syncing(t)
        /\ synced[t] \/ ready[t] \/ Syncing(t) =>
              \/ IndexRoot[t] \in watchedDirs
              \/ Syncing(t) /\ IndexRoot[t] \in task.todo
        /\ ~ready[t] => Wide \in sincePublish[t]

\* A list that is not in force yet misses no directory.
ListsAreWhole ==
    \A t \in Trees :
        /\ listed[t] \subseteq Under[t]
        /\ listed[t] # {} /\ ~synced[t] =>
              \A d \in Under[t] : Exists(d) => d \in listed[t]

-----------------------------------------------------------------------------
(***************************************************************************)
(* Coverage.                                                               *)
(***************************************************************************)

\* A directory is there and is not watched.
Uncovered(d) == Exists(d) /\ d \notin watchedDirs

\* The daemon is going to read that it was made.
Made(d) ==
    \E e \in Unread : e.kind = "made" /\ e.dir = d /\ e.wd = node[Parent[d]]

\* A registration that the coverage of its tree depends on.
Covering(t) == Registering(t) /\ (task.back # "serve" \/ ~ready[t])

\* The registration under way gets to it.
InHand(d) ==
    d \in task.todo \/ (task.listing # Nothing /\ d \in Children(task.listing))

\* The registration of a whole tree gets to it once it gets to its parent.
Below(t, d) ==
    /\ task.back = "serve" /\ task.deep /\ d # IndexRoot[t]
    /\ Uncovered(Parent[d]) /\ ~Made(Parent[d])

UncoveredIsAnnounced ==
    \A t \in Trees : ready[t] \/ Covering(t) =>
        \A d \in Under[t] : Uncovered(d) =>
            Made(d) \/ (Covering(t) /\ (InHand(d) \/ Below(t, d)))

Covered(t) == \A d \in Under[t] : Exists(d) => d \in watchedDirs

\* An event that makes everything in the tree dirty will be read, and there is
\* a directory it is of.
Told(t) ==
    \E e \in Unread :
        \/ e.kind = "overflow"
        \/ /\ e.kind # "file"
           /\ \E p \in Under[t] : Exists(p) /\ p \in watchedDirs /\ e.wd = node[p]

\* What a registration in a drain is for is dirty already.
GrowthIsDirty ==
    dpc = "register" /\ task.back # "serve" => Wide \in drained[task.tree]

\* A change to the files of a directory that will be read.
FilePending(d) == \E e \in Unread : e.kind = "file" /\ e.wd = node[d]

-----------------------------------------------------------------------------
(***************************************************************************)
(* Generations.                                                            *)
(***************************************************************************)

\* A generation that has the files of a tree as changed has them.
Agrees(t, changed) ==
    \A d \in Under[t] : index[t][d] # disk[d] =>
        Exists(d) /\ (d \in changed \cup drained[t] \/ FilePending(d))

\* A ready tree that is not dirty all over is covered, and what its generation
\* misses is known or announced.
ReadyTreesAgree ==
    \A t \in Trees :
        ready[t] /\ Wide \notin sincePublish[t] \cup drained[t] /\ ~Told(t) =>
            Covered(t) /\ Agrees(t, sincePublish[t])

Walked == build.phase \in {"walking", "published", "succeeded"}

\* The walk gets to every directory that is there.
WalkGetsEverywhere ==
    /\ build.phase # "none" => build.seen \cup build.found \subseteq Under[build.tree]
    /\ build.phase = "walking" =>
          \A d \in Under[build.tree] : Exists(d) =>
              \/ d \in build.seen \cup build.found
              \/ d # IndexRoot[build.tree] /\ Parent[d] \notin build.seen
    /\ build.phase \in {"published", "succeeded"} =>
          /\ \A d \in Under[build.tree] : Exists(d) => d \in build.seen
          /\ index[build.tree] = build.got
    /\ Walked => \A d \in Dirs : d \notin build.seen => build.got[d] = Nothing

\* What the rebuild reads is right, or its tree is told so before it ends.
WalkAgrees ==
    Walked =>
        LET t == build.tree
        IN  /\ Wide \in sincePublish[t] \/ sinceWalk[t] \subseteq sincePublish[t]
            /\ Wide \notin sinceWalk[t] \cup drained[t] /\ ~Told(t) =>
                  /\ Covered(t)
                  /\ \A d \in build.seen :
                        /\ Exists(d)
                        /\ build.got[d] # disk[d] =>
                              d \in sinceWalk[t] \cup drained[t] \/ FilePending(d)

CoverageInvariant ==
    /\ TypeInvariant
    /\ CorpusIsATree /\ EntriesAreTrue /\ OnlyLeavesMove
    /\ EventsAreOfTheRegistered
    /\ DaemonIsWhereItIs /\ WatchedTreesAreTended /\ ListsAreWhole
    /\ UncoveredIsAnnounced /\ GrowthIsDirty
    /\ ReadyTreesAgree /\ WalkGetsEverywhere /\ WalkAgrees

-----------------------------------------------------------------------------
(***************************************************************************)
(* The queue.                                                              *)
(***************************************************************************)

\* What is appended joins the events that are there.
LEMMA AppendedEvents ==
    ASSUME NEW S, NEW q \in Seq(S), NEW e \in S
    PROVE  /\ EventsIn(Append(q, e)) = EventsIn(q) \cup {e}
           /\ Append(q, e) \in Seq(S)
           /\ Len(Append(q, e)) = Len(q) + 1 /\ Len(q) \in Nat
<1>1. DOMAIN Append(q, e) = DOMAIN q \cup {Len(q) + 1}
  OBVIOUS
<1>2. /\ \A i \in DOMAIN q : Append(q, e)[i] = q[i]
      /\ Append(q, e)[Len(q) + 1] = e
  OBVIOUS
<1>3. /\ Append(q, e) \in Seq(S)
      /\ Len(Append(q, e)) = Len(q) + 1 /\ Len(q) \in Nat
  OBVIOUS
<1> QED BY <1>1, <1>2, <1>3 DEF EventsIn

\* What the kernel does with an event of a directory: it is queued if the
\* directory is marked, unless the queue overflows or has.
Queues(q, r, e) ==
    /\ r \in Seq(NamedEvents)
    /\ EventsIn(q) \subseteq EventsIn(r)
    /\ \A x \in EventsIn(r) : x \in EventsIn(q) \/ (x \in {e, Overflow} /\ e.wd \in marks)
    /\ e.wd \in marks => e \in EventsIn(r) \/ Overflow \in EventsIn(r)
    /\ Len(q) < QueueLimit /\ Overflow \notin EventsIn(q) =>
          /\ e.wd \in marks => e \in EventsIn(r)
          /\ Len(r) <= Len(q) + 1 /\ Overflow \notin EventsIn(r)

LEMMA QueuedEvents ==
    ASSUME NEW q \in Seq(NamedEvents), NEW wd \in Nodes \cup {Nothing},
           NEW kind \in Kinds \ {"overflow"}, NEW d \in Dirs \cup {Nothing},
           kind = "made" => d \in Dirs
    PROVE  Queues(q, Queued(q, wd, kind, d), [wd |-> wd, kind |-> kind, dir |-> d])
<1> SUFFICES ASSUME NEW e, e = [wd |-> wd, kind |-> kind, dir |-> d],
                    NEW r, r = Queued(q, wd, kind, d)
             PROVE  Queues(q, r, e)
  OBVIOUS
<1>0. e.wd = wd
  OBVIOUS
<1>1. e \in NamedEvents /\ Overflow \in NamedEvents /\ e # Overflow
  BY DEF NamedEvents, Events, Overflow, Kinds
<1>2. r = IF wd \notin marks \/ (q # <<>> /\ q[Len(q)] = e) \/ Overflow \in EventsIn(q)
          THEN q ELSE Append(q, IF Len(q) < QueueLimit THEN e ELSE Overflow)
  BY DEF Queued, EventsIn
<1>3. CASE wd \notin marks \/ (q # <<>> /\ q[Len(q)] = e) \/ Overflow \in EventsIn(q)
  <2>1. r = q
    BY <1>2, <1>3, Zenon
  <2>2. q # <<>> => Len(q) \in DOMAIN q /\ q[Len(q)] \in EventsIn(q)
    BY DEF EventsIn
  <2>3. Len(q) <= Len(q) + 1
    OBVIOUS
  <2> HIDE DEF Overflow
  <2> QED BY <1>0, <1>3, <2>1, <2>2, <2>3 DEF Queues
<1>4. CASE ~(wd \notin marks \/ (q # <<>> /\ q[Len(q)] = e) \/ Overflow \in EventsIn(q))
  <2>1. PICK x \in {e, Overflow} :
            r = Append(q, x) /\ (Len(q) < QueueLimit => x = e)
    BY <1>2, <1>4
  <2>2. x \in NamedEvents
    BY <1>1
  <2>3. /\ EventsIn(r) = EventsIn(q) \cup {x} /\ r \in Seq(NamedEvents)
        /\ Len(r) = Len(q) + 1 /\ Len(q) \in Nat
    BY <2>1, <2>2, AppendedEvents
  <2> QED BY <1>0, <1>1, <1>4, <2>1, <2>3 DEF Queues
<1> QED BY <1>3, <1>4

\* Giving descriptors up leaves the events of the others.
LEMMA DisownedEvents ==
    ASSUME NEW q \in Seq(NamedEvents), NEW wds
    PROVE  /\ \A e \in EventsIn(q) : e.wd \notin wds => e \in EventsIn(Disowned(q, wds))
           /\ \A e \in EventsIn(Disowned(q, wds)) :
                 e = Stray \/ (e \in EventsIn(q) /\ e.wd \notin wds)
<1>1. /\ DOMAIN Disowned(q, wds) = DOMAIN q
      /\ \A i \in DOMAIN q :
            Disowned(q, wds)[i] = IF q[i].wd \in wds THEN Stray ELSE q[i]
  BY DEF Disowned
<1> QED BY <1>1 DEF EventsIn

\* The first event leaves the others.
LEMMA TailEvents ==
    ASSUME NEW S, NEW q \in Seq(S), q # <<>>
    PROVE  EventsIn(q) = {Head(q)} \cup EventsIn(Tail(q))
<1>1. /\ DOMAIN Tail(q) = 1 .. Len(q) - 1
      /\ \A i \in 1 .. Len(q) - 1 : Tail(q)[i] = q[i + 1]
      /\ DOMAIN q = 1 .. Len(q) /\ Len(q) \in Nat \ {0} /\ Head(q) = q[1]
  OBVIOUS
<1>2. ASSUME NEW e \in EventsIn(q) PROVE e = Head(q) \/ e \in EventsIn(Tail(q))
  <2>1. PICK i \in 1 .. Len(q) : e = q[i]
    BY <1>1, <1>2 DEF EventsIn
  <2>2. CASE i = 1
    BY <1>1, <2>1, <2>2
  <2>3. CASE i # 1
    <3>1. i - 1 \in 1 .. Len(q) - 1 /\ Tail(q)[i - 1] = e
      BY <1>1, <2>1, <2>3
    <3> QED BY <1>1, <3>1 DEF EventsIn
  <2> QED BY <2>2, <2>3
<1>3. ASSUME NEW e \in EventsIn(Tail(q)) PROVE e \in EventsIn(q)
  <2>1. PICK i \in 1 .. Len(q) - 1 : e = q[i + 1]
    BY <1>1, <1>3 DEF EventsIn
  <2> QED BY <1>1, <2>1 DEF EventsIn
<1>4. Head(q) \in EventsIn(q)
  BY <1>1 DEF EventsIn
<1> QED BY <1>2, <1>3, <1>4

-----------------------------------------------------------------------------
(***************************************************************************)
(* What the invariant says of a directory that is watched, or is not.      *)
(***************************************************************************)

Registry == TypeInvariant /\ CorpusIsATree /\ EntriesAreTrue /\ OnlyLeavesMove
                /\ EventsAreOfTheRegistered

\* A directory that is there and watched is registered by its own identity, and
\* the kernel reports its events.
LEMMA WatchedIsRegistered ==
    ASSUME Registry, NEW d \in watchedDirs, Exists(d)
    PROVE  /\ node[d] \in Registered \cap marks
           /\ byWatch[node[d]].dir = d
           /\ byWatch[node[d]].tree \in Trees
           /\ d \in Under[byWatch[node[d]].tree]
<1>1. RegistryInvariant /\ EntriesAreTrue
  BY DEF Registry, TypeInvariant
<1>2. PICK wd \in Registered : byWatch[wd].dir = d
  BY <1>1 DEF RegistryInvariant, BudgetIsHonest
<1>3. node[d] = wd /\ wd \in marks /\ d \in Under[byWatch[wd].tree]
  BY <1>1, <1>2 DEF EntriesAreTrue
<1>4. byWatch[wd] \in Watch
  BY <1>1 DEF RegistryInvariant, Registered
<1> QED BY <1>2, <1>3, <1>4 DEF Watch

\* It is a watch of the tree it is in.
LEMMA WatchedIsOfItsTree ==
    ASSUME Registry, Layout, NEW t \in Trees, NEW d \in Under[t],
           d \in watchedDirs, Exists(d)
    PROVE  node[d] \in WatchesOf(t) \cap marks /\ byWatch[node[d]].dir = d
BY WatchedIsRegistered DEF Layout, WatchesOf

\* An event that a directory was made is of its parent, and both are in the
\* tree of that watch.
LEMMA MadeIsInItsTree ==
    ASSUME Registry, Layout, NEW e \in Unread, e.kind = "made"
    PROVE  /\ e.wd \in Registered /\ e.dir \in Dirs
           /\ byWatch[e.wd].tree \in Trees
           /\ byWatch[e.wd].dir = Parent[e.dir]
           /\ Parent[e.dir] \in watchedDirs /\ Parent[e.dir] # e.dir
           /\ Parent[e.dir] \in Under[byWatch[e.wd].tree]
           /\ e.dir \in Under[byWatch[e.wd].tree]
<1>1. /\ e.wd \in Registered
      /\ Parent[e.dir] # e.dir /\ byWatch[e.wd].dir = Parent[e.dir]
  BY DEF Registry, EventsAreOfTheRegistered
<1>2. e.dir \in Dirs
  BY DEF Registry, TypeInvariant, QueueTyped, NamedEvents, Unread, EventsIn
<1>3. byWatch[e.wd] \in Watch
  BY <1>1 DEF Registry, TypeInvariant, RegistryInvariant, Registered
<1>4. Parent[e.dir] \in watchedDirs
  BY <1>1 DEF Registry, TypeInvariant, RegistryInvariant, BudgetIsHonest
<1>5. Parent[e.dir] \in Under[byWatch[e.wd].tree]
  BY <1>1 DEF Registry, EntriesAreTrue
<1>6. e.dir \in Children(Parent[e.dir])
  BY <1>1, <1>2 DEF Children
<1> QED BY <1>1, <1>2, <1>3, <1>4, <1>5, <1>6 DEF Layout, Watch

\* A directory with directories in it is registered under its own path.
LEMMA ParentsAreTrue ==
    ASSUME Registry, NEW d \in Dirs, Parent[d] # d, Exists(Parent[d]),
           node[Parent[d]] \in Registered
    PROVE  byWatch[node[Parent[d]]].dir = Parent[d]
<1>1. Parent[d] \in Dirs /\ d \in Children(Parent[d])
  BY ConstantsAssumption DEF Children
<1> QED BY <1>1 DEF Registry, OnlyLeavesMove

\* A directory of a ready tree that is not watched was announced by its parent,
\* unless all of the tree is dirty.
LEMMA UncoveredIsTold ==
    ASSUME CoverageInvariant, Layout, NEW t \in Trees, ready[t],
           Wide \notin drained[t], NEW d \in Under[t], Uncovered(d)
    PROVE  \E e \in Unread :
              /\ e.kind = "made" /\ e.dir = d /\ e.wd = node[Parent[d]]
              /\ Parent[d] \in Under[t] /\ Parent[d] # d
              /\ Parent[d] \in watchedDirs /\ Exists(Parent[d])
<1>1. ~Covering(t)
  BY DEF CoverageInvariant, GrowthIsDirty, Covering, Registering
<1>2. PICK e \in Unread : e.kind = "made" /\ e.dir = d /\ e.wd = node[Parent[d]]
  BY <1>1 DEF CoverageInvariant, UncoveredIsAnnounced, Made
<1>3. d \in Dirs /\ Exists(Parent[d])
  BY ConstantsAssumption DEF CoverageInvariant, CorpusIsATree, Uncovered
<1>4. Registry
  BY DEF CoverageInvariant, Registry
<1>5. byWatch[e.wd].tree = t
  BY <1>2, <1>4, MadeIsInItsTree DEF Layout
<1> QED BY <1>2, <1>3, <1>4, <1>5, MadeIsInItsTree

-----------------------------------------------------------------------------
(***************************************************************************)
(* What the corpus does.                                                   *)
(***************************************************************************)

\* Directories of the corpus go, come and are written in, and the kernel queues
\* what it tells of them.
Shift(gone, come, written) ==
    /\ gone \subseteq Dirs /\ come \subseteq Dirs /\ written \subseteq Dirs
    /\ \A x \in Dirs \ (gone \cup come) :
          node'[x] = node[x] /\ (x \notin written => disk'[x] = disk[x])
    /\ \A x \in gone :
          /\ Exists(x) /\ node'[x] = Nothing
          /\ \A t \in Trees : x # IndexRoot[t]
          /\ \A c \in Children(x) : ~Exists(c)
    /\ \A x \in come :
          /\ ~Exists(x) /\ Exists(Parent[x]) /\ Parent[x] \notin gone
          /\ x \notin watchedDirs /\ Expected(x)
    /\ Unread \subseteq Unread'
    /\ \A e \in Unread' : e \notin Unread =>
          /\ e.wd \in marks \cup {Nothing}
          /\ e.kind = "overflow" => e.wd = Nothing
          /\ e.kind = "made" =>
                e.dir \in come /\ e.wd = node[Parent[e.dir]] /\ e.wd \in marks
    /\ \A t \in Trees : \A x \in come \cap Under[t] :
          \E e \in Unread' : e.kind = "made" /\ e.dir = x /\ e.wd = node[Parent[x]]
    /\ \A x \in gone : node[Parent[x]] \in marks =>
          \E e \in Unread' :
              e.kind = "overflow" \/ (e.kind = "gone" /\ e.wd = node[Parent[x]])
    /\ \A x \in written :
          /\ Exists(x)
          /\ node[x] \in marks =>
                \E e \in Unread' :
                    e.kind = "overflow" \/ (e.kind = "file" /\ e.wd = node[x])
    /\ UNCHANGED <<files, registryVars, fileVars, dirtVars, daemonVars, buildVars>>

\* Files are written.
LEMMA WriteIsAShift ==
    ASSUME Registry, NEW d \in Dirs, WriteFile(d)
    PROVE  Shift({}, {}, {d})
<1>1. /\ Exists(d) /\ UNCHANGED <<node, files, marks, registryVars, fileVars,
                                  dirtVars, daemonVars, buildVars>>
      /\ queue' = Queued(queue, node[d], "file", Nothing)
      /\ \E v \in Versions : disk' = [disk EXCEPT ![d] = v]
  BY Zenon DEF WriteFile
<1>2. queue \in Seq(NamedEvents) /\ node[d] \in Nodes \cup {Nothing}
      /\ "file" \in Kinds \ {"overflow"}
  BY NodesAreTyped DEF Registry, TypeInvariant, QueueTyped, Kinds
<1>3. PICK e : e = [wd |-> node[d], kind |-> "file", dir |-> Nothing]
  OBVIOUS
<1>4. Queues(queue, queue', e)
  BY <1>1, <1>2, <1>3, QueuedEvents
<1>5. \A x \in Dirs \ {d} : disk'[x] = disk[x]
  BY <1>1 DEF Registry, TypeInvariant, CorpusTyped
<1> QED BY <1>1, <1>3, <1>4, <1>5 DEF Shift, Unread, Overflow, Queues

\* A queue with room, as it is where a directory may appear.
LEMMA ExpectedHasRoom ==
    ASSUME Registry, NEW t \in Trees, NEW d \in Under[t], Expected(d)
    PROVE  /\ node[Parent[d]] \in marks /\ node[Parent[d]] \in WatchesOf(t)
           /\ Len(queue) + 1 < QueueLimit /\ Len(queue) < QueueLimit
           /\ Overflow \notin EventsIn(queue)
<1>1. /\ node[Parent[d]] \in WatchesOf(t) \cap marks
      /\ Len(queue) + 1 < QueueLimit
      /\ \A i \in DOMAIN queue : queue[i] # Overflow
  BY DEF Expected
<1>2. Len(queue) \in Nat
  BY DEF Registry, TypeInvariant, QueueTyped
<1> QED BY <1>1, <1>2, ConstantsAssumption DEF EventsIn

\* A directory is made.
LEMMA MakeIsAShift ==
    ASSUME Registry, Calm, NEW d \in Dirs, MakeDir(d)
    PROVE  /\ Shift({}, {d}, {})
           /\ node' \in [Dirs -> Nodes \cup {Nothing}]
           /\ \A x \in Dirs \ {d} : node'[x] # node'[d]
           /\ node'[d] \in Nodes \ NodesInUse /\ disk'[d] \in Versions
           /\ marks' = marks
<1>1. /\ MayAppear(d)
      /\ queue' = Queued(queue, node[Parent[d]], "made", d)
      /\ \E n \in Nodes \ NodesInUse : node' = [node EXCEPT ![d] = n]
      /\ \E v \in Versions : disk' = [disk EXCEPT ![d] = v]
      /\ UNCHANGED <<files, marks, registryVars, fileVars, dirtVars, daemonVars,
                     buildVars>>
  BY Zenon DEF MakeDir
<1>2. queue \in Seq(NamedEvents) /\ node[Parent[d]] \in Nodes \cup {Nothing}
      /\ "made" \in Kinds \ {"overflow"} /\ Parent[d] \in Dirs
  BY NodesAreTyped DEF Registry, TypeInvariant, QueueTyped, Kinds
<1>3. PICK e : e = [wd |-> node[Parent[d]], kind |-> "made", dir |-> d]
  OBVIOUS
<1>4. Queues(queue, queue', e)
  BY <1>1, <1>2, <1>3, QueuedEvents
<1>5. /\ ~Exists(d) /\ Exists(Parent[d]) /\ d \notin watchedDirs /\ Expected(d)
  BY <1>1 DEF MayAppear, Calm
<1>6. /\ node \in [Dirs -> Nodes \cup {Nothing}]
      /\ disk \in [Dirs -> Versions \cup {Nothing}]
  BY DEF Registry, TypeInvariant, RegistryInvariant, CorpusTyped
<1>7. /\ \A x \in Dirs \ {d} : node'[x] = node[x] /\ disk'[x] = disk[x]
      /\ node' \in [Dirs -> Nodes \cup {Nothing}]
      /\ node'[d] \in Nodes \ NodesInUse /\ disk'[d] \in Versions
  BY <1>1, <1>6
<1>8. \A x \in Dirs \ {d} : node'[x] # node'[d]
  BY <1>7 DEF NodesInUse
<1>9. \A t \in Trees : d \in Under[t] => e \in EventsIn(queue')
  BY <1>3, <1>4, <1>5, ExpectedHasRoom DEF Queues
<1>10. Shift({}, {d}, {})
  BY <1>1, <1>3, <1>4, <1>5, <1>7, <1>9 DEF Shift, Unread, Overflow, Queues
<1> QED BY <1>1, <1>7, <1>8, <1>10

\* A directory that has none is removed, and its mark with it.
LEMMA RemoveIsAShift ==
    ASSUME Registry, NEW d \in Dirs, RemoveDir(d)
    PROVE  /\ Shift({d}, {}, {})
           /\ disk'[d] = Nothing /\ marks' = marks \ {node[d]}
<1> DEFINE q == Queued(queue, node[Parent[d]], "gone", d)
<1>1. /\ Exists(d) /\ \A c \in Children(d) : ~Exists(c)
      /\ \A t \in Trees : IndexRoot[t] # d
      /\ node' = [node EXCEPT ![d] = Nothing]
      /\ disk' = [disk EXCEPT ![d] = Nothing]
      /\ queue' = Queued(q, node[d], "self", Nothing)
      /\ marks' = marks \ {node[d]}
      /\ UNCHANGED <<files, registryVars, fileVars, dirtVars, daemonVars, buildVars>>
  BY Zenon DEF RemoveDir
<1>2. queue \in Seq(NamedEvents) /\ node[Parent[d]] \in Nodes \cup {Nothing}
      /\ node[d] \in Nodes \cup {Nothing} /\ {"gone", "self"} \subseteq Kinds \ {"overflow"}
  BY NodesAreTyped DEF Registry, TypeInvariant, QueueTyped, Kinds
<1>3. PICK e : e = [wd |-> node[Parent[d]], kind |-> "gone", dir |-> d]
  OBVIOUS
<1>4. PICK f : f = [wd |-> node[d], kind |-> "self", dir |-> Nothing]
  OBVIOUS
<1>5. Queues(queue, q, e)
  BY <1>2, <1>3, QueuedEvents
<1> HIDE DEF q
<1>6. Queues(q, queue', f)
  BY <1>1, <1>2, <1>4, <1>5, QueuedEvents DEF Queues
<1>7. /\ node \in [Dirs -> Nodes \cup {Nothing}]
      /\ disk \in [Dirs -> Versions \cup {Nothing}]
  BY DEF Registry, TypeInvariant, RegistryInvariant, CorpusTyped
<1>8. /\ \A x \in Dirs \ {d} : node'[x] = node[x] /\ disk'[x] = disk[x]
      /\ node'[d] = Nothing /\ disk'[d] = Nothing
  BY <1>1, <1>7
<1>9. \A x \in EventsIn(queue') : x \in EventsIn(queue)
            \/ (x \in {e, f, Overflow} /\ x.wd \in marks \cup {Nothing})
  BY <1>3, <1>4, <1>5, <1>6 DEF Overflow, Queues
<1>10. Shift({d}, {}, {})
  BY <1>1, <1>3, <1>4, <1>5, <1>6, <1>8, <1>9 DEF Shift, Unread, Overflow, Queues
<1> QED BY <1>1, <1>8, <1>10

\* A directory that has none moves, and its mark with it.
LEMMA MoveIsAShift ==
    ASSUME Registry, Calm, NEW d \in Dirs, NEW to \in Dirs, MoveDir(d, to)
    PROVE  /\ Shift({d}, {to}, {})
           /\ Children(d) = {} /\ Children(to) = {} /\ d # to
           /\ node'[to] = node[d] /\ disk'[to] = disk[d] /\ disk'[d] = Nothing
           /\ marks' = marks
<1> DEFINE q1 == Queued(queue, node[Parent[d]], "gone", d)
           q2 == Queued(q1, node[Parent[to]], "made", to)
<1>1. /\ Exists(d) /\ Children(d) = {} /\ Children(to) = {}
      /\ \A t \in Trees : IndexRoot[t] # d
      /\ MayAppear(to)
      /\ node' = [node EXCEPT ![d] = Nothing, ![to] = node[d]]
      /\ disk' = [disk EXCEPT ![d] = Nothing, ![to] = disk[d]]
      /\ queue' = Queued(q2, node[d], "self", Nothing)
      /\ UNCHANGED <<files, marks, registryVars, fileVars, dirtVars, daemonVars,
                     buildVars>>
  BY Zenon DEF MoveDir
<1>2. /\ queue \in Seq(NamedEvents) /\ node[Parent[d]] \in Nodes \cup {Nothing}
      /\ node[d] \in Nodes \cup {Nothing} /\ node[Parent[to]] \in Nodes \cup {Nothing}
      /\ {"gone", "self", "made"} \subseteq Kinds \ {"overflow"}
  BY NodesAreTyped DEF Registry, TypeInvariant, QueueTyped, Kinds
<1>3. PICK e : e = [wd |-> node[Parent[d]], kind |-> "gone", dir |-> d]
  OBVIOUS
<1>4. PICK m : m = [wd |-> node[Parent[to]], kind |-> "made", dir |-> to]
  OBVIOUS
<1>5. PICK f : f = [wd |-> node[d], kind |-> "self", dir |-> Nothing]
  OBVIOUS
<1>6. Queues(queue, q1, e)
  BY <1>2, <1>3, QueuedEvents
<1>7. Queues(q1, q2, m)
  <2> HIDE DEF q1
  <2> QED BY <1>2, <1>4, <1>6, QueuedEvents DEF Queues
<1> HIDE DEF q2
<1>8. Queues(q2, queue', f)
  BY <1>1, <1>2, <1>5, <1>7, QueuedEvents DEF Queues
<1> HIDE DEF q1
<1>9. /\ ~Exists(to) /\ Exists(Parent[to]) /\ to \notin watchedDirs /\ Expected(to)
      /\ Parent[to] # d
  BY <1>1 DEF MayAppear, Calm, Children
<1>10. d # to
  BY <1>1, <1>9
<1>11. /\ node \in [Dirs -> Nodes \cup {Nothing}]
       /\ disk \in [Dirs -> Versions \cup {Nothing}]
  BY DEF Registry, TypeInvariant, RegistryInvariant, CorpusTyped
<1>12. /\ \A x \in Dirs \ {d, to} : node'[x] = node[x] /\ disk'[x] = disk[x]
       /\ node'[d] = Nothing /\ disk'[d] = Nothing
       /\ node'[to] = node[d] /\ disk'[to] = disk[d]
  BY <1>1, <1>10, <1>11
<1>13. /\ EventsIn(queue) \subseteq EventsIn(queue')
       /\ \A x \in EventsIn(queue') : x \in EventsIn(queue)
             \/ (x \in {e, m, f, Overflow} /\ x.wd \in marks \cup {Nothing})
             \/ (x = m /\ x.wd \in marks)
  BY <1>6, <1>7, <1>8 DEF Queues, Overflow
<1>14. m \in EventsIn(queue') => m \in EventsIn(queue) \/ m.wd \in marks
  <2>1. m # e /\ m # f /\ m # Overflow
    BY <1>3, <1>4, <1>5 DEF Overflow
  <2> QED BY <2>1, <1>6, <1>7, <1>8 DEF Queues
<1>15. node[Parent[d]] \in marks => e \in EventsIn(queue') \/ Overflow \in EventsIn(queue')
  BY <1>3, <1>6, <1>7, <1>8 DEF Queues
<1>16. \A t \in Trees : to \in Under[t] => m \in EventsIn(queue')
  <2> SUFFICES ASSUME NEW t \in Trees, to \in Under[t] PROVE m \in EventsIn(queue')
    OBVIOUS
  <2>1. /\ node[Parent[to]] \in marks /\ Overflow \notin EventsIn(queue)
        /\ Len(queue) + 1 < QueueLimit /\ Len(queue) < QueueLimit
    BY <1>9, ExpectedHasRoom
  <2>2. Overflow \notin EventsIn(q1) /\ Len(q1) <= Len(queue) + 1
    BY <1>6, <2>1 DEF Queues
  <2>3. Len(q1) < QueueLimit
    <3>1. Len(q1) \in Nat /\ Len(queue) \in Nat
      BY <1>2, <1>6 DEF Queues
    <3> QED BY <2>1, <2>2, <3>1, ConstantsAssumption
  <2> QED BY <1>4, <1>7, <1>8, <2>1, <2>2, <2>3 DEF Queues
<1>17. Shift({d}, {to}, {})
  <2>1. \A x \in Unread' : x \notin Unread =>
          /\ x.wd \in marks \cup {Nothing}
          /\ x.kind = "overflow" => x.wd = Nothing
          /\ x.kind = "made" =>
                x.dir \in {to} /\ x.wd = node[Parent[x.dir]] /\ x.wd \in marks
    <3> SUFFICES ASSUME NEW x \in EventsIn(queue'), x \notin EventsIn(queue)
                 PROVE  /\ x.wd \in marks \cup {Nothing}
                        /\ x.kind = "overflow" => x.wd = Nothing
                        /\ x.kind = "made" => x.dir \in {to}
                              /\ x.wd = node[Parent[x.dir]] /\ x.wd \in marks
      BY DEF Unread
    <3>1. x \in {e, m, f, Overflow} /\ x.wd \in marks \cup {Nothing}
      BY <1>13
    <3>2. CASE x = m
      BY <1>4, <1>14, <3>1, <3>2
    <3>3. CASE x \in {e, f, Overflow}
      BY <1>3, <1>5, <3>1, <3>3 DEF Overflow
    <3> QED BY <3>1, <3>2, <3>3
  <2>2. Unread \subseteq Unread'
    BY <1>13 DEF Unread
  <2>3. \A t \in Trees : \A x \in {to} \cap Under[t] :
           \E y \in Unread' : y.kind = "made" /\ y.dir = x /\ y.wd = node[Parent[x]]
    BY <1>4, <1>16 DEF Unread
  <2>4. node[Parent[d]] \in marks =>
          \E y \in Unread' :
              y.kind = "overflow" \/ (y.kind = "gone" /\ y.wd = node[Parent[d]])
    BY <1>3, <1>15 DEF Unread, Overflow
  <2>5. /\ Exists(d) /\ node'[d] = Nothing
        /\ \A t \in Trees : d # IndexRoot[t]
        /\ \A c \in Children(d) : ~Exists(c)
    BY <1>1, <1>12
  <2> HIDE DEF Unread
  <2> QED BY <1>1, <1>9, <1>12, <2>1, <2>2, <2>3, <2>4, <2>5 DEF Shift
<1> QED BY <1>1, <1>10, <1>12, <1>17

\* The parent of a directory that stays is there all along.
LEMMA ParentsStay ==
    ASSUME Registry, NEW gone, NEW come, NEW written, Shift(gone, come, written),
           NEW d \in Dirs \ (gone \cup come), Exists(d)
    PROVE  /\ Parent[d] \in Dirs \ (gone \cup come) /\ Exists(Parent[d])
           /\ node'[d] = node[d] /\ node'[Parent[d]] = node[Parent[d]]
<1>1. Parent[d] \in Dirs /\ Exists(Parent[d])
  BY ConstantsAssumption DEF Registry, CorpusIsATree
<1>2. Parent[d] \notin come
  BY <1>1 DEF Shift
<1>3. Parent[d] \notin gone
  BY <1>1 DEF Shift, Children
<1> QED BY <1>1, <1>2, <1>3 DEF Shift

\* So is the parent of one that comes or goes.
LEMMA ParentsOfTheShiftedStay ==
    ASSUME Registry, NEW gone, NEW come, NEW written, Shift(gone, come, written),
           NEW d \in gone \cup come, Parent[d] # d
    PROVE  /\ Parent[d] \in Dirs \ (gone \cup come) /\ Exists(Parent[d])
           /\ node'[Parent[d]] = node[Parent[d]]
<1>1. d \in Dirs /\ Parent[d] \in Dirs /\ d \in Children(Parent[d])
  BY ConstantsAssumption DEF Shift, Children
<1>2. Exists(Parent[d])
  BY <1>1 DEF Shift, Registry, CorpusIsATree
<1>3. Parent[d] \notin come
  BY <1>2 DEF Shift
<1>4. Parent[d] \notin gone
  BY <1>1 DEF Shift
<1> QED BY <1>1, <1>2, <1>3, <1>4 DEF Shift

\* A ready tree is told of a directory of it that comes or goes: its parent is
\* watched, or it is told of the parent.
LEMMA ShiftIsTold ==
    ASSUME CoverageInvariant, Layout,
           NEW gone, NEW come, NEW written, Shift(gone, come, written),
           NEW t \in Trees, ready[t], Wide \notin drained[t],
           NEW x \in Under[t], x \in gone \cup come
    PROVE  Told(t)'
<1>1. Registry
  BY DEF CoverageInvariant, Registry
<1>2. watchedDirs' = watchedDirs
  BY DEF Shift, registryVars
<1>3. ASSUME NEW e \in Unread', e.kind # "file", NEW p \in Under[t],
             p \in Dirs \ (gone \cup come), Exists(p), p \in watchedDirs,
             e.wd = node[p]
      PROVE  Told(t)'
  <2>1. node'[p] = node[p]
    BY <1>3 DEF Shift
  <2> QED BY <1>2, <1>3, <2>1 DEF Told, Exists
<1>4. CASE x \in come
  <2>1. Parent[x] # x
    BY <1>4 DEF Shift
  <2>2. /\ Parent[x] \in Dirs \ (gone \cup come) /\ Exists(Parent[x])
    BY <1>1, <1>4, <2>1, ParentsOfTheShiftedStay
  <2>3. node[Parent[x]] \in WatchesOf(t) /\ node[Parent[x]] \in Registered
    BY <1>4 DEF Shift, Expected, WatchesOf
  <2>4. x \in Dirs
    BY <1>4 DEF Shift
  <2>5. byWatch[node[Parent[x]]].dir = Parent[x]
    BY <1>1, <2>1, <2>2, <2>3, <2>4, ParentsAreTrue
  <2>6. Parent[x] \in watchedDirs /\ Parent[x] \in Under[t]
    BY <1>1, <2>3, <2>5
       DEF Registry, TypeInvariant, RegistryInvariant, BudgetIsHonest,
           EntriesAreTrue, WatchesOf
  <2>7. PICK e \in Unread' : e.kind = "made" /\ e.wd = node[Parent[x]]
    BY <1>4 DEF Shift
  <2> QED BY <1>3, <2>2, <2>6, <2>7
<1>5. CASE x \in gone
  <2>1. Parent[x] \in Under[t] /\ Parent[x] # x
    BY <1>5 DEF Shift, Layout
  <2>2. /\ Parent[x] \in Dirs \ (gone \cup come) /\ Exists(Parent[x])
    BY <1>1, <1>5, <2>1, ParentsOfTheShiftedStay
  <2>3. CASE Parent[x] \in watchedDirs
    <3>1. node[Parent[x]] \in marks
      BY <1>1, <2>2, <2>3, WatchedIsRegistered
    <3>2. PICK e \in Unread' :
              e.kind = "overflow" \/ (e.kind = "gone" /\ e.wd = node[Parent[x]])
      BY <1>5, <3>1 DEF Shift
    <3>3. CASE e.kind = "overflow"
      BY <3>3 DEF Told
    <3>4. CASE e.kind = "gone" /\ e.wd = node[Parent[x]]
      BY <1>3, <2>1, <2>2, <2>3, <3>4
    <3> QED BY <3>2, <3>3, <3>4
  <2>4. CASE Parent[x] \notin watchedDirs
    <3>1. PICK e \in Unread :
              /\ e.kind = "made" /\ e.wd = node[Parent[Parent[x]]]
              /\ Parent[Parent[x]] \in Under[t]
              /\ Parent[Parent[x]] \in watchedDirs /\ Exists(Parent[Parent[x]])
      BY <2>1, <2>2, <2>4, UncoveredIsTold DEF Uncovered
    <3>2. Parent[Parent[x]] \in Dirs \ (gone \cup come)
      BY <1>1, <2>2, ParentsStay
    <3>3. e \in Unread'
      BY DEF Shift
    <3> QED BY <1>3, <3>1, <3>2, <3>3
  <2> QED BY <2>3, <2>4
<1> QED BY <1>4, <1>5

\* What a ready tree is told of, and what is pending in it, stays so while its
\* directories stay.
LEMMA ShiftKeepsWhatIsTold ==
    ASSUME CoverageInvariant, Layout,
           NEW gone, NEW come, NEW written, Shift(gone, come, written),
           NEW t \in Trees, ready[t], Wide \notin drained[t], ~Told(t)'
    PROVE  /\ ~Told(t)
           /\ \A x \in Under[t] : node'[x] = node[x]
           /\ Covered(t) => Covered(t)'
           /\ Covered(t) => \A x \in Under[t] :
                 /\ FilePending(x) => FilePending(x)'
                 /\ disk'[x] = disk[x] \/ (Exists(x) /\ FilePending(x)')
<1>1. \A x \in Under[t] : x \notin gone \cup come
  BY ShiftIsTold
<1>2. \A x \in Under[t] : x \in Dirs
  BY ConstantsAssumption
<1>3. \A x \in Under[t] : node'[x] = node[x]
  BY <1>1, <1>2 DEF Shift
<1>4. watchedDirs' = watchedDirs /\ Unread \subseteq Unread'
  BY DEF Shift, registryVars
<1>5. ~Told(t)
  BY <1>3, <1>4 DEF Told, Exists
<1>6. Covered(t) => Covered(t)'
  BY <1>3, <1>4 DEF Covered, Exists
<1>7. ASSUME Covered(t), NEW x \in Under[t]
      PROVE  /\ FilePending(x) => FilePending(x)'
             /\ disk'[x] = disk[x] \/ (Exists(x) /\ FilePending(x)')
  <2>1. FilePending(x) => FilePending(x)'
    BY <1>3, <1>4 DEF FilePending
  <2>2. CASE x \notin written
    BY <1>1, <1>2, <2>1, <2>2 DEF Shift
  <2>3. CASE x \in written
    <3>1. Exists(x) /\ x \in watchedDirs
      BY <1>7, <2>3 DEF Shift, Covered
    <3>2. node[x] \in marks
      BY <3>1, WatchedIsRegistered DEF CoverageInvariant, Registry
    <3>3. PICK e \in Unread' : e.kind = "overflow" \/ (e.kind = "file" /\ e.wd = node[x])
      BY <2>3, <3>2 DEF Shift
    <3>4. e.kind # "overflow"
      BY DEF Told
    <3> QED BY <1>3, <2>1, <3>1, <3>3, <3>4 DEF FilePending
  <2> QED BY <2>1, <2>2, <2>3
<1> QED BY <1>3, <1>5, <1>6, <1>7

\* What is told of a shift is of registered directories.
LEMMA ShiftKeepsTheEvents ==
    ASSUME CoverageInvariant, NEW gone, NEW come, NEW written,
           Shift(gone, come, written)
    PROVE  EventsAreOfTheRegistered'
<1>1. Registry
  BY DEF CoverageInvariant, Registry
<1>2. byWatch' = byWatch /\ Registered' = Registered
  BY DEF Shift, registryVars, Registered
<1> SUFFICES ASSUME NEW e \in Unread'
             PROVE  /\ e.wd \in Registered \cup {Nothing}
                    /\ e.kind = "overflow" => e.wd = Nothing
                    /\ e.kind = "made" => /\ e.wd \in Registered
                                          /\ Parent[e.dir] # e.dir
                                          /\ byWatch[e.wd].dir = Parent[e.dir]
  BY <1>2 DEF EventsAreOfTheRegistered
<1>3. CASE e \in Unread
  BY <1>1, <1>3 DEF Registry, EventsAreOfTheRegistered
<1>4. CASE e \notin Unread
  <2>1. marks \subseteq Registered
    BY <1>1 DEF Registry, TypeInvariant, RegistryInvariant, MarksAreRegistered
  <2>2. e.wd \in marks \cup {Nothing} /\ (e.kind = "overflow" => e.wd = Nothing)
    BY <1>4 DEF Shift
  <2>3. ASSUME e.kind = "made"
        PROVE  /\ e.wd \in Registered /\ Parent[e.dir] # e.dir
               /\ byWatch[e.wd].dir = Parent[e.dir]
    <3>1. e.dir \in come /\ e.wd = node[Parent[e.dir]] /\ e.wd \in marks
      BY <1>4, <2>3 DEF Shift
    <3>2. e.dir \in Dirs /\ Parent[e.dir] # e.dir /\ Exists(Parent[e.dir])
      BY <3>1 DEF Shift
    <3> QED BY <1>1, <2>1, <3>1, <3>2, ParentsAreTrue
  <2> QED BY <2>1, <2>2, <2>3
<1> QED BY <1>3, <1>4

\* A list that is not in force misses no directory that comes.
LEMMA ShiftKeepsTheLists ==
    ASSUME CoverageInvariant, NEW gone, NEW come, NEW written,
           Shift(gone, come, written)
    PROVE  ListsAreWhole'
<1>1. listed' = listed /\ synced' = synced /\ ListsAreWhole
  BY DEF Shift, fileVars, CoverageInvariant
<1>2. ASSUME NEW t \in Trees, listed[t] # {}, ~synced[t], NEW d \in Under[t], Exists(d)'
      PROVE  d \in listed[t]
  <2>1. d \in Dirs
    BY ConstantsAssumption
  <2>2. d \notin come
    BY <1>2 DEF Shift, Expected
  <2>3. d \notin gone
    BY <1>2 DEF Shift, Exists
  <2>4. Exists(d)
    BY <1>2, <2>1, <2>2, <2>3 DEF Shift, Exists
  <2> QED BY <1>1, <1>2, <2>4 DEF ListsAreWhole
<1> QED BY <1>1, <1>2 DEF ListsAreWhole

\* What comes is announced, and what was announced stays so.
LEMMA ShiftKeepsTheAnnounced ==
    ASSUME CoverageInvariant, NEW gone, NEW come, NEW written,
           Shift(gone, come, written)
    PROVE  UncoveredIsAnnounced'
<1>1. Registry /\ UncoveredIsAnnounced
  BY DEF CoverageInvariant, Registry
<1>2. UNCHANGED <<watchedDirs, ready, dpc, task>>
  BY DEF Shift, registryVars, fileVars, daemonVars
<1>3. \A t : Covering(t)' <=> Covering(t)
  BY <1>2 DEF Covering, Registering
<1>4. ASSUME NEW d \in Dirs, Exists(d)', d \notin come
      PROVE  d \in Dirs \ (gone \cup come) /\ Exists(d)
  <2>1. d \notin gone
    BY <1>4 DEF Shift, Exists
  <2> QED BY <1>4, <2>1 DEF Shift, Exists
<1>5. ASSUME NEW d \in Dirs, Exists(d)', d \notin come
      PROVE  Made(d) <=> Made(d)'
  <2>1. node'[Parent[d]] = node[Parent[d]]
    BY <1>1, <1>4, <1>5, ParentsStay
  <2>2. Unread \subseteq Unread' /\ \A e \in Unread' : e \notin Unread =>
            (e.kind = "made" => e.dir \in come)
    BY DEF Shift
  <2> QED BY <1>5, <2>1, <2>2 DEF Made
<1>6. ASSUME NEW t \in Trees, ready[t] \/ Covering(t), NEW d \in Under[t], Uncovered(d)'
      PROVE  Made(d)' \/ (Covering(t) /\ (InHand(d)' \/ Below(t, d)'))
  <2>1. d \in Dirs /\ Exists(d)'
    BY <1>6, ConstantsAssumption DEF Uncovered
  <2>2. CASE d \in come
    <3>1. PICK e \in Unread' : e.kind = "made" /\ e.dir = d /\ e.wd = node[Parent[d]]
      BY <2>2 DEF Shift
    <3>2. Parent[d] # d
      BY <2>2 DEF Shift
    <3>3. node'[Parent[d]] = node[Parent[d]]
      BY <1>1, <2>2, <3>2, ParentsOfTheShiftedStay
    <3> QED BY <3>1, <3>3 DEF Made
  <2>3. CASE d \notin come
    <3>1. Exists(d) /\ d \in Dirs \ (gone \cup come)
      BY <1>4, <2>1, <2>3
    <3>2. Uncovered(d)
      BY <1>2, <1>6, <3>1 DEF Uncovered
    <3>3. Made(d) \/ (Covering(t) /\ (InHand(d) \/ Below(t, d)))
      BY <1>1, <1>6, <3>2 DEF UncoveredIsAnnounced
    <3>4. CASE Made(d)
      BY <1>5, <2>1, <2>3, <3>4
    <3>5. CASE Covering(t) /\ InHand(d)
      BY <1>2, <3>5 DEF InHand
    <3>6. CASE Covering(t) /\ Below(t, d)
      <4>1. /\ Parent[d] \in Dirs \ (gone \cup come)
            /\ node'[Parent[d]] = node[Parent[d]]
        BY <1>1, <3>1, ParentsStay
      <4>2. Uncovered(Parent[d])'
        BY <1>2, <3>6, <4>1 DEF Below, Uncovered, Exists
      <4>3. ~Made(Parent[d])'
        BY <1>5, <3>6, <4>1, <4>2 DEF Below, Uncovered
      <4> QED BY <1>2, <3>6, <4>2, <4>3 DEF Below
    <3> QED BY <3>3, <3>4, <3>5, <3>6
  <2> QED BY <2>2, <2>3
<1> QED BY <1>2, <1>3, <1>6 DEF UncoveredIsAnnounced

\* What a generation of a ready tree misses is known or announced.
LEMMA ShiftKeepsTheAgreement ==
    ASSUME CoverageInvariant, Layout, NEW gone, NEW come, NEW written,
           Shift(gone, come, written)
    PROVE  ReadyTreesAgree'
<1>1. UNCHANGED <<ready, dirtVars, index>>
  BY DEF Shift, fileVars, buildVars
<1>2. ASSUME NEW t \in Trees, ready[t], Wide \notin sincePublish[t] \cup drained[t],
             ~Told(t)'
      PROVE  Covered(t)' /\ Agrees(t, sincePublish[t])'
  <2>1. /\ ~Told(t) /\ \A x \in Under[t] : node'[x] = node[x]
        /\ Covered(t) => Covered(t)'
        /\ Covered(t) => \A x \in Under[t] :
                 /\ FilePending(x) => FilePending(x)'
                 /\ disk'[x] = disk[x] \/ (Exists(x) /\ FilePending(x)')
    BY <1>2, ShiftKeepsWhatIsTold
  <2>2. Covered(t) /\ Agrees(t, sincePublish[t])
    BY <1>2, <2>1 DEF CoverageInvariant, ReadyTreesAgree
  <2>3. ASSUME NEW d \in Under[t], index[t][d] # disk'[d]
        PROVE  /\ Exists(d)'
               /\ d \in sincePublish[t] \cup drained[t] \/ FilePending(d)'
    BY <2>1, <2>2, <2>3 DEF Agrees, Exists
  <2> QED BY <1>1, <2>1, <2>2, <2>3 DEF Agrees, dirtVars
<1> QED BY <1>1, <1>2 DEF ReadyTreesAgree, dirtVars

\* Nothing comes where a rebuild walks.
LEMMA ShiftKeepsTheWalk ==
    ASSUME CoverageInvariant, Layout, NEW gone, NEW come, NEW written,
           Shift(gone, come, written)
    PROVE  WalkGetsEverywhere' /\ WalkAgrees'
<1>1. UNCHANGED <<dirtVars, build, index, ready>>
  BY DEF Shift, buildVars, fileVars
<1>2. WalkGetsEverywhere /\ WalkAgrees /\ DaemonIsWhereItIs /\ TypeInvariant
  BY DEF CoverageInvariant
<1>3. ASSUME build.phase # "none"
      PROVE  build.tree \in Trees /\ ready[build.tree]
  BY <1>2, <1>3 DEF DaemonIsWhereItIs, TypeInvariant, DaemonTyped
<1>4. ASSUME build.phase # "none", NEW d \in Under[build.tree], Exists(d)'
      PROVE  Exists(d)
  <2>1. d \in Dirs
    BY <1>3, <1>4, ConstantsAssumption
  <2>2. d \notin come
    BY <1>3, <1>4 DEF Shift, Expected
  <2>3. d \notin gone
    BY <1>4 DEF Shift, Exists
  <2> QED BY <1>4, <2>1, <2>2, <2>3 DEF Shift, Exists
<1>5. WalkGetsEverywhere'
  BY <1>1, <1>2, <1>4 DEF WalkGetsEverywhere, Walked
<1>6. WalkAgrees'
  <2> SUFFICES ASSUME Walked, NEW t, t = build.tree
               PROVE  /\ Wide \in sincePublish[t] \/ sinceWalk[t] \subseteq sincePublish[t]
                      /\ Wide \notin sinceWalk[t] \cup drained[t] /\ ~Told(t)' =>
                            /\ Covered(t)'
                            /\ \A d \in build.seen :
                                  /\ Exists(d)'
                                  /\ build.got[d] # disk'[d] =>
                                        d \in sinceWalk[t] \cup drained[t]
                                           \/ FilePending(d)'
    BY <1>1 DEF WalkAgrees, Walked, dirtVars
  <2>1. t \in Trees /\ ready[t] /\ build.seen \subseteq Under[t]
    BY <1>2, <1>3 DEF Walked, WalkGetsEverywhere
  <2>2. ASSUME Wide \notin sinceWalk[t] \cup drained[t], ~Told(t)'
        PROVE  /\ Covered(t)'
               /\ \A d \in build.seen :
                     /\ Exists(d)'
                     /\ build.got[d] # disk'[d] =>
                           d \in sinceWalk[t] \cup drained[t] \/ FilePending(d)'
    <3>1. /\ ~Told(t) /\ \A x \in Under[t] : node'[x] = node[x]
          /\ Covered(t) => Covered(t)'
          /\ Covered(t) => \A x \in Under[t] :
                 /\ FilePending(x) => FilePending(x)'
                 /\ disk'[x] = disk[x] \/ (Exists(x) /\ FilePending(x)')
      BY <2>1, <2>2, ShiftKeepsWhatIsTold
    <3>2. /\ Covered(t)
          /\ \A d \in build.seen :
                /\ Exists(d)
                /\ build.got[d] # disk[d] =>
                      d \in sinceWalk[t] \cup drained[t] \/ FilePending(d)
      BY <1>2, <2>2, <3>1 DEF WalkAgrees
    <3> QED BY <2>1, <3>1, <3>2 DEF Exists
  <2> QED BY <1>2, <2>2 DEF WalkAgrees
<1> QED BY <1>5, <1>6

\* Coverage, of all that the corpus leaves to the daemon.
LEMMA ShiftKeepsTheRest ==
    ASSUME CoverageInvariant, Layout, NEW gone, NEW come, NEW written,
           Shift(gone, come, written)
    PROVE  DaemonIsWhereItIs' /\ WatchedTreesAreTended' /\ GrowthIsDirty'
<1>1. UNCHANGED <<byWatch, watchedDirs, fileVars, dirtVars, daemonVars, build>>
  BY DEF Shift, registryVars, buildVars
<1> QED
  BY <1>1
     DEF CoverageInvariant, DaemonIsWhereItIs, WatchedTreesAreTended,
         GrowthIsDirty, Syncing, Registering, WatchesOf, Registered, fileVars,
         dirtVars, daemonVars

\* Directories stay a forest, and entries stay true of what is there.
LEMMA WriteKeepsTheCorpus ==
    ASSUME Registry, NEW d \in Dirs, WriteFile(d)
    PROVE  CorpusIsATree' /\ EntriesAreTrue' /\ OnlyLeavesMove'
<1>1. UNCHANGED <<node, files, marks, byWatch>>
  BY DEF WriteFile, registryVars
<1>2. \E v \in Versions : disk' = [disk EXCEPT ![d] = v]
  BY DEF WriteFile
<1>3. disk \in [Dirs -> Versions \cup {Nothing}]
  BY DEF Registry, TypeInvariant, CorpusTyped
<1>4. Exists(d)
  BY DEF WriteFile
<1>5. \A x \in Dirs : disk'[x] = Nothing <=> disk[x] = Nothing
  BY <1>2, <1>3, <1>4, ConstantsAssumption DEF Registry, CorpusIsATree
<1> QED
  BY <1>1, <1>5
     DEF Registry, CorpusIsATree, EntriesAreTrue, OnlyLeavesMove, Registered, Exists

LEMMA MakeKeepsTheCorpus ==
    ASSUME Registry, Calm, NEW d \in Dirs, MakeDir(d)
    PROVE  CorpusIsATree' /\ EntriesAreTrue' /\ OnlyLeavesMove'
<1>1. /\ Shift({}, {d}, {})
      /\ \A x \in Dirs \ {d} : node'[x] # node'[d]
      /\ node'[d] \in Nodes \ NodesInUse /\ disk'[d] \in Versions
      /\ marks' = marks
  BY MakeIsAShift
<1>2. /\ files' = files /\ byWatch' = byWatch /\ Registered' = Registered
      /\ \A x \in Dirs \ {d} : node'[x] = node[x] /\ disk'[x] = disk[x]
      /\ ~Exists(d) /\ Exists(Parent[d]) /\ d \notin watchedDirs
      /\ node'[d] # Nothing /\ disk'[d] # Nothing /\ node'[d] \notin Registered
  BY <1>1, ConstantsAssumption DEF Shift, registryVars, Registered, NodesInUse
<1>3. CorpusIsATree'
  <2>1. files' = {} /\ \A t \in Trees : Exists(IndexRoot[t])'
    BY <1>2, ConstantsAssumption DEF Registry, CorpusIsATree, Exists
  <2>2. \A x \in Dirs : Exists(x)' => Exists(Parent[x])'
    BY <1>2, ConstantsAssumption DEF Registry, CorpusIsATree, Exists
  <2>3. \A x, y \in Dirs : Exists(x)' /\ node'[x] = node'[y] => x = y
    BY <1>1, <1>2 DEF Registry, CorpusIsATree, Exists
  <2>4. \A x \in Dirs : disk'[x] = Nothing <=> ~Exists(x)'
    BY <1>2 DEF Registry, CorpusIsATree, Exists
  <2> QED BY <2>1, <2>2, <2>3, <2>4 DEF CorpusIsATree
<1>4. \A wd \in Registered : byWatch[wd].dir \in Dirs /\ byWatch[wd].dir # d
  BY <1>2 DEF Registry, TypeInvariant, RegistryInvariant, BudgetIsHonest,
              Registered, Watch
<1>5. EntriesAreTrue'
  BY <1>1, <1>2, <1>4 DEF Registry, EntriesAreTrue, Exists
<1>6. OnlyLeavesMove'
  BY <1>2 DEF Registry, OnlyLeavesMove, Exists
<1> QED BY <1>3, <1>5, <1>6

LEMMA RemoveKeepsTheCorpus ==
    ASSUME Registry, NEW d \in Dirs, RemoveDir(d)
    PROVE  CorpusIsATree' /\ EntriesAreTrue' /\ OnlyLeavesMove'
<1>1. /\ Shift({d}, {}, {})
      /\ disk'[d] = Nothing /\ marks' = marks \ {node[d]}
  BY RemoveIsAShift
<1>2. /\ files' = files /\ byWatch' = byWatch /\ Registered' = Registered
      /\ \A x \in Dirs \ {d} : node'[x] = node[x] /\ disk'[x] = disk[x]
      /\ \A t \in Trees : IndexRoot[t] # d
      /\ \A x \in Children(d) : ~Exists(x)
      /\ node'[d] = Nothing /\ Exists(d)
  BY <1>1, ConstantsAssumption DEF Shift, registryVars, Registered
<1>3. CorpusIsATree'
  <2>1. files' = {} /\ \A t \in Trees : Exists(IndexRoot[t])'
    BY <1>2, ConstantsAssumption DEF Registry, CorpusIsATree, Exists
  <2>2. \A x \in Dirs : Exists(x)' => Exists(Parent[x])'
    BY <1>2, ConstantsAssumption DEF Registry, CorpusIsATree, Exists, Children
  <2>3. \A x, y \in Dirs : Exists(x)' /\ node'[x] = node'[y] => x = y
    BY <1>1, <1>2 DEF Registry, CorpusIsATree, Exists
  <2>4. \A x \in Dirs : disk'[x] = Nothing <=> ~Exists(x)'
    BY <1>1, <1>2 DEF Registry, CorpusIsATree, Exists
  <2> QED BY <2>1, <2>2, <2>3, <2>4 DEF CorpusIsATree
<1>4. \A wd \in Registered : byWatch[wd].dir \in Dirs
  BY DEF Registry, TypeInvariant, RegistryInvariant, Registered, Watch
<1>5. \A x \in Dirs : Exists(x)' => Exists(x) /\ node'[x] = node[x] /\ node[x] # node[d]
  BY <1>2 DEF Registry, CorpusIsATree, Exists
<1>6. EntriesAreTrue'
  <2> SUFFICES ASSUME NEW wd \in Registered, NEW x \in Dirs, x = byWatch[wd].dir
               PROVE  /\ x \in Under[byWatch[wd].tree]
                      /\ node'[x] # Nothing => node'[x] = wd /\ wd \in marks'
    BY <1>2, <1>4 DEF EntriesAreTrue, Exists
  <2>1. /\ x \in Under[byWatch[wd].tree]
        /\ Exists(x) => node[x] = wd /\ wd \in marks
    BY DEF Registry, EntriesAreTrue
  <2> QED BY <1>1, <1>5, <2>1 DEF Exists
<1>7. OnlyLeavesMove'
  BY <1>2, <1>5 DEF Registry, OnlyLeavesMove, Exists
<1> QED BY <1>3, <1>6, <1>7

LEMMA MoveKeepsTheCorpus ==
    ASSUME Registry, Calm, NEW d \in Dirs, NEW to \in Dirs, MoveDir(d, to)
    PROVE  CorpusIsATree' /\ EntriesAreTrue' /\ OnlyLeavesMove'
<1>1. /\ Shift({d}, {to}, {})
      /\ Children(d) = {} /\ Children(to) = {} /\ d # to
      /\ node'[to] = node[d] /\ disk'[to] = disk[d] /\ disk'[d] = Nothing
      /\ marks' = marks
  BY MoveIsAShift
<1>2. /\ files' = files /\ byWatch' = byWatch /\ Registered' = Registered
      /\ \A x \in Dirs \ {d, to} : node'[x] = node[x] /\ disk'[x] = disk[x]
      /\ \A t \in Trees : IndexRoot[t] # d
      /\ node'[d] = Nothing /\ Exists(d)
      /\ ~Exists(to) /\ Exists(Parent[to]) /\ Parent[to] # d /\ Parent[to] # to
      /\ to \notin watchedDirs
  BY <1>1, ConstantsAssumption DEF Shift, registryVars, Registered
<1>3. CorpusIsATree'
  <2>1. files' = {} /\ \A t \in Trees : Exists(IndexRoot[t])'
    BY <1>1, <1>2, ConstantsAssumption DEF Registry, CorpusIsATree, Exists
  <2>2. \A x \in Dirs : Exists(x)' => Exists(Parent[x])'
    BY <1>1, <1>2, ConstantsAssumption DEF Registry, CorpusIsATree, Exists, Children
  <2>3. \A x, y \in Dirs : Exists(x)' /\ node'[x] = node'[y] => x = y
    BY <1>1, <1>2 DEF Registry, CorpusIsATree, Exists
  <2>4. \A x \in Dirs : disk'[x] = Nothing <=> ~Exists(x)'
    BY <1>1, <1>2 DEF Registry, CorpusIsATree, Exists
  <2> QED BY <2>1, <2>2, <2>3, <2>4 DEF CorpusIsATree
<1>4. \A wd \in Registered : byWatch[wd].dir \in Dirs /\ byWatch[wd].dir # to
  BY <1>2 DEF Registry, TypeInvariant, RegistryInvariant, BudgetIsHonest,
              Registered, Watch
<1>5. EntriesAreTrue'
  BY <1>1, <1>2, <1>4 DEF Registry, EntriesAreTrue, Exists
<1>6. OnlyLeavesMove'
  <2> SUFFICES ASSUME NEW x \in Dirs, Exists(x)', node'[x] \in Registered
               PROVE  \/ byWatch[node'[x]].dir = x
                      \/ Children(x) = {} /\ Children(byWatch[node'[x]].dir) = {}
    BY <1>2 DEF OnlyLeavesMove
  <2>1. CASE x = to
    <3>1. \/ byWatch[node[d]].dir = d
          \/ Children(d) = {} /\ Children(byWatch[node[d]].dir) = {}
      BY <1>1, <1>2, <2>1 DEF Registry, OnlyLeavesMove
    <3> QED BY <1>1, <2>1, <3>1
  <2>2. CASE x # to
    BY <1>2, <2>2 DEF Registry, OnlyLeavesMove, Exists
  <2> QED BY <2>1, <2>2
<1> QED BY <1>3, <1>5, <1>6

\* Whatever the corpus does.
LEMMA CorpusKeepsCoverage ==
    ASSUME CoverageInvariant, Setting, Corpus
    PROVE  CoverageInvariant'
<1>1. TypeInvariant'
  BY CorpusKeepsTypes DEF CoverageInvariant
<1>2. Registry /\ Calm /\ Layout
  BY DEF CoverageInvariant, Registry, Setting
<1>3. PICK gone, come, written : Shift(gone, come, written)
  <2>1. CASE \E d \in Dirs : WriteFile(d) \/ MakeDir(d) \/ RemoveDir(d)
    BY <1>2, <2>1, WriteIsAShift, MakeIsAShift, RemoveIsAShift
  <2>2. CASE \E d, e \in Dirs : MoveDir(d, e)
    BY <1>2, <2>2, MoveIsAShift
  <2> QED BY <1>2, <2>1, <2>2 DEF Corpus, ToggleFile, Calm
<1>4. CorpusIsATree' /\ EntriesAreTrue' /\ OnlyLeavesMove'
  <2>1. CASE \E d \in Dirs : WriteFile(d) \/ MakeDir(d) \/ RemoveDir(d)
    BY <1>2, <2>1, WriteKeepsTheCorpus, MakeKeepsTheCorpus, RemoveKeepsTheCorpus
  <2>2. CASE \E d, e \in Dirs : MoveDir(d, e)
    BY <1>2, <2>2, MoveKeepsTheCorpus
  <2> QED BY <1>2, <2>1, <2>2 DEF Corpus, ToggleFile, Calm
<1> QED
  BY <1>1, <1>2, <1>3, <1>4, ShiftKeepsTheEvents, ShiftKeepsTheLists,
     ShiftKeepsTheAnnounced, ShiftKeepsTheAgreement, ShiftKeepsTheWalk,
     ShiftKeepsTheRest
     DEF CoverageInvariant

-----------------------------------------------------------------------------
(***************************************************************************)
(* A registration.                                                         *)
(***************************************************************************)

\* The directories of a set have one whose parent is not in the set.
LEMMA SetsHaveATop ==
    ASSUME Layout, NEW S \in SUBSET Dirs, S # {}
    PROVE  \E d \in S : Parent[d] = d \/ Parent[d] \notin S
<1>1. PICK depth \in [Dirs -> Nat] :
          \A d \in Dirs : Parent[d] # d => depth[Parent[d]] < depth[d]
  BY DEF Layout
<1> DEFINE T == {depth[d] : d \in S}
           R == OpToRel(<, Nat)
<1>2. T \subseteq Nat /\ T # {}
  BY <1>1
<1>3. \E n \in T : \A m \in T : ~(<<m, n>> \in R)
  <2> HIDE DEF T, R
  <2> QED BY <1>2, NatLessThanWellFounded, WFMin DEF R
<1>4. PICK d \in S : \A e \in S : ~(<<depth[e], depth[d]>> \in R)
  BY <1>3
<1>5. \A e \in S : ~(depth[e] < depth[d])
  BY <1>1, <1>4 DEF OpToRel
<1> QED BY <1>1, <1>5

\* The budget counts every directory that is watched.
LEMMA WatchesAreCounted ==
    ASSUME RegistryInvariant, NEW wds \in SUBSET Registered
    PROVE  /\ IsFiniteSet(wds)
           /\ IsFiniteSet({byWatch[wd].dir : wd \in wds})
           /\ Cardinality({byWatch[wd].dir : wd \in wds}) = Cardinality(wds)
<1> DEFINE T == {byWatch[wd].dir : wd \in wds}
           f == [wd \in wds |-> byWatch[wd].dir]
<1>1. IsFiniteSet(wds)
  BY RegisteredIsFinite, FS_Subset
<1>2. \A v, w \in wds : byWatch[v].dir = byWatch[w].dir => v = w
  BY DEF RegistryInvariant, BudgetIsHonest
<1>3. f \in Bijection(wds, T)
  BY <1>2 DEF Bijection, Injection, Surjection, IsInjective
<1>4. ExistsBijection(wds, T)
  BY <1>3 DEF ExistsBijection
<1> QED BY <1>1, <1>4, FS_Bijection

\* There is room for a directory that is not watched.
LEMMA NothingIsSpent ==
    ASSUME RegistryInvariant, Layout, Room, NEW d \in Dirs, d \notin watchedDirs
    PROVE  held < Ceiling /\ ~Spent(d)
<1>1. /\ watchedDirs = {byWatch[wd].dir : wd \in Registered}
      /\ held = Cardinality(Registered)
      /\ IsFiniteSet(Registered) /\ Cardinality(Registered) \in Nat
  BY RegisteredIsFinite DEF RegistryInvariant, BudgetIsHonest
<1>2. Cardinality(watchedDirs) = held
  BY <1>1, WatchesAreCounted
<1>3. watchedDirs \in SUBSET Dirs
  BY <1>1 DEF RegistryInvariant, Registered, Watch
<1>4. IsFiniteSet(Dirs)
  BY DEF Layout
<1>5. /\ Cardinality(watchedDirs) <= Cardinality(Dirs)
      /\ Cardinality(Dirs) # Cardinality(watchedDirs)
  BY <1>3, <1>4, FS_Subset
<1>6. Cardinality(Dirs) \in Nat
  BY <1>4, FS_CardinalityType
<1>7. held < Ceiling /\ held < UserWatches
  BY <1>1, <1>2, <1>5, <1>6, ConstantsAssumption DEF Room
<1>8. Cardinality(marks) <= held /\ Cardinality(marks) \in Nat
  <2>1. marks \in SUBSET Registered
    BY DEF RegistryInvariant, MarksAreRegistered
  <2> QED BY <1>1, <2>1, FS_Subset, FS_CardinalityType
<1> QED BY <1>1, <1>7, <1>8, ConstantsAssumption DEF Spent

\* A directory is watched: under its path from now on, whatever path it was
\* watched under.
LEMMA InsertKeepsTheEntries ==
    ASSUME Registry, NEW d \in Dirs, NEW t \in Trees, d \in Under[t], Exists(d),
           d \notin watchedDirs, Insert(d, t), UNCHANGED corpusVars
    PROVE  /\ EntriesAreTrue' /\ OnlyLeavesMove' /\ EventsAreOfTheRegistered'
           /\ d \in watchedDirs' /\ watchedDirs' \subseteq watchedDirs \cup {d}
           /\ \A x \in Dirs : Exists(x) /\ x \in watchedDirs => x \in watchedDirs'
           /\ \A u \in Trees \ {t} : WatchesOf(u)' \subseteq WatchesOf(u)
<1> DEFINE wd  == node[d]
           old == IF byWatch[wd] = NoWatch THEN {} ELSE {byWatch[wd].dir}
<1>1. /\ byWatch' = [byWatch EXCEPT ![wd] = [dir |-> d, tree |-> t]]
      /\ watchedDirs' = (watchedDirs \cup {d}) \ old
      /\ marks' = marks \cup {wd} /\ queue' = queue
  BY DEF Insert
<1>2. UNCHANGED <<node, disk, files>>
  BY DEF corpusVars
<1>3. wd \in Nodes /\ byWatch \in [Nodes -> Watch \cup {NoWatch}]
  BY DEF Registry, TypeInvariant, RegistryInvariant, Exists
<1>4. [dir |-> d, tree |-> t] \in Watch
  BY DEF Watch
<1>5. /\ Registered' = Registered \cup {wd}
      /\ \A w \in Registered \ {wd} : byWatch'[w] = byWatch[w]
      /\ byWatch'[wd].dir = d /\ byWatch'[wd].tree = t
  BY <1>1, <1>3, <1>4, NoWatchIsNoWatch DEF Registered
<1>6. \A w \in Registered : byWatch[w].dir \in watchedDirs /\ byWatch[w].dir # d
  BY DEF Registry, TypeInvariant, RegistryInvariant, BudgetIsHonest
<1>7. EntriesAreTrue'
  BY <1>1, <1>2, <1>5 DEF Registry, EntriesAreTrue, Exists
<1>8. OnlyLeavesMove'
  <2> SUFFICES ASSUME NEW x \in Dirs, Exists(x), node[x] \in Registered \cup {wd}
               PROVE  \/ byWatch'[node[x]].dir = x
                      \/ Children(x) = {} /\ Children(byWatch'[node[x]].dir) = {}
    BY <1>2, <1>5 DEF OnlyLeavesMove, Exists
  <2>1. CASE x = d
    BY <1>5, <2>1
  <2>2. CASE x # d
    <3>1. node[x] # wd
      BY <2>2 DEF Registry, CorpusIsATree
    <3> QED BY <1>5, <3>1 DEF Registry, OnlyLeavesMove
  <2> QED BY <2>1, <2>2
<1>9. wd \in Registered => Children(byWatch[wd].dir) = {}
  BY <1>6 DEF Registry, OnlyLeavesMove
<1>10. EventsAreOfTheRegistered'
  <2> SUFFICES ASSUME NEW e \in Unread
               PROVE  /\ e.wd \in Registered \cup {wd, Nothing}
                      /\ e.kind = "overflow" => e.wd = Nothing
                      /\ e.kind = "made" => /\ e.wd \in Registered \cup {wd}
                                            /\ Parent[e.dir] # e.dir
                                            /\ byWatch'[e.wd].dir = Parent[e.dir]
    BY <1>1, <1>5 DEF EventsAreOfTheRegistered, Unread
  <2>1. /\ e.wd \in Registered \cup {Nothing}
        /\ e.kind = "overflow" => e.wd = Nothing
        /\ e.kind = "made" => /\ e.wd \in Registered
                              /\ Parent[e.dir] # e.dir
                              /\ byWatch[e.wd].dir = Parent[e.dir]
    BY DEF Registry, EventsAreOfTheRegistered
  <2>2. e.kind = "made" => e.dir \in Dirs
    BY DEF Registry, TypeInvariant, QueueTyped, NamedEvents, Unread, EventsIn
  <2>3. e.kind = "made" => e.wd # wd
    BY <1>9, <2>1, <2>2 DEF Children
  <2> QED BY <1>5, <2>1, <2>3
<1>11. \A x \in Dirs : Exists(x) /\ x \in watchedDirs => x \notin old
  <2> SUFFICES ASSUME NEW x \in Dirs, Exists(x), x \in watchedDirs, x \in old
               PROVE  FALSE
    OBVIOUS
  <2>1. wd \in Registered /\ byWatch[wd].dir = x
    BY <1>3 DEF Registered
  <2>2. node[x] = wd
    BY <2>1 DEF Registry, EntriesAreTrue
  <2> QED BY <2>2 DEF Registry, CorpusIsATree
<1>12. d \notin old
  <2> SUFFICES ASSUME d \in old PROVE FALSE
    OBVIOUS
  <2>1. wd \in Registered /\ byWatch[wd].dir = d
    BY <1>3 DEF Registered
  <2> QED BY <1>6, <2>1
<1>13. /\ d \in watchedDirs' /\ watchedDirs' \subseteq watchedDirs \cup {d}
       /\ \A x \in Dirs : Exists(x) /\ x \in watchedDirs => x \in watchedDirs'
  BY <1>1, <1>11, <1>12
<1>14. \A u \in Trees \ {t} : WatchesOf(u)' \subseteq WatchesOf(u)
  BY <1>5 DEF WatchesOf
<1> QED BY <1>7, <1>8, <1>10, <1>13, <1>14

\* What watch_one_dir leaves, for a directory there is room for.
LEMMA WatchDirIsThere ==
    ASSUME CoverageInvariant, Setting, NEW d \in Dirs, WatchDir(d)
    PROVE  /\ EntriesAreTrue' /\ OnlyLeavesMove' /\ EventsAreOfTheRegistered'
           /\ Exists(d) => d \in watchedDirs'
           /\ watchedDirs' \subseteq watchedDirs \cup {d}
           /\ \A x \in Dirs : Exists(x) /\ x \in watchedDirs => x \in watchedDirs'
           /\ \A u \in Trees \ {task.tree} : WatchesOf(u)' \subseteq WatchesOf(u)
           /\ task' \in Tasks
           /\ task'.todo = task.todo \ {d} /\ task'.tree = task.tree
           /\ task'.deep = task.deep /\ task'.back = task.back
           /\ task'.listing = IF task.deep THEN d ELSE Nothing
           /\ task.listing = Nothing /\ d \in task.todo /\ dpc = "register"
           /\ task.tree \in Trees /\ d \in Under[task.tree]
           /\ UNCHANGED <<corpusVars, queue, fileVars, dirtVars, dpc, cur, buildVars>>
<1>1. Registry /\ DaemonIsWhereItIs /\ task \in Tasks /\ TaskIsTyped
  BY DEF CoverageInvariant, Registry, TypeInvariant, DaemonTyped, RegistryInvariant
<1>2. /\ dpc = "register" /\ task.listing = Nothing /\ d \in task.todo
      /\ task' = [task EXCEPT !.todo = @ \ {d},
                              !.listing = IF task.deep THEN d ELSE Nothing]
      /\ UNCHANGED <<corpusVars, queue, fileVars, dirtVars, dpc, cur, buildVars>>
  BY Zenon DEF WatchDir, Insert, kernelVars
<1>3. /\ task'.todo = task.todo \ {d} /\ task'.tree = task.tree
      /\ task'.deep = task.deep /\ task'.back = task.back
      /\ task'.listing = IF task.deep THEN d ELSE Nothing
      /\ task' \in Tasks
  BY <1>1, <1>2 DEF Tasks
<1>4. task.tree \in Trees /\ d \in Under[task.tree]
  BY <1>1, <1>2 DEF TaskIsTyped, DaemonIsWhereItIs
<1>5. CASE /\ d \in watchedDirs \/ (Missing(d) /\ held < Ceiling)
           /\ UNCHANGED <<registryVars, kernelVars>>
  <2>1. UNCHANGED <<byWatch, watchedDirs, marks, queue, node>>
    BY <1>2, <1>5 DEF registryVars, kernelVars, corpusVars
  <2>2. EntriesAreTrue' /\ OnlyLeavesMove' /\ EventsAreOfTheRegistered'
    BY <1>1, <2>1
       DEF Registry, EntriesAreTrue, OnlyLeavesMove, EventsAreOfTheRegistered,
           Registered, Exists, Unread
  <2>3. Exists(d) => d \in watchedDirs'
    BY <1>5, <2>1 DEF Missing
  <2>4. \A u : WatchesOf(u)' = WatchesOf(u)
    BY <2>1 DEF WatchesOf, Registered
  <2> QED BY <1>2, <1>3, <1>4, <2>1, <2>2, <2>3, <2>4
<1>6. CASE d \notin watchedDirs /\ Exists(d) /\ Insert(d, task.tree)
  <2>1. UNCHANGED corpusVars
    BY <1>2
  <2> QED BY <1>1, <1>2, <1>3, <1>4, <1>6, <2>1, InsertKeepsTheEntries
<1> QED BY <1>2, <1>5, <1>6, Zenon DEF WatchDir

\* A step by which no tree is watched less, told less or has less pending.
KeepsNews(t) ==
    /\ UNCHANGED <<node, disk>>
    /\ \A x \in Under[t] : Exists(x) /\ x \in watchedDirs => x \in watchedDirs'
    /\ Told(t) => Told(t)'
    /\ \A x \in Under[t] :
          Exists(x) /\ x \in watchedDirs /\ FilePending(x) => FilePending(x)'

\* It leaves a ready tree's generation as right as it is.
LEMMA NewsKeepsTheAgreement ==
    ASSUME ReadyTreesAgree,
           \A t \in Trees : ready'[t] =>
              /\ KeepsNews(t)
              /\ ready[t] \/ Wide \in sincePublish[t]
              /\ sincePublish'[t] = sincePublish[t] /\ drained'[t] = drained[t]
              /\ index'[t] = index[t]
    PROVE  ReadyTreesAgree'
<1> SUFFICES ASSUME NEW t \in Trees, ready'[t],
                    Wide \notin sincePublish'[t] \cup drained'[t], ~Told(t)'
             PROVE  Covered(t)' /\ Agrees(t, sincePublish[t])'
  BY DEF ReadyTreesAgree
<1>1. /\ KeepsNews(t) /\ ready[t]
      /\ sincePublish'[t] = sincePublish[t] /\ drained'[t] = drained[t]
      /\ index'[t] = index[t]
  OBVIOUS
<1>2. Covered(t) /\ Agrees(t, sincePublish[t])
  BY <1>1 DEF ReadyTreesAgree, KeepsNews
<1>3. Covered(t)'
  BY <1>1, <1>2 DEF KeepsNews, Covered, Exists
<1>4. ASSUME NEW d \in Under[t], index'[t][d] # disk'[d]
      PROVE  Exists(d)' /\ (d \in sincePublish'[t] \cup drained'[t] \/ FilePending(d)')
  <2>1. Exists(d) /\ (d \in sincePublish[t] \cup drained[t] \/ FilePending(d))
    BY <1>1, <1>2, <1>4 DEF KeepsNews, Agrees
  <2>2. d \in watchedDirs
    BY <1>2, <2>1 DEF Covered
  <2> QED BY <1>1, <2>1, <2>2 DEF KeepsNews, Exists
<1> QED BY <1>3, <1>4 DEF Agrees

\* And what a rebuild reads.
LEMMA NewsKeepsTheWalk ==
    ASSUME WalkGetsEverywhere, WalkAgrees, UNCHANGED build, UNCHANGED <<node, disk>>,
           build.phase # "none" =>
              /\ KeepsNews(build.tree)
              /\ sincePublish'[build.tree] = sincePublish[build.tree]
              /\ sinceWalk'[build.tree] = sinceWalk[build.tree]
              /\ drained'[build.tree] = drained[build.tree]
              /\ index'[build.tree] = index[build.tree]
    PROVE  WalkGetsEverywhere' /\ WalkAgrees'
<1>1. WalkGetsEverywhere'
  BY DEF WalkGetsEverywhere, Walked, Exists
<1>2. WalkAgrees'
  <2> SUFFICES ASSUME Walked, NEW t, t = build.tree
               PROVE  /\ Wide \in sincePublish[t] \/ sinceWalk[t] \subseteq sincePublish[t]
                      /\ Wide \notin sinceWalk[t] \cup drained[t] /\ ~Told(t)' =>
                            /\ Covered(t)'
                            /\ \A d \in build.seen :
                                  /\ Exists(d)'
                                  /\ build.got[d] # disk'[d] =>
                                        d \in sinceWalk[t] \cup drained[t]
                                           \/ FilePending(d)'
    BY DEF WalkAgrees, Walked
  <2>1. KeepsNews(t) /\ build.seen \subseteq Under[t]
    BY DEF Walked, WalkGetsEverywhere
  <2>2. ASSUME Wide \notin sinceWalk[t] \cup drained[t], ~Told(t)'
        PROVE  /\ Covered(t)'
               /\ \A d \in build.seen :
                     /\ Exists(d)'
                     /\ build.got[d] # disk'[d] =>
                           d \in sinceWalk[t] \cup drained[t] \/ FilePending(d)'
    <3>1. /\ Covered(t)
          /\ \A d \in build.seen :
                /\ Exists(d)
                /\ build.got[d] # disk[d] =>
                      d \in sinceWalk[t] \cup drained[t] \/ FilePending(d)
      BY <2>1, <2>2 DEF WalkAgrees, KeepsNews
    <3>2. Covered(t)'
      BY <2>1, <3>1 DEF KeepsNews, Covered, Exists
    <3>3. ASSUME NEW d \in build.seen
          PROVE  /\ Exists(d)'
                 /\ build.got[d] # disk'[d] =>
                       d \in sinceWalk[t] \cup drained[t] \/ FilePending(d)'
      <4>1. d \in Under[t] /\ Exists(d) /\ d \in watchedDirs
        BY <2>1, <3>1 DEF Covered
      <4> QED BY <2>1, <3>1, <4>1 DEF KeepsNews, Exists
    <3> QED BY <3>2, <3>3
  <2> QED BY <2>2 DEF WalkAgrees
<1> QED BY <1>1, <1>2

\* What an unchanged queue has to say of a tree that is watched no less.
LEMMA SameQueueKeepsNews ==
    ASSUME NEW t, UNCHANGED <<node, disk, queue>>,
           \A x \in Under[t] : Exists(x) /\ x \in watchedDirs => x \in watchedDirs'
    PROVE  KeepsNews(t)
BY DEF KeepsNews, Told, FilePending, Exists, Unread

\* The corpus and the lists are left alone.
LEMMA SameCorpus ==
    ASSUME CoverageInvariant, UNCHANGED corpusVars
    PROVE  CorpusIsATree'
BY DEF CoverageInvariant, CorpusIsATree, corpusVars, Exists

LEMMA SameLists ==
    ASSUME CoverageInvariant, UNCHANGED corpusVars, UNCHANGED <<listed, synced>>
    PROVE  ListsAreWhole'
BY DEF CoverageInvariant, ListsAreWhole, corpusVars, Exists

LEMMA SameRegistry ==
    ASSUME CoverageInvariant, UNCHANGED corpusVars, UNCHANGED registryVars,
           UNCHANGED kernelVars
    PROVE  EntriesAreTrue' /\ OnlyLeavesMove' /\ EventsAreOfTheRegistered'
BY DEF CoverageInvariant, EntriesAreTrue, OnlyLeavesMove, EventsAreOfTheRegistered,
       corpusVars, registryVars, kernelVars, Registered, Exists, Unread

\* With the registry and the queue, so are what is watched and what is told.
LEMMA SameNews ==
    ASSUME UNCHANGED corpusVars, UNCHANGED registryVars, UNCHANGED kernelVars
    PROVE  /\ \A t : WatchesOf(t)' = WatchesOf(t) /\ KeepsNews(t)
           /\ \A d : /\ Uncovered(d)' <=> Uncovered(d)
                     /\ Made(d)' <=> Made(d)
<1>1. UNCHANGED <<node, disk, queue, watchedDirs, byWatch>>
  BY DEF corpusVars, registryVars, kernelVars
<1>2. \A t : WatchesOf(t)' = WatchesOf(t) /\ KeepsNews(t)
  BY <1>1, SameQueueKeepsNews DEF WatchesOf, Registered
<1> QED BY <1>1, <1>2 DEF Uncovered, Made, Exists, Unread

\* watch_one_dir: the directory is watched, if it is there.
LEMMA WatchDirKeepsCoverage ==
    ASSUME CoverageInvariant, Setting, NEW d \in Dirs, WatchDir(d)
    PROVE  CoverageInvariant'
<1>1. TypeInvariant' /\ task \in Tasks
  BY WatchingKeepsTypes DEF CoverageInvariant, TypeInvariant, DaemonTyped
<1>2. /\ EntriesAreTrue' /\ OnlyLeavesMove' /\ EventsAreOfTheRegistered'
      /\ Exists(d) => d \in watchedDirs'
      /\ watchedDirs' \subseteq watchedDirs \cup {d}
      /\ \A x \in Dirs : Exists(x) /\ x \in watchedDirs => x \in watchedDirs'
      /\ \A u \in Trees \ {task.tree} : WatchesOf(u)' \subseteq WatchesOf(u)
      /\ task'.todo = task.todo \ {d} /\ task'.tree = task.tree
      /\ task'.deep = task.deep /\ task'.back = task.back
      /\ task'.listing = IF task.deep THEN d ELSE Nothing
      /\ task.listing = Nothing /\ d \in task.todo /\ dpc = "register"
      /\ task.tree \in Trees /\ d \in Under[task.tree]
      /\ UNCHANGED <<corpusVars, queue, fileVars, dirtVars, dpc, cur, buildVars>>
  BY WatchDirIsThere
<1>3. /\ UNCHANGED <<node, disk, files, listed, synced, ready, sincePublish,
                     sinceWalk, drained, build, index, cur, dpc, queue>>
  BY <1>2 DEF corpusVars, fileVars, dirtVars, buildVars
<1>4. CorpusIsATree' /\ ListsAreWhole'
  BY <1>2, <1>3, SameCorpus, SameLists
<1>5. DaemonIsWhereItIs' /\ GrowthIsDirty'
  BY <1>2, <1>3 DEF CoverageInvariant, DaemonIsWhereItIs, GrowthIsDirty
<1>6. \A t : /\ Registering(t)' <=> Registering(t)
             /\ Syncing(t)' <=> Syncing(t)
             /\ Covering(t)' <=> Covering(t)
  BY <1>2, <1>3 DEF Registering, Syncing, Covering
<1>7. WatchedTreesAreTended'
  <2>1. DaemonIsWhereItIs /\ WatchedTreesAreTended /\ CorpusIsATree
    BY DEF CoverageInvariant
  <2> SUFFICES ASSUME NEW t \in Trees
               PROVE  /\ WatchesOf(t)' # {} => ready[t] \/ Syncing(t)
                      /\ synced[t] \/ ready[t] \/ Syncing(t) =>
                            \/ IndexRoot[t] \in watchedDirs'
                            \/ Syncing(t) /\ IndexRoot[t] \in task'.todo
                      /\ ~ready[t] => Wide \in sincePublish[t]
    BY <1>3, <1>6 DEF WatchedTreesAreTended
  <2>2. WatchesOf(t)' # {} => ready[t] \/ Syncing(t)
    <3>1. CASE t = task.tree
      BY <1>2, <2>1, <3>1 DEF DaemonIsWhereItIs, Syncing, Registering
    <3>2. CASE t # task.tree
      BY <1>2, <2>1, <3>2 DEF WatchedTreesAreTended
    <3> QED BY <3>1, <3>2
  <2>3. IndexRoot[t] \in Dirs /\ Exists(IndexRoot[t])
    BY <2>1, ConstantsAssumption DEF CorpusIsATree
  <2>4. IndexRoot[t] \in watchedDirs => IndexRoot[t] \in watchedDirs'
    BY <1>2, <2>3
  <2>5. IndexRoot[t] \in task.todo =>
            IndexRoot[t] \in watchedDirs' \/ IndexRoot[t] \in task'.todo
    BY <1>2, <2>3
  <2> QED BY <2>1, <2>2, <2>4, <2>5 DEF WatchedTreesAreTended
<1>8. UncoveredIsAnnounced'
  <2>1. \A x : Made(x)' <=> Made(x)
    BY <1>3 DEF Made, Unread
  <2>2. \A x \in Dirs : Uncovered(x)' => Uncovered(x) \/ x = d
    BY <1>2, <1>3 DEF Uncovered, Exists
  <2>3. ~Uncovered(d)'
    BY <1>2, <1>3 DEF Uncovered, Exists
  <2>4. ASSUME NEW x \in Dirs, Uncovered(x), x # d
        PROVE  Uncovered(x)'
    BY <1>2, <1>3, <2>4 DEF Uncovered, Exists
  <2> SUFFICES ASSUME NEW t \in Trees, ready[t] \/ Covering(t), NEW x \in Under[t],
                      Uncovered(x)'
               PROVE  Made(x) \/ (Covering(t) /\ (InHand(x)' \/ Below(t, x)'))
    BY <1>3, <1>6, <2>1 DEF UncoveredIsAnnounced
  <2>5. Uncovered(x) /\ x # d /\ x \in Dirs
    BY <2>2, <2>3, ConstantsAssumption
  <2>6. Made(x) \/ (Covering(t) /\ (InHand(x) \/ Below(t, x)))
    BY <2>5 DEF CoverageInvariant, UncoveredIsAnnounced
  <2>7. CASE Covering(t) /\ InHand(x)
    BY <1>2, <2>5, <2>7 DEF InHand
  <2>8. CASE Covering(t) /\ Below(t, x)
    <3>1. CASE Parent[x] = d
      <4>1. x \in Children(d) /\ d # Nothing
        BY <2>5, <3>1, ConstantsAssumption DEF Children
      <4> QED BY <1>2, <2>8, <3>1, <4>1 DEF InHand, Below
    <3>2. CASE Parent[x] # d
      <4>1. Uncovered(Parent[x])'
        BY <2>4, <2>5, <2>8, <3>2, ConstantsAssumption DEF Below
      <4> QED BY <1>2, <2>1, <2>8, <4>1 DEF Below
    <3> QED BY <3>1, <3>2
  <2> QED BY <2>6, <2>7, <2>8
<1>9. \A t \in Trees : KeepsNews(t)
  BY <1>2, <1>3, SameQueueKeepsNews, ConstantsAssumption
<1>10. ReadyTreesAgree'
  BY <1>3, <1>9, NewsKeepsTheAgreement DEF CoverageInvariant
<1>11. build.phase # "none" => build.tree \in Trees
  BY DEF CoverageInvariant, DaemonIsWhereItIs, TypeInvariant, DaemonTyped
<1>12. WalkGetsEverywhere' /\ WalkAgrees'
  BY <1>3, <1>9, <1>11, NewsKeepsTheWalk DEF CoverageInvariant
<1> QED
  BY <1>1, <1>2, <1>4, <1>5, <1>7, <1>8, <1>10, <1>12 DEF CoverageInvariant

\* watch_dir_recursive lists a directory.
LEMMA ListDirKeepsCoverage ==
    ASSUME CoverageInvariant, Setting, ListDir
    PROVE  CoverageInvariant'
<1>1. TypeInvariant' /\ task \in Tasks /\ TaskIsTyped
  BY DrainKeepsTypes DEF CoverageInvariant, TypeInvariant, DaemonTyped, RegistryInvariant
<1> DEFINE come == {c \in Children(task.listing) : Exists(c)}
<1>2. /\ dpc = "register" /\ task.listing # Nothing
      /\ task' = [task EXCEPT !.listing = Nothing, !.todo = @ \cup come]
      /\ UNCHANGED <<corpusVars, registryVars, kernelVars, fileVars, dirtVars,
                     dpc, cur, buildVars>>
  BY DEF ListDir
<1>3. UNCHANGED <<node, disk, files, watchedDirs, listed, synced, ready, sincePublish,
                  sinceWalk, drained, build, index, cur, dpc, queue>>
  BY <1>2 DEF corpusVars, registryVars, kernelVars, fileVars, dirtVars, buildVars
<1>4. /\ task'.todo = task.todo \cup come /\ task'.listing = Nothing
      /\ task'.tree = task.tree /\ task'.deep = task.deep /\ task'.back = task.back
  BY <1>1, <1>2 DEF Tasks
<1>5. task.tree \in Trees /\ come \subseteq Under[task.tree]
  BY <1>1, <1>2 DEF CoverageInvariant, DaemonIsWhereItIs, TaskIsTyped, Setting, Layout
<1>6. CorpusIsATree' /\ ListsAreWhole' /\ EntriesAreTrue' /\ OnlyLeavesMove'
      /\ EventsAreOfTheRegistered'
  BY <1>2, <1>3, SameCorpus, SameLists, SameRegistry
<1>7. DaemonIsWhereItIs' /\ GrowthIsDirty'
  BY <1>2, <1>3, <1>4, <1>5 DEF CoverageInvariant, DaemonIsWhereItIs, GrowthIsDirty
<1>8. /\ \A t : WatchesOf(t)' = WatchesOf(t) /\ KeepsNews(t)
      /\ \A d : /\ Uncovered(d)' <=> Uncovered(d)
                /\ Made(d)' <=> Made(d)
  BY <1>2, SameNews
<1>9. \A t : /\ Registering(t)' <=> Registering(t)
             /\ Syncing(t)' <=> Syncing(t)
             /\ Covering(t)' <=> Covering(t)
  BY <1>3, <1>4 DEF Registering, Syncing, Covering
<1>10. WatchedTreesAreTended'
  BY <1>3, <1>4, <1>8, <1>9 DEF CoverageInvariant, WatchedTreesAreTended
<1>11. UncoveredIsAnnounced'
  <2> SUFFICES ASSUME NEW t \in Trees, ready[t] \/ Covering(t), NEW x \in Under[t],
                      Uncovered(x)
               PROVE  Made(x) \/ (Covering(t) /\ (InHand(x)' \/ Below(t, x)'))
    BY <1>3, <1>8, <1>9 DEF UncoveredIsAnnounced
  <2>1. Made(x) \/ (Covering(t) /\ (InHand(x) \/ Below(t, x)))
    BY DEF CoverageInvariant, UncoveredIsAnnounced
  <2>2. InHand(x) => InHand(x)'
    BY <1>4 DEF InHand, Uncovered
  <2>3. Below(t, x) => Below(t, x)'
    BY <1>4, <1>8 DEF Below
  <2> QED BY <2>1, <2>2, <2>3
<1>12. ReadyTreesAgree'
  BY <1>3, <1>8, NewsKeepsTheAgreement DEF CoverageInvariant
<1>13. WalkGetsEverywhere' /\ WalkAgrees'
  BY <1>3, <1>8, NewsKeepsTheWalk DEF CoverageInvariant
<1> QED
  BY <1>1, <1>6, <1>7, <1>10, <1>11, <1>12, <1>13 DEF CoverageInvariant

\* Once a registration has nothing left, what it leaves unwatched was made since.
LEMMA NothingIsLeftBehind ==
    ASSUME CoverageInvariant, Layout, dpc = "register", task.listing = Nothing,
           task.todo = {}, NEW t \in Trees, ready[t] \/ Covering(t) \/ Syncing(t),
           NEW x \in Under[t], Uncovered(x)
    PROVE  Made(x)
<1> DEFINE S == {d \in Under[t] : Uncovered(d) /\ ~Made(d)}
<1>1. \A d \in S : /\ d # IndexRoot[t]
                   /\ Uncovered(Parent[d]) /\ ~Made(Parent[d])
  <2> SUFFICES ASSUME NEW d \in S
               PROVE  d # IndexRoot[t] /\ Uncovered(Parent[d]) /\ ~Made(Parent[d])
    OBVIOUS
  <2>1. ready[t] \/ Covering(t)
    BY DEF Covering, Syncing
  <2>2. Covering(t) /\ (InHand(d) \/ Below(t, d))
    BY <2>1 DEF CoverageInvariant, UncoveredIsAnnounced
  <2> QED BY <2>2 DEF InHand, Below
<1>2. \A d \in S : Parent[d] \in S /\ Parent[d] # d
  BY <1>1 DEF Layout
<1>3. S \in SUBSET Dirs
  BY ConstantsAssumption
<1> HIDE DEF S
<1>4. S = {}
  BY <1>2, <1>3, SetsHaveATop
<1> QED BY <1>4 DEF S

\* The end of a registration.
LEMMA RegistrationKeepsCoverage ==
    ASSUME CoverageInvariant, Setting, Registration
    PROVE  CoverageInvariant'
<1>1. TypeInvariant' /\ task \in Tasks /\ TaskIsTyped /\ cur \in Trees
      /\ ready \in [Trees -> BOOLEAN]
  BY DrainKeepsTypes
     DEF CoverageInvariant, TypeInvariant, DaemonTyped, RegistryInvariant, FilesTyped
<1>2. /\ dpc = "register" /\ task.listing = Nothing /\ task.todo = {}
      /\ task' = NoTask
      /\ \/ task.back = "serve" /\ dpc' = "begin" /\ ready' = [ready EXCEPT ![cur] = TRUE]
         \/ task.back # "serve" /\ dpc' = task.back /\ ready' = ready
      /\ UNCHANGED <<corpusVars, registryVars, kernelVars, listed, synced,
                     dirtVars, cur, buildVars>>
  BY DEF Registration
<1>3. UNCHANGED <<node, disk, files, watchedDirs, listed, synced, sincePublish,
                  sinceWalk, drained, build, index, cur, queue>>
  BY <1>2 DEF corpusVars, registryVars, kernelVars, dirtVars, buildVars
<1>4. CorpusIsATree' /\ ListsAreWhole' /\ EntriesAreTrue' /\ OnlyLeavesMove'
      /\ EventsAreOfTheRegistered'
  BY <1>2, <1>3, SameCorpus, SameLists, SameRegistry
<1>5. \A t : ~Registering(t)' /\ ~Syncing(t)' /\ ~Covering(t)'
  BY <1>1, <1>2 DEF Registering, Syncing, Covering, Tasks
<1>6. /\ \A t : WatchesOf(t)' = WatchesOf(t) /\ KeepsNews(t)
      /\ \A d : /\ Uncovered(d)' <=> Uncovered(d)
                /\ Made(d)' <=> Made(d)
  BY <1>2, SameNews
<1>7. task.tree \in Trees /\ (task.back = "serve" => task.tree = cur)
  BY <1>1, <1>2 DEF CoverageInvariant, DaemonIsWhereItIs, TaskIsTyped
<1>8. \A t \in Trees : ready'[t] <=> ready[t] \/ Syncing(t)
  BY <1>1, <1>2, <1>7 DEF Syncing, Registering, CoverageInvariant, DaemonIsWhereItIs
<1>9. DaemonIsWhereItIs' /\ GrowthIsDirty'
  BY <1>1, <1>2, <1>3 DEF CoverageInvariant, DaemonIsWhereItIs, GrowthIsDirty, Tasks
<1>10. WatchedTreesAreTended'
  <2> SUFFICES ASSUME NEW t \in Trees
               PROVE  /\ WatchesOf(t) # {} => ready'[t]
                      /\ synced[t] \/ ready'[t] => IndexRoot[t] \in watchedDirs
                      /\ ~ready'[t] => Wide \in sincePublish[t]
    BY <1>3, <1>5, <1>6 DEF WatchedTreesAreTended
  <2> QED BY <1>2, <1>8 DEF CoverageInvariant, WatchedTreesAreTended
<1>11. UncoveredIsAnnounced'
  <2> SUFFICES ASSUME NEW t \in Trees, ready'[t], NEW x \in Under[t], Uncovered(x)
               PROVE  Made(x)
    BY <1>5, <1>6 DEF UncoveredIsAnnounced
  <2> QED BY <1>2, <1>8, NothingIsLeftBehind DEF Setting
<1>12. ReadyTreesAgree'
  <2>1. \A t \in Trees : ready[t] \/ Wide \in sincePublish[t]
    BY DEF CoverageInvariant, WatchedTreesAreTended
  <2> QED BY <1>3, <1>6, <2>1, NewsKeepsTheAgreement DEF CoverageInvariant
<1>13. WalkGetsEverywhere' /\ WalkAgrees'
  BY <1>3, <1>6, NewsKeepsTheWalk DEF CoverageInvariant
<1> QED
  BY <1>1, <1>4, <1>9, <1>10, <1>11, <1>12, <1>13 DEF CoverageInvariant

-----------------------------------------------------------------------------
(***************************************************************************)
(* The drain.                                                              *)
(***************************************************************************)

\* What is said of a tree is said still, or known.
Reads(t) ==
    /\ Wide \in drained[t] => Wide \in drained'[t]
    /\ Wide \in drained'[t] \/ drained[t] \subseteq drained'[t]
    /\ Told(t) => Told(t)' \/ Wide \in drained'[t]
    /\ \A d \in Under[t] : Exists(d) /\ d \in watchedDirs /\ FilePending(d) =>
          FilePending(d)' \/ d \in drained'[t] \/ Wide \in drained'[t]

\* An event of a directory that is watched is reported to its tree, and one
\* that the queue overflowed to each tree that is watched.
LEMMA EventsAreReported ==
    ASSUME Registry, Layout, NEW t \in Trees, NEW e \in Unread
    PROVE  /\ e.kind = "overflow" /\ t \in WatchedTrees => Reports(e)[t] = Unbounded
           /\ e.kind # "file" /\ e.wd \in WatchesOf(t) => Reports(e)[t] = Unbounded
           /\ \A d \in Under[t] :
                 Exists(d) /\ d \in watchedDirs /\ e.kind = "file" /\ e.wd = node[d] =>
                     Reports(e)[t] = {d}
<1>1. e.kind = "overflow" => e.wd \notin WatchesOf(t)
  BY ConstantsAssumption
     DEF Registry, EventsAreOfTheRegistered, WatchesOf, Registered
<1>2. Reports(e)[t] =
          CASE e.kind = "overflow" /\ t \in WatchedTrees -> Unbounded
            [] e.wd \in WatchesOf(t) /\ e.kind = "file"  -> {byWatch[e.wd].dir}
            [] e.wd \in WatchesOf(t) /\ e.kind # "file"  -> Unbounded
            [] OTHER                                     -> {}
  BY DEF Reports
<1>3. e.kind = "overflow" /\ t \in WatchedTrees => Reports(e)[t] = Unbounded
  BY <1>1, <1>2
<1>4. e.kind # "file" /\ e.wd \in WatchesOf(t) => Reports(e)[t] = Unbounded
  BY <1>1, <1>2
<1>5. e.kind = "file" /\ e.wd \in WatchesOf(t) => Reports(e)[t] = {byWatch[e.wd].dir}
  BY <1>1, <1>2
<1>6. \A d \in Under[t] : Exists(d) /\ d \in watchedDirs =>
          node[d] \in WatchesOf(t) /\ byWatch[node[d]].dir = d
  BY WatchedIsOfItsTree
<1> QED BY <1>3, <1>4, <1>5, <1>6

\* A tree whose root is watched has a watch.
LEMMA RootsAreWatches ==
    ASSUME CoverageInvariant, Layout, NEW t \in Trees, IndexRoot[t] \in watchedDirs
    PROVE  t \in WatchedTrees
<1>1. Registry /\ Exists(IndexRoot[t]) /\ IndexRoot[t] \in Under[t]
  BY DEF CoverageInvariant, Registry, CorpusIsATree, Layout
<1> QED BY <1>1, WatchedIsOfItsTree DEF WatchedTrees

\* What apply_event takes from the queue, a ready tree's change set gets.
LEMMA EventsAreRead ==
    ASSUME CoverageInvariant, Setting, ApplyEvent, NEW t \in Trees, ready[t]
    PROVE  Reads(t)
<1> SUFFICES ASSUME NEW e, e = Head(queue) PROVE Reads(t)
  OBVIOUS
<1>1. /\ queue # <<>> /\ queue' = Tail(queue) /\ Draining
      /\ drained' = [u \in Trees |-> Absorb(drained[u], Reports(e)[u])]
      /\ UNCHANGED <<corpusVars, registryVars>>
  BY Zenon DEF ApplyEvent
<1>2. queue \in Seq(NamedEvents) /\ Registry
  BY DEF CoverageInvariant, TypeInvariant, QueueTyped, Registry
<1>3. Unread = {e} \cup Unread'
  BY <1>1, <1>2, TailEvents DEF Unread
<1>4. UNCHANGED <<node, disk, watchedDirs>>
  BY <1>1 DEF corpusVars, registryVars
<1>5. t \in WatchedTrees
  <2>1. IndexRoot[t] \in watchedDirs
    BY <1>1 DEF CoverageInvariant, WatchedTreesAreTended, Syncing, Registering, Draining
  <2> QED BY <2>1, RootsAreWatches DEF Setting
<1>6. drained'[t] = IF Wide \in drained[t] \cup Reports(e)[t]
                    THEN Unbounded ELSE drained[t] \cup Reports(e)[t]
  BY <1>1 DEF Absorb
<1>7. e \in Unread /\ Wide \in Unbounded
  BY <1>3 DEF Unbounded
<1>8. /\ e.kind = "overflow" => Wide \in drained'[t]
      /\ e.kind # "file" /\ e.wd \in WatchesOf(t) => Wide \in drained'[t]
      /\ \A d \in Under[t] :
            Exists(d) /\ d \in watchedDirs /\ e.kind = "file" /\ e.wd = node[d] =>
                d \in drained'[t] \/ Wide \in drained'[t]
  BY <1>2, <1>5, <1>6, <1>7, EventsAreReported DEF Setting
<1>9. Told(t) => Told(t)' \/ Wide \in drained'[t]
  <2>1. \A p \in Under[t] : Exists(p) /\ p \in watchedDirs => node[p] \in WatchesOf(t)
    BY <1>2, WatchedIsOfItsTree DEF Setting
  <2> QED BY <1>3, <1>4, <1>8, <2>1 DEF Told, Exists
<1>10. \A d \in Under[t] : Exists(d) /\ d \in watchedDirs /\ FilePending(d) =>
          FilePending(d)' \/ d \in drained'[t] \/ Wide \in drained'[t]
  BY <1>3, <1>4, <1>8 DEF FilePending
<1> QED BY <1>6, <1>7, <1>9, <1>10 DEF Reads

\* Reading leaves a ready tree's generation as right as it was.
LEMMA ReadingKeepsTheAgreement ==
    ASSUME ReadyTreesAgree, WalkGetsEverywhere, WalkAgrees,
           \A t \in Trees : ready[t] => Reads(t),
           UNCHANGED <<node, disk, watchedDirs, ready, sincePublish, sinceWalk,
                       build, index>>,
           Walked => build.tree \in Trees /\ ready[build.tree]
    PROVE  ReadyTreesAgree' /\ WalkGetsEverywhere' /\ WalkAgrees'
<1>1. ReadyTreesAgree'
  <2> SUFFICES ASSUME NEW t \in Trees, ready[t],
                      Wide \notin sincePublish[t] \cup drained'[t], ~Told(t)'
               PROVE  Covered(t)' /\ Agrees(t, sincePublish[t])'
    BY DEF ReadyTreesAgree
  <2>1. Reads(t)
    OBVIOUS
  <2>2. Covered(t) /\ Agrees(t, sincePublish[t]) /\ drained[t] \subseteq drained'[t]
    BY <2>1 DEF ReadyTreesAgree, Reads
  <2>3. Covered(t)'
    BY <2>2 DEF Covered, Exists
  <2>4. ASSUME NEW d \in Under[t], index[t][d] # disk[d]
        PROVE  Exists(d) /\ (d \in sincePublish[t] \cup drained'[t] \/ FilePending(d)')
    BY <2>1, <2>2, <2>4 DEF Reads, Covered, Agrees
  <2> QED BY <2>3, <2>4 DEF Agrees, Exists
<1>2. WalkGetsEverywhere'
  BY DEF WalkGetsEverywhere, Walked, Exists
<1>3. WalkAgrees'
  <2> SUFFICES ASSUME Walked, NEW t \in Trees, t = build.tree, ready[t]
               PROVE  /\ Wide \in sincePublish[t] \/ sinceWalk[t] \subseteq sincePublish[t]
                      /\ Wide \notin sinceWalk[t] \cup drained'[t] /\ ~Told(t)' =>
                            /\ Covered(t)'
                            /\ \A d \in build.seen :
                                  /\ Exists(d)'
                                  /\ build.got[d] # disk[d] =>
                                        d \in sinceWalk[t] \cup drained'[t]
                                           \/ FilePending(d)'
    BY DEF WalkAgrees, Walked
  <2>1. Reads(t) /\ build.seen \subseteq Under[t]
    BY DEF Walked, WalkGetsEverywhere
  <2>2. ASSUME Wide \notin sinceWalk[t] \cup drained'[t], ~Told(t)'
        PROVE  /\ Covered(t)'
               /\ \A d \in build.seen :
                     /\ Exists(d)'
                     /\ build.got[d] # disk[d] =>
                           d \in sinceWalk[t] \cup drained'[t] \/ FilePending(d)'
    <3>1. /\ Covered(t) /\ drained[t] \subseteq drained'[t]
          /\ \A d \in build.seen :
                /\ Exists(d)
                /\ build.got[d] # disk[d] =>
                      d \in sinceWalk[t] \cup drained[t] \/ FilePending(d)
      BY <2>1, <2>2 DEF WalkAgrees, Reads
    <3>2. Covered(t)'
      BY <3>1 DEF Covered, Exists
    <3>3. ASSUME NEW d \in build.seen
          PROVE  /\ Exists(d)
                 /\ build.got[d] # disk[d] =>
                       d \in sinceWalk[t] \cup drained'[t] \/ FilePending(d)'
      BY <2>1, <2>2, <3>1 DEF Reads, Covered
    <3> QED BY <3>2, <3>3 DEF Exists
  <2> QED BY <2>2 DEF WalkAgrees
<1> QED BY <1>1, <1>2, <1>3

\* A tree that is watched is ready, where nothing is synced.
LEMMA WatchedIsReady ==
    ASSUME CoverageInvariant, dpc # "register" \/ task.back # "serve",
           NEW wd \in Registered
    PROVE  byWatch[wd].tree \in Trees /\ ready[byWatch[wd].tree]
<1>1. byWatch[wd].tree \in Trees
  BY DEF CoverageInvariant, TypeInvariant, RegistryInvariant, Registered, Watch
<1>2. WatchesOf(byWatch[wd].tree) # {}
  BY DEF WatchesOf
<1> QED
  BY <1>1, <1>2 DEF CoverageInvariant, WatchedTreesAreTended, Syncing, Registering

\* apply_event, with the registration that it begins for what was made.
LEMMA ApplyEventKeepsCoverage ==
    ASSUME CoverageInvariant, Setting, ApplyEvent
    PROVE  CoverageInvariant'
<1> SUFFICES ASSUME NEW e, e = Head(queue) PROVE CoverageInvariant'
  OBVIOUS
<1>1. /\ Draining /\ queue # <<>> /\ queue' = Tail(queue)
      /\ \/ e.kind = "made" /\ e.wd \in Registered
            /\ Register(byWatch[e.wd].tree, {e.dir}, TRUE, dpc)
         \/ ~(e.kind = "made" /\ e.wd \in Registered) /\ UNCHANGED <<dpc, task>>
      /\ UNCHANGED <<corpusVars, marks, registryVars, fileVars, sincePublish,
                     sinceWalk, cur, buildVars>>
  BY Zenon DEF ApplyEvent
<1>2. UNCHANGED <<node, disk, files, byWatch, watchedDirs, listed, synced, ready,
                  build, index>>
  BY <1>1 DEF corpusVars, registryVars, fileVars, buildVars
<1>3. TypeInvariant' /\ Registry /\ cur \in Trees /\ queue \in Seq(NamedEvents)
  BY DrainKeepsTypes
     DEF CoverageInvariant, Registry, TypeInvariant, DaemonTyped, QueueTyped
<1>4. Unread = {e} \cup Unread'
  BY <1>1, <1>3, TailEvents DEF Unread
<1>5. dpc \in {"top", "poll", "settle"}
  BY <1>1 DEF Draining
<1>6. CorpusIsATree' /\ ListsAreWhole'
  BY <1>1, <1>2, SameCorpus, SameLists
<1>7. Registered' = Registered /\ \A t : WatchesOf(t)' = WatchesOf(t)
  BY <1>2 DEF Registered, WatchesOf
<1>8. EntriesAreTrue' /\ OnlyLeavesMove' /\ EventsAreOfTheRegistered'
  BY <1>1, <1>2, <1>3, <1>4, <1>7
     DEF Registry, EntriesAreTrue, OnlyLeavesMove, EventsAreOfTheRegistered, Exists
<1>9. \A t \in Trees : ready[t] => Reads(t)
  BY EventsAreRead
<1>10. build.phase # "none" => build.tree = cur /\ ready[cur]
  BY DEF CoverageInvariant, DaemonIsWhereItIs
<1>11. ReadyTreesAgree' /\ WalkGetsEverywhere' /\ WalkAgrees'
  BY <1>1, <1>2, <1>3, <1>9, <1>10, ReadingKeepsTheAgreement
     DEF CoverageInvariant, Walked
<1>12. e.kind = "made" =>
          /\ e.wd \in Registered /\ e.dir \in Under[byWatch[e.wd].tree]
          /\ byWatch[e.wd].tree \in Trees /\ ready[byWatch[e.wd].tree]
          /\ Wide \in drained'[byWatch[e.wd].tree]
  <2> SUFFICES ASSUME e.kind = "made"
               PROVE  /\ e.wd \in Registered /\ e.dir \in Under[byWatch[e.wd].tree]
                      /\ byWatch[e.wd].tree \in Trees /\ ready[byWatch[e.wd].tree]
                      /\ Wide \in drained'[byWatch[e.wd].tree]
    OBVIOUS
  <2>1. /\ e \in Unread /\ e.wd \in Registered
        /\ e.dir \in Under[byWatch[e.wd].tree] /\ byWatch[e.wd].tree \in Trees
    BY <1>3, <1>4, MadeIsInItsTree DEF Setting
  <2>2. ready[byWatch[e.wd].tree]
    BY <1>5, <2>1, WatchedIsReady
  <2>3. e.wd \in WatchesOf(byWatch[e.wd].tree)
    BY <2>1 DEF WatchesOf
  <2>4. Reports(e)[byWatch[e.wd].tree] = Unbounded
    BY <1>3, <2>1, <2>3, EventsAreReported DEF Setting
  <2>5. drained' = [u \in Trees |-> Absorb(drained[u], Reports(e)[u])]
    BY Zenon DEF ApplyEvent
  <2>6. Wide \in drained'[byWatch[e.wd].tree]
    BY <2>1, <2>4, <2>5 DEF Absorb, Unbounded
  <2> QED BY <2>1, <2>2, <2>6
<1>13. \/ /\ e.kind = "made" /\ dpc' = "register"
          /\ task' = [todo |-> {e.dir}, listing |-> Nothing, deep |-> TRUE,
                      tree |-> byWatch[e.wd].tree, back |-> dpc]
       \/ e.kind # "made" /\ dpc' = dpc /\ task' = task
  BY <1>1, <1>12 DEF Register
<1>14. DaemonIsWhereItIs' /\ GrowthIsDirty'
  <2>1. CASE /\ e.kind = "made" /\ dpc' = "register"
             /\ task' = [todo |-> {e.dir}, listing |-> Nothing, deep |-> TRUE,
                         tree |-> byWatch[e.wd].tree, back |-> dpc]
    <3>1. /\ task'.todo = {e.dir} /\ task'.listing = Nothing /\ task'.deep
          /\ task'.tree = byWatch[e.wd].tree /\ task'.back = dpc
      BY <2>1
    <3> QED
      BY <1>1, <1>2, <1>5, <1>12, <2>1, <3>1
         DEF CoverageInvariant, DaemonIsWhereItIs, GrowthIsDirty
  <2>2. CASE dpc' = dpc /\ task' = task
    BY <1>1, <1>2, <1>5, <2>2 DEF CoverageInvariant, DaemonIsWhereItIs, GrowthIsDirty
  <2> QED BY <1>13, <2>1, <2>2
<1>15. \A t : /\ ~Syncing(t) /\ ~Syncing(t)' /\ ~Covering(t)
              /\ Covering(t)' => e.kind = "made" /\ t = byWatch[e.wd].tree
  BY <1>5, <1>13 DEF Syncing, Covering, Registering
<1>16. WatchedTreesAreTended'
  BY <1>1, <1>2, <1>7, <1>15 DEF CoverageInvariant, WatchedTreesAreTended
<1>17. UncoveredIsAnnounced'
  <2> SUFFICES ASSUME NEW t \in Trees, ready[t], NEW x \in Under[t], Uncovered(x)
               PROVE  Made(x)' \/ (Covering(t)' /\ InHand(x)')
    BY <1>2, <1>12, <1>15 DEF UncoveredIsAnnounced, Uncovered, Exists
  <2>1. PICK f \in Unread : f.kind = "made" /\ f.dir = x /\ f.wd = node[Parent[x]]
    BY <1>15 DEF CoverageInvariant, UncoveredIsAnnounced, Made
  <2>2. CASE f \in Unread'
    BY <1>2, <2>1, <2>2 DEF Made
  <2>3. CASE f = e
    <3>1. x \in Under[byWatch[e.wd].tree] /\ byWatch[e.wd].tree = t
      BY <1>12, <2>1, <2>3 DEF Setting, Layout
    <3>2. /\ dpc' = "register" /\ task'.todo = {x} /\ task'.tree = t
          /\ task'.back = dpc
      BY <1>13, <2>1, <2>3, <3>1
    <3> QED BY <1>5, <3>2 DEF Covering, Registering, InHand
  <2> QED BY <1>4, <2>1, <2>2, <2>3
<1> QED
  BY <1>3, <1>6, <1>8, <1>11, <1>14, <1>16, <1>17 DEF CoverageInvariant

\* Daemon::absorb, once the queue is empty.
LEMMA DrainedKeepsCoverage ==
    ASSUME CoverageInvariant, Setting, Drained
    PROVE  CoverageInvariant'
<1>1. /\ dpc \in {"top", "poll", "settle"} /\ queue = <<>>
      /\ sincePublish' = [t \in Trees |-> Absorb(sincePublish[t], drained[t])]
      /\ sinceWalk' = [t \in Trees |-> Absorb(sinceWalk[t], drained[t])]
      /\ drained' = [t \in Trees |-> {}]
      /\ \/ dpc = "top" /\ dpc' = "serve"
         \/ dpc = "settle" /\ dpc' = "commit"
         \/ dpc = "poll" /\ dpc' = "poll"
      /\ UNCHANGED <<corpusVars, registryVars, kernelVars, fileVars, cur, task,
                     buildVars>>
  BY DEF Drained, Draining, AbsorbDrained, NoDrain
<1>2. UNCHANGED <<node, disk, files, watchedDirs, listed, synced, ready, build,
                  index, cur, queue>>
  BY <1>1 DEF corpusVars, registryVars, kernelVars, fileVars, buildVars
<1>3. TypeInvariant' /\ cur \in Trees
  BY DrainKeepsTypes DEF CoverageInvariant, TypeInvariant, DaemonTyped
<1>4. CorpusIsATree' /\ ListsAreWhole' /\ EntriesAreTrue' /\ OnlyLeavesMove'
      /\ EventsAreOfTheRegistered'
  BY <1>1, <1>2, SameCorpus, SameLists, SameRegistry
<1>5. /\ \A t : WatchesOf(t)' = WatchesOf(t) /\ KeepsNews(t)
      /\ \A d : /\ Uncovered(d)' <=> Uncovered(d)
                /\ Made(d)' <=> Made(d)
  BY <1>1, SameNews
<1>6. DaemonIsWhereItIs' /\ GrowthIsDirty'
  BY <1>1, <1>2 DEF CoverageInvariant, DaemonIsWhereItIs, GrowthIsDirty
<1>7. \A t : /\ ~Syncing(t) /\ ~Syncing(t)' /\ ~Covering(t) /\ ~Covering(t)'
  BY <1>1 DEF Syncing, Covering, Registering
<1>8. ASSUME NEW t \in Trees
      PROVE  /\ \/ sincePublish'[t] = Unbounded /\ Wide \in sincePublish[t] \cup drained[t]
                \/ /\ sincePublish'[t] = sincePublish[t] \cup drained[t]
                   /\ Wide \notin sincePublish[t] \cup drained[t]
             /\ \/ sinceWalk'[t] = Unbounded /\ Wide \in sinceWalk[t] \cup drained[t]
                \/ /\ sinceWalk'[t] = sinceWalk[t] \cup drained[t]
                   /\ Wide \notin sinceWalk[t] \cup drained[t]
             /\ drained'[t] = {}
  BY <1>1 DEF Absorb
<1>9. WatchedTreesAreTended'
  BY <1>2, <1>5, <1>7, <1>8 DEF CoverageInvariant, WatchedTreesAreTended, Unbounded
<1>10. UncoveredIsAnnounced'
  BY <1>2, <1>5, <1>7 DEF CoverageInvariant, UncoveredIsAnnounced
<1>11. /\ \A t : Told(t)' <=> Told(t)
       /\ \A d : FilePending(d)' <=> FilePending(d)
       /\ \A t : Covered(t)' <=> Covered(t)
  BY <1>2 DEF Told, FilePending, Covered, Unread, Exists
<1>12. ReadyTreesAgree'
  <2> SUFFICES ASSUME NEW t \in Trees, ready[t], Wide \notin sincePublish'[t], ~Told(t)
               PROVE  Covered(t) /\ Agrees(t, sincePublish[t])'
    BY <1>2, <1>11 DEF ReadyTreesAgree
  <2>1. /\ sincePublish'[t] = sincePublish[t] \cup drained[t]
        /\ Wide \notin sincePublish[t] \cup drained[t]
    BY <1>8 DEF Unbounded
  <2>2. Covered(t) /\ Agrees(t, sincePublish[t])
    BY <2>1 DEF CoverageInvariant, ReadyTreesAgree
  <2> QED BY <1>2, <1>11, <2>1, <2>2 DEF Agrees, Exists
<1>13. WalkGetsEverywhere'
  BY <1>2 DEF CoverageInvariant, WalkGetsEverywhere, Walked, Exists
<1>14. WalkAgrees'
  <2> SUFFICES ASSUME Walked, NEW t \in Trees, t = build.tree
               PROVE  /\ Wide \in sincePublish'[t] \/ sinceWalk'[t] \subseteq sincePublish'[t]
                      /\ Wide \notin sinceWalk'[t] /\ ~Told(t) =>
                            /\ Covered(t)
                            /\ \A d \in build.seen :
                                  /\ Exists(d)
                                  /\ build.got[d] # disk[d] =>
                                        d \in sinceWalk'[t] \/ FilePending(d)
    <3>1. Walked => build.tree \in Trees
      BY <1>3 DEF Walked, CoverageInvariant, DaemonIsWhereItIs
    <3>2. \A t \in Trees : drained'[t] = {}
      BY <1>8
    <3> QED BY <1>2, <1>11, <3>1, <3>2 DEF WalkAgrees, Walked, Exists
  <2>1. /\ Wide \in sincePublish[t] \/ sinceWalk[t] \subseteq sincePublish[t]
        /\ Wide \notin sinceWalk[t] \cup drained[t] /\ ~Told(t) =>
              /\ Covered(t)
              /\ \A d \in build.seen :
                    /\ Exists(d)
                    /\ build.got[d] # disk[d] =>
                          d \in sinceWalk[t] \cup drained[t] \/ FilePending(d)
    BY DEF CoverageInvariant, WalkAgrees
  <2>2. Wide \in Unbounded
    BY DEF Unbounded
  <2>3. CASE Wide \in sinceWalk[t] \cup drained[t]
    BY <1>8, <2>1, <2>2, <2>3
  <2>4. CASE Wide \notin sinceWalk[t] \cup drained[t]
    <3>1. sinceWalk'[t] = sinceWalk[t] \cup drained[t]
      BY <1>8, <2>4
    <3> QED BY <1>8, <2>1, <2>2, <2>4, <3>1
  <2> QED BY <2>3, <2>4
<1> QED
  BY <1>3, <1>4, <1>6, <1>9, <1>10, <1>12, <1>13, <1>14 DEF CoverageInvariant

-----------------------------------------------------------------------------
(***************************************************************************)
(* A pass.                                                                 *)
(***************************************************************************)

\* The daemon goes on to something else.
LEMMA GoingOnKeepsCoverage ==
    ASSUME CoverageInvariant, TypeInvariant', DaemonIsWhereItIs',
           UNCHANGED <<corpusVars, registryVars, kernelVars, fileVars, dirtVars, task,
                       buildVars>>,
           dpc' = dpc \/ (dpc # "register" /\ dpc' # "register")
    PROVE  CoverageInvariant'
<1>1. UNCHANGED <<node, disk, files, watchedDirs, listed, synced, ready, sincePublish,
                  sinceWalk, drained, build, index, queue>>
  BY DEF corpusVars, registryVars, kernelVars, fileVars, dirtVars, buildVars
<1>2. CorpusIsATree' /\ ListsAreWhole' /\ EntriesAreTrue' /\ OnlyLeavesMove'
      /\ EventsAreOfTheRegistered'
  BY <1>1, SameCorpus, SameLists, SameRegistry
<1>3. /\ \A t : WatchesOf(t)' = WatchesOf(t) /\ KeepsNews(t)
      /\ \A d : /\ Uncovered(d)' <=> Uncovered(d)
                /\ Made(d)' <=> Made(d)
  BY SameNews
<1>4. \A t : /\ Syncing(t)' <=> Syncing(t)
             /\ Covering(t)' <=> Covering(t)
  BY <1>1 DEF Syncing, Covering, Registering
<1>5. \A t, d : (InHand(d)' <=> InHand(d)) /\ (Below(t, d)' <=> Below(t, d))
  BY <1>3 DEF InHand, Below
<1>6. WatchedTreesAreTended' /\ GrowthIsDirty'
  BY <1>1, <1>3, <1>4 DEF CoverageInvariant, WatchedTreesAreTended, GrowthIsDirty
<1>7. UncoveredIsAnnounced'
  BY <1>1, <1>3, <1>4, <1>5 DEF CoverageInvariant, UncoveredIsAnnounced
<1>8. ReadyTreesAgree'
  BY <1>1, <1>3, NewsKeepsTheAgreement DEF CoverageInvariant
<1>9. WalkGetsEverywhere' /\ WalkAgrees'
  BY <1>1, <1>3, NewsKeepsTheWalk DEF CoverageInvariant
<1> QED BY <1>2, <1>6, <1>7, <1>8, <1>9 DEF CoverageInvariant

\* No refresh is due, a rebuild is reaped, or the pass is over.
LEMMA PassKeepsCoverage ==
    ASSUME CoverageInvariant, NoRefresh \/ Reap \/ PassEnds
    PROVE  CoverageInvariant'
<1>1. TypeInvariant'
  BY PassKeepsTypes DEF CoverageInvariant
<1>2. /\ \/ dpc = "begin" /\ dpc' = "serve"
         \/ dpc = "poll" /\ dpc' = "settle"
         \/ dpc = "serve" /\ dpc' = "top"
      /\ UNCHANGED <<corpusVars, registryVars, kernelVars, fileVars, dirtVars, cur, task,
                     buildVars>>
  BY Zenon DEF NoRefresh, Reap, PassEnds
<1>3. DaemonIsWhereItIs'
  BY <1>2 DEF CoverageInvariant, DaemonIsWhereItIs, fileVars, buildVars
<1> QED BY <1>1, <1>2, <1>3, GoingOnKeepsCoverage

\* sync_watches of a tree in force.
LEMMA SyncNothingKeepsCoverage ==
    ASSUME CoverageInvariant, NEW t \in Trees, SyncNothing(t)
    PROVE  CoverageInvariant'
<1>1. TypeInvariant' /\ ready \in [Trees -> BOOLEAN]
  BY SyncingKeepsTypes DEF CoverageInvariant, TypeInvariant, FilesTyped
<1>2. /\ Serving(t) /\ t \in WatchedTrees /\ cur' = t /\ dpc' = "begin"
      /\ ready' = [ready EXCEPT ![t] = TRUE]
      /\ UNCHANGED <<corpusVars, registryVars, kernelVars, listed, synced, dirtVars, task,
                     buildVars>>
  BY DEF SyncNothing
<1>3. dpc = "serve"
  BY <1>2 DEF Serving, CoverageInvariant, DaemonIsWhereItIs
<1>4. ready[t]
  BY <1>2, <1>3
     DEF WatchedTrees, CoverageInvariant, WatchedTreesAreTended, Syncing, Registering
<1>5. ready' = ready
  BY <1>1, <1>2, <1>4
<1>6. DaemonIsWhereItIs'
  BY <1>2, <1>3, <1>4, <1>5 DEF CoverageInvariant, DaemonIsWhereItIs, buildVars
<1> QED BY <1>1, <1>2, <1>3, <1>5, <1>6, GoingOnKeepsCoverage DEF fileVars

\* sync_watches of a tree without a list.
LEMMA SyncTreeKeepsCoverage ==
    ASSUME CoverageInvariant, Setting, NEW t \in Trees, SyncTree(t)
    PROVE  CoverageInvariant'
<1>1. TypeInvariant' /\ Registry
  BY SyncingKeepsTypes DEF CoverageInvariant, Registry
<1>2. /\ Serving(t) /\ cur' = t /\ dpc' = "register"
      /\ task' = [todo |-> {IndexRoot[t]}, listing |-> Nothing, deep |-> TRUE,
                  tree |-> t, back |-> "serve"]
      /\ UNCHANGED <<corpusVars, registryVars, kernelVars, fileVars, dirtVars,
                     buildVars>>
  BY DEF SyncTree, Register
<1>3. /\ task'.todo = {IndexRoot[t]} /\ task'.listing = Nothing /\ task'.deep
      /\ task'.tree = t /\ task'.back = "serve"
  BY <1>2
<1>4. dpc = "serve"
  BY <1>2 DEF Serving, CoverageInvariant, DaemonIsWhereItIs
<1>5. UNCHANGED <<node, disk, files, watchedDirs, listed, synced, ready, sincePublish,
                  sinceWalk, drained, build, index, queue>>
  BY <1>2 DEF corpusVars, registryVars, kernelVars, fileVars, dirtVars, buildVars
<1>6. CorpusIsATree' /\ ListsAreWhole' /\ EntriesAreTrue' /\ OnlyLeavesMove'
      /\ EventsAreOfTheRegistered'
  BY <1>2, <1>5, SameCorpus, SameLists, SameRegistry
<1>7. /\ \A u : WatchesOf(u)' = WatchesOf(u) /\ KeepsNews(u)
      /\ \A d : /\ Uncovered(d)' <=> Uncovered(d)
                /\ Made(d)' <=> Made(d)
  BY <1>2, SameNews
<1>8. DaemonIsWhereItIs' /\ GrowthIsDirty'
  BY <1>2, <1>3, <1>4, <1>5
     DEF CoverageInvariant, DaemonIsWhereItIs, GrowthIsDirty, Setting, Layout
<1>9. \A u : /\ ~Syncing(u) /\ ~Covering(u)
             /\ Syncing(u)' <=> u = t
             /\ Covering(u)' <=> u = t /\ ~ready[u]
  BY <1>2, <1>3, <1>4, <1>5 DEF Syncing, Covering, Registering
<1>10. WatchedTreesAreTended'
  BY <1>3, <1>5, <1>7, <1>9 DEF CoverageInvariant, WatchedTreesAreTended
<1>11. UncoveredIsAnnounced'
  <2> SUFFICES ASSUME NEW u \in Trees, ready[u] \/ Covering(u)', NEW x \in Under[u],
                      Uncovered(x)
               PROVE  Made(x) \/ (Covering(u)' /\ (InHand(x)' \/ Below(u, x)'))
    BY <1>5, <1>7 DEF UncoveredIsAnnounced
  <2>1. CASE ready[u]
    BY <1>9, <2>1 DEF CoverageInvariant, UncoveredIsAnnounced
  <2>2. CASE u = t /\ ~ready[t]
    <3>1. WatchesOf(t) = {}
      BY <1>9, <2>2 DEF CoverageInvariant, WatchedTreesAreTended
    <3>2. CASE x = IndexRoot[t]
      BY <1>3, <1>9, <2>2, <3>2 DEF InHand
    <3>3. CASE x # IndexRoot[t]
      <4>1. Parent[x] \in Under[t] /\ x \in Dirs
        BY <2>2, <3>3, ConstantsAssumption DEF Setting, Layout
      <4>2. Exists(Parent[x])
        BY <4>1 DEF Uncovered, CoverageInvariant, CorpusIsATree
      <4>3. Parent[x] \notin watchedDirs
        BY <1>1, <3>1, <4>1, <4>2, WatchedIsOfItsTree DEF Setting
      <4>4. ~Made(Parent[x])
        <5> SUFFICES ASSUME NEW e \in Unread, e.kind = "made", e.dir = Parent[x]
                     PROVE  FALSE
          BY DEF Made
        <5>1. e.wd \in Registered /\ byWatch[e.wd].tree = t
          BY <1>1, <4>1, MadeIsInItsTree DEF Setting, Layout
        <5> QED BY <3>1, <5>1 DEF WatchesOf
      <4>5. Below(t, x)'
        BY <1>3, <1>7, <3>3, <4>2, <4>3, <4>4 DEF Below, Uncovered
      <4> QED BY <1>9, <2>2, <4>5
    <3> QED BY <3>2, <3>3
  <2> QED BY <1>9, <2>1, <2>2
<1>12. ReadyTreesAgree'
  BY <1>5, <1>7, NewsKeepsTheAgreement DEF CoverageInvariant
<1>13. WalkGetsEverywhere' /\ WalkAgrees'
  BY <1>5, <1>7, NewsKeepsTheWalk DEF CoverageInvariant
<1> QED
  BY <1>1, <1>6, <1>8, <1>10, <1>11, <1>12, <1>13 DEF CoverageInvariant

\* What drop_watch leaves: all that is of other directories.
LEMMA DropLeavesTheRest ==
    ASSUME Registry, Layout, NEW wds \in SUBSET Registered, Drop(wds),
           UNCHANGED corpusVars
    PROVE  /\ EntriesAreTrue' /\ OnlyLeavesMove' /\ EventsAreOfTheRegistered'
           /\ \A u : WatchesOf(u)' = WatchesOf(u) \ wds
           /\ watchedDirs' \subseteq watchedDirs
           /\ \A d : Made(d)' => Made(d)
           /\ \A u \in Trees :
                 (\A d \in Under[u] : Exists(d) /\ d \in watchedDirs => node[d] \notin wds) =>
                    /\ KeepsNews(u)
                    /\ \A d \in Under[u] : Made(d) => Made(d)'
<1>1. /\ byWatch' = [wd \in Nodes |-> IF wd \in wds THEN NoWatch ELSE byWatch[wd]]
      /\ watchedDirs' = watchedDirs \ {byWatch[wd].dir : wd \in wds}
      /\ marks' = marks \ wds /\ queue' = Disowned(queue, wds)
  BY Zenon DEF Drop
<1>2. UNCHANGED <<node, disk, files>> /\ queue \in Seq(NamedEvents)
  BY DEF corpusVars, Registry, TypeInvariant, QueueTyped
<1>3. /\ Registered' = Registered \ wds
      /\ \A w \in Registered \ wds : byWatch'[w] = byWatch[w]
  BY <1>1 DEF Registered
<1>4. /\ \A e \in Unread : e.wd \notin wds => e \in Unread'
      /\ \A e \in Unread' : e = Stray \/ (e \in Unread /\ e.wd \notin wds)
  BY <1>1, <1>2, DisownedEvents DEF Unread
<1>5. /\ Stray.wd = Nothing /\ Stray.kind = "self" /\ Nothing \notin wds
      /\ \A d \in Dirs : node[d] \in wds => Exists(d)
  BY ConstantsAssumption DEF Stray, Exists, Registered
<1>6. EntriesAreTrue' /\ OnlyLeavesMove'
  BY <1>1, <1>2, <1>3 DEF Registry, EntriesAreTrue, OnlyLeavesMove, Exists
<1>7. EventsAreOfTheRegistered'
  BY <1>3, <1>4, <1>5 DEF Registry, EventsAreOfTheRegistered
<1>8. \A u : WatchesOf(u)' = WatchesOf(u) \ wds
  BY <1>3 DEF WatchesOf
<1>9. \A d : Made(d)' => Made(d)
  BY <1>2, <1>4, <1>5 DEF Made
<1>10. ASSUME NEW d \in watchedDirs, Exists(d), node[d] \notin wds
       PROVE  d \in watchedDirs'
  <2>1. node[d] \in Registered /\ byWatch[node[d]].dir = d
    BY <1>10, WatchedIsRegistered
  <2>2. \A w \in wds : byWatch[w].dir # d
    BY <1>10, <2>1 DEF Registry, TypeInvariant, RegistryInvariant, BudgetIsHonest
  <2> QED BY <1>1, <2>2
<1>11. ASSUME NEW u \in Trees,
              \A d \in Under[u] : Exists(d) /\ d \in watchedDirs => node[d] \notin wds
       PROVE  KeepsNews(u) /\ \A d \in Under[u] : Made(d) => Made(d)'
  <2>1. \A d \in Under[u] : Exists(d) /\ d \in watchedDirs => d \in watchedDirs'
    BY <1>10, <1>11
  <2>2. \A d \in Under[u] : Exists(d) /\ d \in watchedDirs /\ FilePending(d)
            => FilePending(d)'
    BY <1>2, <1>4, <1>11 DEF FilePending
  <2>3. Told(u) => Told(u)'
    <3> SUFFICES ASSUME NEW e \in Unread,
                        \/ e.kind = "overflow"
                        \/ /\ e.kind # "file"
                           /\ \E p \in Under[u] :
                                Exists(p) /\ p \in watchedDirs /\ e.wd = node[p]
                 PROVE  Told(u)'
      BY DEF Told
    <3>1. e.wd \notin wds
      BY <1>5, <1>11 DEF Registry, EventsAreOfTheRegistered
    <3> QED BY <1>2, <1>4, <2>1, <3>1 DEF Told, Exists
  <2>4. ASSUME NEW d \in Under[u], Made(d) PROVE Made(d)'
    <3>1. PICK e \in Unread : e.kind = "made" /\ e.dir = d /\ e.wd = node[Parent[d]]
      BY <2>4 DEF Made
    <3>2. /\ Parent[d] \in watchedDirs /\ Parent[d] \in Under[u]
          /\ e.wd \in Registered
      BY <3>1, MadeIsInItsTree DEF Layout
    <3>3. Exists(Parent[d])
      BY <3>1, <3>2, ConstantsAssumption DEF Exists, Registered
    <3> QED BY <1>2, <1>4, <1>11, <3>1, <3>2, <3>3 DEF Made
  <2> QED BY <1>2, <2>1, <2>2, <2>3, <2>4 DEF KeepsNews
<1> QED BY <1>1, <1>6, <1>7, <1>8, <1>9, <1>11

\* release_unleased: the other trees hear what they heard.
LEMMA ReleaseKeepsCoverage ==
    ASSUME CoverageInvariant, Setting, NEW t \in Trees, Release(t)
    PROVE  CoverageInvariant'
<1>1. /\ TypeInvariant' /\ Registry
      /\ synced \in [Trees -> BOOLEAN] /\ ready \in [Trees -> BOOLEAN]
      /\ DOMAIN sincePublish = Trees /\ DOMAIN sinceWalk = Trees
  BY LeavingKeepsTypes
     DEF CoverageInvariant, Registry, TypeInvariant, FilesTyped, DirtTyped
<1>2. /\ dpc = "serve" /\ ListsAreCurrent /\ Drop(WatchesOf(t))
      /\ synced' = [synced EXCEPT ![t] = FALSE]
      /\ ready' = [ready EXCEPT ![t] = FALSE]
      /\ sincePublish' = [sincePublish EXCEPT ![t] = Unbounded]
      /\ UNCHANGED <<corpusVars, listed, drained, dpc, task, cur, build, index>>
  BY Zenon DEF Release, daemonVars, buildVars, Setting, Calm
<1>3. WatchesOf(t) \in SUBSET Registered
  BY WatchesOfAreRegistered
<1>4. /\ EntriesAreTrue' /\ OnlyLeavesMove' /\ EventsAreOfTheRegistered'
      /\ \A u : WatchesOf(u)' = WatchesOf(u) \ WatchesOf(t)
      /\ watchedDirs' \subseteq watchedDirs
      /\ \A u \in Trees :
            (\A d \in Under[u] : Exists(d) /\ d \in watchedDirs
                                    => node[d] \notin WatchesOf(t)) =>
               /\ KeepsNews(u)
               /\ \A d \in Under[u] : Made(d) => Made(d)'
  BY <1>1, <1>2, <1>3, DropLeavesTheRest DEF Setting
<1>5. UNCHANGED <<node, disk, files>>
  BY <1>2 DEF corpusVars
<1>6. ASSUME NEW u \in Trees, u # t
      PROVE  KeepsNews(u) /\ \A d \in Under[u] : Made(d) => Made(d)'
  <2>1. \A d \in Under[u] : Exists(d) /\ d \in watchedDirs => node[d] \in WatchesOf(u)
    BY <1>1, WatchedIsOfItsTree DEF Setting
  <2>2. WatchesOf(u) \cap WatchesOf(t) = {}
    BY <1>6 DEF WatchesOf
  <2> QED BY <1>4, <2>1, <2>2
<1>7. \A u \in Trees :
         /\ ready'[u] <=> u # t /\ ready[u]
         /\ synced'[u] <=> u # t /\ synced[u]
         /\ u # t => sincePublish'[u] = sincePublish[u]
         /\ u = t => Wide \in sincePublish'[u]
  BY <1>1, <1>2 DEF Unbounded
<1>8. \A u : /\ ~Syncing(u) /\ ~Syncing(u)' /\ ~Covering(u) /\ ~Covering(u)'
  BY <1>2 DEF Syncing, Covering, Registering
<1>9. CorpusIsATree'
  BY <1>2, SameCorpus
<1>10. DaemonIsWhereItIs' /\ GrowthIsDirty'
  BY <1>2 DEF CoverageInvariant, DaemonIsWhereItIs, GrowthIsDirty
<1>11. ListsAreWhole'
  BY <1>2, <1>5, <1>7 DEF CoverageInvariant, ListsAreWhole, ListsAreCurrent, Exists
<1>12. WatchedTreesAreTended'
  <2> SUFFICES ASSUME NEW u \in Trees
               PROVE  /\ WatchesOf(u)' # {} => ready'[u]
                      /\ synced'[u] \/ ready'[u] => IndexRoot[u] \in watchedDirs'
                      /\ ~ready'[u] => Wide \in sincePublish'[u]
    BY <1>8 DEF WatchedTreesAreTended
  <2>1. CASE u = t
    BY <1>4, <1>7, <2>1
  <2>2. CASE u # t
    <3>1. /\ WatchesOf(u) # {} => ready[u]
          /\ synced[u] \/ ready[u] => IndexRoot[u] \in watchedDirs
          /\ ~ready[u] => Wide \in sincePublish[u]
      BY <1>8 DEF CoverageInvariant, WatchedTreesAreTended
    <3>2. Exists(IndexRoot[u]) /\ IndexRoot[u] \in Under[u]
      BY DEF CoverageInvariant, CorpusIsATree, Setting, Layout
    <3> QED BY <1>4, <1>6, <1>7, <2>2, <3>1, <3>2 DEF KeepsNews
  <2> QED BY <2>1, <2>2
<1>13. UncoveredIsAnnounced'
  <2> SUFFICES ASSUME NEW u \in Trees, ready'[u], NEW x \in Under[u], Uncovered(x)'
               PROVE  Made(x)'
    BY <1>8 DEF UncoveredIsAnnounced
  <2>1. u # t /\ ready[u]
    BY <1>7
  <2>2. Uncovered(x)
    BY <1>5, <1>6, <2>1 DEF Uncovered, Exists, KeepsNews
  <2> QED BY <1>6, <1>8, <2>1, <2>2 DEF CoverageInvariant, UncoveredIsAnnounced
<1>14. ReadyTreesAgree'
  BY <1>2, <1>6, <1>7, NewsKeepsTheAgreement DEF CoverageInvariant
<1>15. build.phase = "none"
  BY <1>2 DEF CoverageInvariant, DaemonIsWhereItIs
<1>16. WalkGetsEverywhere' /\ WalkAgrees'
  BY <1>2, <1>15 DEF WalkGetsEverywhere, WalkAgrees, Walked
<1> QED
  BY <1>1, <1>4, <1>9, <1>10, <1>11, <1>12, <1>13, <1>14, <1>16
     DEF CoverageInvariant

\* A tree that is to be synced has a list without a gap.
LEMMA SyncedListsAreWhole ==
    ASSUME CoverageInvariant, Layout, NEW t \in Trees, dpc = "serve",
           listed[t] # {}, ~(synced[t] /\ t \in WatchedTrees)
    PROVE  /\ \A d \in Under[t] : Exists(d) => d \in listed[t]
           /\ listed[t] \subseteq Under[t]
<1>1. synced[t] => IndexRoot[t] \in watchedDirs
  BY DEF CoverageInvariant, WatchedTreesAreTended, Syncing, Registering
<1>2. ~synced[t]
  BY <1>1, RootsAreWatches
<1> QED BY <1>2 DEF CoverageInvariant, ListsAreWhole

\* What it prunes is gone.
LEMMA StaleIsGone ==
    ASSUME CoverageInvariant, Layout, NEW t \in Trees, dpc = "serve",
           listed[t] # {}, ~(synced[t] /\ t \in WatchedTrees),
           NEW d \in watchedDirs, Exists(d)
    PROVE  node[d] \notin Stale(t)
<1>1. Registry
  BY DEF CoverageInvariant, Registry
<1>2. byWatch[node[d]].dir = d /\ d \in Under[byWatch[node[d]].tree]
  BY <1>1, WatchedIsRegistered
<1> QED BY <1>2, SyncedListsAreWhole DEF Stale, WatchesOf, Wanted

\* There is room for the directories of a list.
LEMMA ListsFit ==
    ASSUME RegistryInvariant, FilesTyped, Layout, Room, NEW t \in Trees
    PROVE  ~(Cardinality(Wanted(t) \ KeptDirs(t)) > Ceiling - (held - Cardinality(Stale(t))))
<1> DEFINE stale == {byWatch[wd].dir : wd \in Stale(t)}
           kept  == KeptDirs(t)
           more  == Wanted(t) \ KeptDirs(t)
<1>1. Stale(t) \in SUBSET Registered
  BY DEF Stale, WatchesOf
<1>2. /\ watchedDirs = {byWatch[wd].dir : wd \in Registered}
      /\ held = Cardinality(Registered)
  BY DEF RegistryInvariant, BudgetIsHonest
<1>3. /\ IsFiniteSet(watchedDirs) /\ Cardinality(watchedDirs) = held
      /\ IsFiniteSet(stale) /\ Cardinality(stale) = Cardinality(Stale(t))
  BY <1>1, <1>2, WatchesAreCounted
<1>4. stale \subseteq watchedDirs /\ watchedDirs \subseteq Dirs
  BY <1>1, <1>2 DEF RegistryInvariant, Registered, Watch
<1>5. kept = watchedDirs \ stale /\ kept \subseteq Dirs
  BY <1>4 DEF KeptDirs
<1>6. Wanted(t) \subseteq Dirs
  BY ConstantsAssumption DEF FilesTyped, Wanted
<1>7. more \subseteq Dirs /\ more \cap kept = {} /\ more \cup kept \subseteq Dirs
  BY <1>5, <1>6
<1> HIDE DEF stale, kept, more
<1>8. watchedDirs \cap stale = stale
  BY <1>4
<1>9. Cardinality(kept) = held - Cardinality(Stale(t))
  <2>1. Cardinality(watchedDirs \ stale) =
            Cardinality(watchedDirs) - Cardinality(watchedDirs \cap stale)
    BY <1>3, FS_Difference
  <2> QED BY <1>3, <1>5, <1>8, <2>1
<1>10. IsFiniteSet(Dirs)
  BY DEF Layout
<1>11. IsFiniteSet(more) /\ IsFiniteSet(kept)
  BY <1>5, <1>7, <1>10, FS_Subset
<1>12. Cardinality(more \cup kept) = Cardinality(more) + Cardinality(kept)
  <2>1. Cardinality(more \cap kept) = 0
    BY <1>7, FS_EmptySet
  <2>2. Cardinality(more) \in Nat /\ Cardinality(kept) \in Nat
    BY <1>11, FS_CardinalityType
  <2>3. Cardinality(more \cup kept) =
            Cardinality(more) + Cardinality(kept) - Cardinality(more \cap kept)
    BY <1>11, FS_Union
  <2> QED BY <2>1, <2>2, <2>3
<1>13. Cardinality(more \cup kept) <= Cardinality(Dirs)
  BY <1>7, <1>10, FS_Subset
<1>14. /\ Cardinality(more) \in Nat /\ Cardinality(kept) \in Nat
       /\ Cardinality(Dirs) \in Nat /\ Ceiling \in Nat
  BY <1>10, <1>11, FS_CardinalityType, ConstantsAssumption
<1>15. Cardinality(more) <= Ceiling - Cardinality(kept)
  BY <1>12, <1>13, <1>14 DEF Room
<1> QED BY <1>9, <1>14, <1>15 DEF more

\* sync_watches of a tree with a list.
LEMMA SyncDirsKeepsCoverage ==
    ASSUME CoverageInvariant, Setting, NEW t \in Trees, SyncDirs(t)
    PROVE  CoverageInvariant'
<1>1. /\ TypeInvariant' /\ Registry /\ RegistryInvariant /\ FilesTyped
      /\ synced \in [Trees -> BOOLEAN]
  BY SyncingKeepsTypes
     DEF CoverageInvariant, Registry, TypeInvariant, FilesTyped
<1>2. ~(Cardinality(Wanted(t) \ KeptDirs(t)) > Ceiling - (held - Cardinality(Stale(t))))
  BY <1>1, ListsFit DEF Setting
<1>3. /\ Serving(t) /\ listed[t] # {} /\ ~(synced[t] /\ t \in WatchedTrees)
      /\ cur' = t /\ Drop(Stale(t)) /\ Register(t, Wanted(t), FALSE, "serve")
      /\ synced' = [synced EXCEPT ![t] = TRUE]
      /\ UNCHANGED <<corpusVars, listed, ready, dirtVars, buildVars>>
  BY <1>2, Zenon DEF SyncDirs
<1>4. /\ dpc' = "register" /\ task'.todo = Wanted(t) /\ task'.listing = Nothing
      /\ ~task'.deep /\ task'.tree = t /\ task'.back = "serve"
  BY <1>3 DEF Register
<1>5. dpc = "serve"
  BY <1>3 DEF Serving, CoverageInvariant, DaemonIsWhereItIs
<1>6. UNCHANGED <<node, disk, files, listed, ready, sincePublish, sinceWalk, drained,
                  build, index>>
  BY <1>3 DEF corpusVars, dirtVars, buildVars
<1>7. /\ \A d \in Under[t] : Exists(d) => d \in listed[t]
      /\ listed[t] \subseteq Under[t]
  BY <1>3, <1>5, SyncedListsAreWhole DEF Setting
<1>8. \A d \in watchedDirs : Exists(d) => node[d] \notin Stale(t)
  BY <1>3, <1>5, StaleIsGone DEF Setting
<1>9. Stale(t) \in SUBSET Registered
  BY DEF Stale, WatchesOf
<1>10. /\ EntriesAreTrue' /\ OnlyLeavesMove' /\ EventsAreOfTheRegistered'
       /\ \A u : WatchesOf(u)' \subseteq WatchesOf(u)
       /\ \A u \in Trees : KeepsNews(u) /\ \A d \in Under[u] : Made(d) => Made(d)'
  BY <1>1, <1>3, <1>8, <1>9, DropLeavesTheRest DEF Setting
<1>11. \A u : /\ ~Syncing(u) /\ ~Covering(u)
              /\ Syncing(u)' <=> u = t
              /\ Covering(u)' <=> u = t /\ ~ready[u]
  BY <1>4, <1>5, <1>6 DEF Syncing, Covering, Registering
<1>12. CorpusIsATree'
  BY <1>3, SameCorpus
<1>13. DaemonIsWhereItIs' /\ GrowthIsDirty'
  <2>1. Wanted(t) \subseteq Under[t]
    BY <1>7 DEF Wanted, Setting, Layout
  <2> QED
    BY <1>3, <1>4, <1>5, <1>6, <2>1
       DEF CoverageInvariant, DaemonIsWhereItIs, GrowthIsDirty
<1>14. \A u \in Trees : synced'[u] <=> synced[u] \/ u = t
  BY <1>1, <1>3
<1>15. ListsAreWhole'
  BY <1>6, <1>14 DEF CoverageInvariant, ListsAreWhole, Exists
<1>16. WatchedTreesAreTended'
  <2> SUFFICES ASSUME NEW u \in Trees
               PROVE  /\ WatchesOf(u)' # {} => ready[u] \/ u = t
                      /\ u # t /\ (synced[u] \/ ready[u]) => IndexRoot[u] \in watchedDirs'
                      /\ IndexRoot[t] \in task'.todo
                      /\ ~ready[u] => Wide \in sincePublish[u]
    BY <1>6, <1>11, <1>14 DEF WatchedTreesAreTended
  <2>1. /\ WatchesOf(u) # {} => ready[u]
        /\ synced[u] \/ ready[u] => IndexRoot[u] \in watchedDirs
        /\ ~ready[u] => Wide \in sincePublish[u]
    BY <1>11 DEF CoverageInvariant, WatchedTreesAreTended
  <2>2. Exists(IndexRoot[u]) /\ IndexRoot[u] \in Under[u]
    BY DEF CoverageInvariant, CorpusIsATree, Setting, Layout
  <2>3. IndexRoot[u] \in watchedDirs => IndexRoot[u] \in watchedDirs'
    BY <1>10, <2>2 DEF KeepsNews
  <2> QED BY <1>4, <1>10, <2>1, <2>3 DEF Wanted
<1>17. UncoveredIsAnnounced'
  <2> SUFFICES ASSUME NEW u \in Trees, ready[u] \/ Covering(u)', NEW x \in Under[u],
                      Uncovered(x)'
               PROVE  Made(x)' \/ (Covering(u)' /\ InHand(x)')
    BY <1>6 DEF UncoveredIsAnnounced
  <2>1. CASE ready[u]
    <3>1. Uncovered(x)
      BY <1>6, <1>10 DEF Uncovered, Exists, KeepsNews
    <3> QED BY <1>10, <1>11, <2>1, <3>1 DEF CoverageInvariant, UncoveredIsAnnounced
  <2>2. CASE Covering(u)'
    <3>1. u = t /\ x \in listed[t]
      BY <1>6, <1>7, <1>11, <2>2 DEF Uncovered, Exists
    <3> QED BY <1>4, <2>2, <3>1 DEF InHand, Wanted
  <2> QED BY <2>1, <2>2
<1>18. ReadyTreesAgree'
  BY <1>6, <1>10, NewsKeepsTheAgreement DEF CoverageInvariant
<1>19. build.phase = "none"
  BY <1>5 DEF CoverageInvariant, DaemonIsWhereItIs
<1>20. WalkGetsEverywhere' /\ WalkAgrees'
  BY <1>6, <1>19 DEF WalkGetsEverywhere, WalkAgrees, Walked
<1> QED
  BY <1>1, <1>10, <1>12, <1>13, <1>15, <1>16, <1>17, <1>18, <1>20
     DEF CoverageInvariant

-----------------------------------------------------------------------------
(***************************************************************************)
(* A rebuild.                                                              *)
(***************************************************************************)

\* What a step that leaves the registry, the queue and the corpus alone, and
\* registers nothing, leaves alone too.
LEMMA BuildsLeaveTheRest ==
    ASSUME CoverageInvariant,
           UNCHANGED <<corpusVars, registryVars, kernelVars, ready, drained, task>>,
           dpc' = dpc \/ (dpc # "register" /\ dpc' # "register"),
           \A t \in Trees : synced'[t] => synced[t],
           \A t \in Trees : ~ready[t] => sincePublish'[t] = sincePublish[t]
    PROVE  /\ CorpusIsATree' /\ EntriesAreTrue' /\ OnlyLeavesMove'
           /\ EventsAreOfTheRegistered' /\ WatchedTreesAreTended' /\ GrowthIsDirty'
           /\ UncoveredIsAnnounced'
           /\ \A t : KeepsNews(t) /\ (Told(t)' <=> Told(t)) /\ (Covered(t)' <=> Covered(t))
           /\ \A d : FilePending(d)' <=> FilePending(d)
<1>1. UNCHANGED <<node, disk, files, watchedDirs, queue>>
  BY DEF corpusVars, registryVars, kernelVars
<1>2. CorpusIsATree' /\ EntriesAreTrue' /\ OnlyLeavesMove' /\ EventsAreOfTheRegistered'
  BY SameCorpus, SameRegistry
<1>3. /\ \A t : WatchesOf(t)' = WatchesOf(t) /\ KeepsNews(t)
      /\ \A d : /\ Uncovered(d)' <=> Uncovered(d)
                /\ Made(d)' <=> Made(d)
  BY SameNews
<1>4. \A t : /\ Syncing(t)' <=> Syncing(t)
             /\ Covering(t)' <=> Covering(t)
  BY DEF Syncing, Covering, Registering
<1>5. \A t, d : (InHand(d)' <=> InHand(d)) /\ (Below(t, d)' <=> Below(t, d))
  BY <1>3 DEF InHand, Below
<1>6. WatchedTreesAreTended' /\ GrowthIsDirty'
  BY <1>1, <1>3, <1>4 DEF CoverageInvariant, WatchedTreesAreTended, GrowthIsDirty
<1>7. UncoveredIsAnnounced'
  BY <1>3, <1>4, <1>5 DEF CoverageInvariant, UncoveredIsAnnounced
<1>8. /\ \A t : (Told(t)' <=> Told(t)) /\ (Covered(t)' <=> Covered(t))
      /\ \A d : FilePending(d)' <=> FilePending(d)
  BY <1>1 DEF Told, Covered, FilePending, Unread, Exists
<1> QED BY <1>2, <1>3, <1>6, <1>7, <1>8

\* A rebuild begins.
LEMMA BeginBuildKeepsCoverage ==
    ASSUME CoverageInvariant, Setting, BeginBuild
    PROVE  CoverageInvariant'
<1>1. /\ TypeInvariant' /\ cur \in Trees /\ IndexRoot[cur] \in Dirs
      /\ DOMAIN sinceWalk = Trees
  BY PassKeepsTypes, ConstantsAssumption
     DEF CoverageInvariant, TypeInvariant, DaemonTyped, DirtTyped
<1>2. /\ dpc = "begin" /\ dpc' = "poll"
      /\ sinceWalk' = [sinceWalk EXCEPT ![cur] = {}]
      /\ build' = [NoBuild EXCEPT !.phase = "walking", !.tree = cur,
                                  !.child = TRUE, !.found = {IndexRoot[cur]}]
      /\ UNCHANGED <<corpusVars, registryVars, kernelVars, fileVars, sincePublish,
                     drained, cur, task, index>>
  BY DEF BeginBuild
<1>3. /\ build'.phase = "walking" /\ build'.tree = cur /\ build'.child
      /\ build'.found = {IndexRoot[cur]} /\ build'.seen = {} /\ build'.got = Absent
  BY <1>2 DEF NoBuild
<1>4. ready[cur]
  BY <1>2 DEF CoverageInvariant, DaemonIsWhereItIs
<1>5. UNCHANGED <<node, disk, ready, synced, listed>>
  BY <1>2 DEF corpusVars, fileVars
<1>6. /\ CorpusIsATree' /\ EntriesAreTrue' /\ OnlyLeavesMove'
      /\ EventsAreOfTheRegistered' /\ WatchedTreesAreTended' /\ GrowthIsDirty'
      /\ UncoveredIsAnnounced'
      /\ \A t : KeepsNews(t) /\ (Told(t)' <=> Told(t)) /\ (Covered(t)' <=> Covered(t))
  BY <1>2, <1>5, BuildsLeaveTheRest
<1>7. ListsAreWhole'
  BY <1>2, <1>5, SameLists
<1>8. DaemonIsWhereItIs'
  BY <1>2, <1>3, <1>4, <1>5 DEF CoverageInvariant, DaemonIsWhereItIs
<1>9. ReadyTreesAgree'
  BY <1>2, <1>5, <1>6, NewsKeepsTheAgreement DEF CoverageInvariant
<1>10. WalkGetsEverywhere'
  BY <1>1, <1>3 DEF WalkGetsEverywhere, Walked, Absent, Setting, Layout
<1>11. WalkAgrees'
  <2>1. Wide \notin drained[cur] /\ ~Told(cur) => Covered(cur)
    <3> SUFFICES ASSUME Wide \notin drained[cur], NEW d \in Under[cur], Exists(d),
                        d \notin watchedDirs
                 PROVE  Told(cur)
      BY DEF Covered
    <3>1. Uncovered(d)
      BY DEF Uncovered
    <3>2. \E e \in Unread :
              /\ e.kind = "made" /\ e.dir = d /\ e.wd = node[Parent[d]]
              /\ Parent[d] \in Under[cur] /\ Parent[d] # d
              /\ Parent[d] \in watchedDirs /\ Exists(Parent[d])
      BY <1>1, <1>4, <3>1, UncoveredIsTold DEF Setting
    <3> QED BY <3>2 DEF Told
  <2>2. sinceWalk'[cur] = {}
    BY <1>1, <1>2
  <2> QED BY <1>2, <1>3, <1>6, <2>1, <2>2 DEF WalkAgrees
<1> QED
  BY <1>1, <1>6, <1>7, <1>8, <1>9, <1>10, <1>11 DEF CoverageInvariant

\* A generation that is right about what it has seen has all there is.
LEMMA WhatIsSeenAgrees ==
    ASSUME CorpusIsATree, NEW t \in Trees, NEW got, NEW seen, NEW changed,
           \A d \in Under[t] : Exists(d) => d \in seen,
           \A d \in Dirs : d \notin seen => got[d] = Nothing,
           \A d \in seen :
              /\ Exists(d)
              /\ got[d] # disk[d] => d \in changed \cup drained[t] \/ FilePending(d),
           NEW d \in Under[t], got[d] # disk[d]
    PROVE  Exists(d) /\ (d \in changed \cup drained[t] \/ FilePending(d))
<1>1. d \in Dirs
  BY ConstantsAssumption
<1>2. d \in seen
  BY <1>1 DEF CorpusIsATree
<1> QED BY <1>2

\* commit_since_walk: the generation is what the walk has read.
LEMMA CommitKeepsCoverage ==
    ASSUME CoverageInvariant, Setting, Commit
    PROVE  CoverageInvariant'
<1>1. /\ TypeInvariant' /\ cur \in Trees
      /\ DOMAIN sinceWalk = Trees /\ DOMAIN sincePublish = Trees
  BY PassKeepsTypes DEF CoverageInvariant, TypeInvariant, DaemonTyped, DirtTyped
<1>2. /\ dpc = "commit" /\ dpc' = "serve" /\ build' = NoBuild
      /\ \/ /\ build.phase = "succeeded"
            /\ sincePublish' = [sincePublish EXCEPT ![cur] = sinceWalk[cur]]
         \/ sincePublish' = sincePublish
      /\ UNCHANGED <<corpusVars, registryVars, kernelVars, fileVars, drained, cur, task,
                     index>>
  BY Zenon DEF Commit
<1>3. build'.phase = "none" /\ build'.tree = Nothing
  BY <1>2 DEF NoBuild
<1>4. UNCHANGED <<node, disk, ready, synced, listed>>
  BY <1>2 DEF corpusVars, fileVars
<1>5. \A t \in Trees : t # cur => sincePublish'[t] = sincePublish[t]
  BY <1>1, <1>2
<1>6. build.phase = "succeeded" => build.tree = cur /\ ready[cur]
  BY DEF CoverageInvariant, DaemonIsWhereItIs
<1>7. \A t \in Trees : ~ready[t] => sincePublish'[t] = sincePublish[t]
  BY <1>2, <1>5, <1>6
<1>8. /\ CorpusIsATree' /\ EntriesAreTrue' /\ OnlyLeavesMove'
      /\ EventsAreOfTheRegistered' /\ WatchedTreesAreTended' /\ GrowthIsDirty'
      /\ UncoveredIsAnnounced'
      /\ \A t : KeepsNews(t) /\ (Told(t)' <=> Told(t)) /\ (Covered(t)' <=> Covered(t))
      /\ \A d : FilePending(d)' <=> FilePending(d)
  BY <1>2, <1>4, <1>7, BuildsLeaveTheRest
<1>9. ListsAreWhole'
  BY <1>2, <1>4, SameLists
<1>10. DaemonIsWhereItIs'
  BY <1>2, <1>3 DEF CoverageInvariant, DaemonIsWhereItIs
<1>11. WalkGetsEverywhere' /\ WalkAgrees'
  BY <1>3 DEF WalkGetsEverywhere, WalkAgrees, Walked
<1>12. ReadyTreesAgree'
  <2>1. CASE sincePublish' = sincePublish
    BY <1>2, <1>4, <1>8, <2>1, NewsKeepsTheAgreement DEF CoverageInvariant
  <2>2. CASE /\ build.phase = "succeeded"
             /\ sincePublish' = [sincePublish EXCEPT ![cur] = sinceWalk[cur]]
    <3> SUFFICES ASSUME NEW t \in Trees, ready[t],
                        Wide \notin sincePublish'[t] \cup drained[t], ~Told(t)
                 PROVE  Covered(t) /\ Agrees(t, sincePublish[t])'
      BY <1>2, <1>4, <1>8 DEF ReadyTreesAgree
    <3>1. CASE t # cur
      <4>1. Covered(t) /\ Agrees(t, sincePublish[t])
        BY <1>5, <3>1 DEF CoverageInvariant, ReadyTreesAgree
      <4> QED BY <1>2, <1>4, <1>5, <1>8, <3>1, <4>1 DEF Agrees, Exists
    <3>2. CASE t = cur
      <4>1. sincePublish'[t] = sinceWalk[t] /\ build.tree = t
        BY <1>1, <1>6, <2>2, <3>2
      <4>2. /\ Covered(t)
            /\ \A d \in build.seen :
                  /\ Exists(d)
                  /\ build.got[d] # disk[d] =>
                        d \in sinceWalk[t] \cup drained[t] \/ FilePending(d)
        BY <2>2, <4>1 DEF CoverageInvariant, WalkAgrees, Walked
      <4>3. /\ \A d \in Under[t] : Exists(d) => d \in build.seen
            /\ index[t] = build.got
            /\ \A d \in Dirs : d \notin build.seen => build.got[d] = Nothing
        BY <2>2, <4>1 DEF CoverageInvariant, WalkGetsEverywhere, Walked
      <4>4. ASSUME NEW d \in Under[t], index[t][d] # disk[d]
            PROVE  Exists(d) /\ (d \in sinceWalk[t] \cup drained[t] \/ FilePending(d))
        BY <4>2, <4>3, <4>4, WhatIsSeenAgrees DEF CoverageInvariant
      <4> QED BY <1>2, <1>4, <1>8, <4>1, <4>2, <4>4 DEF Agrees, Exists
    <3> QED BY <3>1, <3>2
  <2> QED BY <1>2, <2>1, <2>2
<1> QED
  BY <1>1, <1>8, <1>9, <1>10, <1>11, <1>12 DEF CoverageInvariant

\* A build is the current tree's, and the daemon's child.
LEMMA BuildIsTheChild ==
    ASSUME CoverageInvariant, build.phase # "none"
    PROVE  build.child /\ build.tree = cur /\ ready[cur] /\ cur \in Trees
BY DEF CoverageInvariant, DaemonIsWhereItIs, TypeInvariant, DaemonTyped

\* The walk visits a directory.
LEMMA VisitKeepsCoverage ==
    ASSUME CoverageInvariant, Setting, NEW d \in Dirs, Visit(d)
    PROVE  CoverageInvariant'
<1>1. TypeInvariant' /\ build \in Builds
  BY BuildStepKeepsTypes DEF BuildStep, CoverageInvariant, TypeInvariant, BuildTyped
<1>2. /\ build.phase = "walking" /\ d \in build.found
      /\ build' = [build EXCEPT
                      !.found = (@ \ {d}) \cup {c \in Children(d) : Exists(c)},
                      !.seen = IF Exists(d) THEN @ \cup {d} ELSE @,
                      !.got[d] = disk[d]]
      /\ UNCHANGED <<corpusVars, registryVars, kernelVars, fileVars, dirtVars,
                     daemonVars, index>>
  BY DEF Visit
<1>3. /\ build'.phase = "walking" /\ build'.tree = build.tree
      /\ build'.child = build.child
      /\ build'.found = (build.found \ {d}) \cup {c \in Children(d) : Exists(c)}
      /\ build'.seen = IF Exists(d) THEN build.seen \cup {d} ELSE build.seen
      /\ build'.got = [build.got EXCEPT ![d] = disk[d]]
      /\ build.got \in [Dirs -> Versions \cup {Nothing}]
  BY <1>1, <1>2 DEF Builds
<1>4. UNCHANGED <<node, disk, ready, synced, listed, sincePublish, sinceWalk, drained,
                  dpc, cur, task, index>>
  BY <1>2 DEF corpusVars, fileVars, dirtVars, daemonVars
<1>5. /\ CorpusIsATree' /\ EntriesAreTrue' /\ OnlyLeavesMove'
      /\ EventsAreOfTheRegistered' /\ WatchedTreesAreTended' /\ GrowthIsDirty'
      /\ UncoveredIsAnnounced'
      /\ \A t : KeepsNews(t) /\ (Told(t)' <=> Told(t)) /\ (Covered(t)' <=> Covered(t))
      /\ \A x : FilePending(x)' <=> FilePending(x)
  BY <1>2, <1>4, BuildsLeaveTheRest
<1>6. ListsAreWhole' /\ DaemonIsWhereItIs'
  BY <1>2, <1>3, <1>4, SameLists DEF CoverageInvariant, DaemonIsWhereItIs
<1>7. ReadyTreesAgree'
  BY <1>4, <1>5, NewsKeepsTheAgreement DEF CoverageInvariant
<1>8. build.tree \in Trees
  BY <1>2, BuildIsTheChild
<1>9. WalkGetsEverywhere /\ WalkAgrees /\ CorpusIsATree
  BY DEF CoverageInvariant
<1>10. WalkGetsEverywhere'
  <2>1. build'.seen \cup build'.found \subseteq Under[build.tree]
    BY <1>2, <1>3, <1>8, <1>9 DEF WalkGetsEverywhere, Setting, Layout
  <2>2. ASSUME NEW x \in Under[build.tree], Exists(x)
        PROVE  \/ x \in build'.seen \cup build'.found
               \/ x # IndexRoot[build.tree] /\ Parent[x] \notin build'.seen
    <3>1. \/ x \in build.seen \cup build.found
          \/ x # IndexRoot[build.tree] /\ Parent[x] \notin build.seen
      BY <1>2, <1>9, <2>2 DEF WalkGetsEverywhere
    <3>2. x # IndexRoot[build.tree] /\ Parent[x] = d => x \in Children(d)
      BY <1>8, ConstantsAssumption DEF Children, Setting, Layout
    <3> QED BY <1>3, <2>2, <3>1, <3>2
  <2>3. ASSUME NEW x \in Dirs, x \notin build'.seen PROVE build'.got[x] = Nothing
    <3>1. CASE x = d
      BY <1>3, <1>9, <2>3, <3>1 DEF CorpusIsATree
    <3>2. CASE x # d
      BY <1>2, <1>3, <1>9, <2>3, <3>2 DEF WalkGetsEverywhere, Walked
    <3> QED BY <3>1, <3>2
  <2> QED BY <1>3, <1>4, <2>1, <2>2, <2>3 DEF WalkGetsEverywhere, Walked, Exists
<1>11. WalkAgrees'
  <2> SUFFICES ASSUME NEW t, t = build.tree
               PROVE  /\ Wide \in sincePublish[t] \/ sinceWalk[t] \subseteq sincePublish[t]
                      /\ Wide \notin sinceWalk[t] \cup drained[t] /\ ~Told(t) =>
                            /\ Covered(t)
                            /\ \A x \in build'.seen :
                                  /\ Exists(x)
                                  /\ build'.got[x] # disk[x] =>
                                        x \in sinceWalk[t] \cup drained[t] \/ FilePending(x)
    BY <1>3, <1>4, <1>5 DEF WalkAgrees, Exists
  <2>1. /\ Wide \in sincePublish[t] \/ sinceWalk[t] \subseteq sincePublish[t]
        /\ Wide \notin sinceWalk[t] \cup drained[t] /\ ~Told(t) =>
              /\ Covered(t)
              /\ \A x \in build.seen :
                    /\ Exists(x)
                    /\ build.got[x] # disk[x] =>
                          x \in sinceWalk[t] \cup drained[t] \/ FilePending(x)
    BY <1>2, <1>9 DEF WalkAgrees, Walked
  <2>2. build.seen \subseteq Dirs
    BY <1>1 DEF Builds
  <2>3. \A x \in build'.seen : x \in build.seen \/ (x = d /\ Exists(d))
    BY <1>3, <2>2
  <2>4. /\ build'.got[d] = disk[d]
        /\ \A x \in build.seen : x # d => build'.got[x] = build.got[x]
    BY <1>3, <2>2
  <2> QED BY <2>1, <2>3, <2>4
<1> QED
  BY <1>1, <1>5, <1>6, <1>7, <1>10, <1>11 DEF CoverageInvariant

\* A walk that has nothing left has seen every directory that is there.
LEMMA WalksEnd ==
    ASSUME CorpusIsATree, WalkGetsEverywhere, Layout, build.phase = "walking",
           build.found = {}, build.tree \in Trees, NEW d \in Under[build.tree], Exists(d)
    PROVE  d \in build.seen
<1> DEFINE S == {x \in Under[build.tree] : Exists(x) /\ x \notin build.seen}
<1>1. \A x \in S : Parent[x] \in S /\ Parent[x] # x
  <2> SUFFICES ASSUME NEW x \in S PROVE Parent[x] \in S /\ Parent[x] # x
    OBVIOUS
  <2>1. x # IndexRoot[build.tree] /\ Parent[x] \notin build.seen
    BY DEF WalkGetsEverywhere
  <2>2. Parent[x] \in Under[build.tree] /\ Parent[x] # x /\ x \in Dirs
    BY <2>1, ConstantsAssumption DEF Layout
  <2> QED BY <2>1, <2>2 DEF CorpusIsATree
<1>2. S \in SUBSET Dirs
  BY ConstantsAssumption
<1> HIDE DEF S
<1>3. S = {}
  BY <1>1, <1>2, SetsHaveATop
<1> QED BY <1>3 DEF S

\* What a rebuild has read becomes the generation: it misses no more than is
\* known to have changed since the last one.
LEMMA SwapInKeepsCoverage ==
    ASSUME CoverageInvariant, Setting, SwapIn
    PROVE  CoverageInvariant'
<1>1. /\ TypeInvariant' /\ build \in Builds /\ DOMAIN index = Trees
  BY BuildStepKeepsTypes DEF BuildStep, CoverageInvariant, TypeInvariant, BuildTyped
<1>2. /\ build.phase = "walking" /\ build.found = {}
      /\ index' = [index EXCEPT ![build.tree] = build.got]
      /\ build' = [build EXCEPT !.phase = "published"]
      /\ UNCHANGED <<corpusVars, registryVars, kernelVars, fileVars, dirtVars, daemonVars>>
  BY DEF SwapIn
<1>3. /\ build'.phase = "published" /\ build'.tree = build.tree
      /\ build'.child = build.child /\ build'.found = build.found
      /\ build'.seen = build.seen /\ build'.got = build.got
  BY <1>1, <1>2 DEF Builds
<1>4. build.tree \in Trees /\ Walked
  BY <1>2, BuildIsTheChild DEF Walked
<1>5. /\ index'[build.tree] = build.got
      /\ \A t \in Trees : t # build.tree => index'[t] = index[t]
  BY <1>1, <1>2, <1>4
<1>6. UNCHANGED <<node, disk, ready, synced, listed, sincePublish, sinceWalk, drained,
                  dpc, cur, task>>
  BY <1>2 DEF corpusVars, fileVars, dirtVars, daemonVars
<1>7. /\ CorpusIsATree' /\ EntriesAreTrue' /\ OnlyLeavesMove'
      /\ EventsAreOfTheRegistered' /\ WatchedTreesAreTended' /\ GrowthIsDirty'
      /\ UncoveredIsAnnounced'
      /\ \A t : KeepsNews(t) /\ (Told(t)' <=> Told(t)) /\ (Covered(t)' <=> Covered(t))
      /\ \A x : FilePending(x)' <=> FilePending(x)
  BY <1>2, <1>6, BuildsLeaveTheRest
<1>8. ListsAreWhole' /\ DaemonIsWhereItIs'
  BY <1>2, <1>3, <1>6, SameLists DEF CoverageInvariant, DaemonIsWhereItIs
<1>9. WalkGetsEverywhere /\ WalkAgrees /\ CorpusIsATree /\ ReadyTreesAgree
  BY DEF CoverageInvariant
<1>10. \A d \in Under[build.tree] : Exists(d) => d \in build.seen
  BY <1>2, <1>4, <1>9, WalksEnd DEF Setting
<1>11. WalkGetsEverywhere'
  BY <1>2, <1>3, <1>5, <1>6, <1>9, <1>10 DEF WalkGetsEverywhere, Walked, Exists
<1>12. WalkAgrees'
  BY <1>3, <1>4, <1>6, <1>7, <1>9 DEF WalkAgrees, Exists
<1>13. ReadyTreesAgree'
  <2> SUFFICES ASSUME NEW t \in Trees, ready[t],
                      Wide \notin sincePublish[t] \cup drained[t], ~Told(t)
               PROVE  Covered(t) /\ Agrees(t, sincePublish[t])'
    BY <1>6, <1>7 DEF ReadyTreesAgree
  <2>1. Covered(t) /\ Agrees(t, sincePublish[t])
    BY <1>9 DEF ReadyTreesAgree
  <2>2. CASE t # build.tree
    BY <1>5, <1>6, <1>7, <2>1, <2>2 DEF Agrees, Exists
  <2>3. CASE t = build.tree
    <3>1. sinceWalk[t] \subseteq sincePublish[t]
      BY <1>4, <1>9, <2>3 DEF WalkAgrees
    <3>2. \A d \in build.seen :
              /\ Exists(d)
              /\ build.got[d] # disk[d] =>
                    d \in sinceWalk[t] \cup drained[t] \/ FilePending(d)
      BY <1>4, <1>9, <2>3, <3>1 DEF WalkAgrees
    <3>3. \A d \in Dirs : d \notin build.seen => build.got[d] = Nothing
      BY <1>4, <1>9 DEF WalkGetsEverywhere
    <3>4. ASSUME NEW d \in Under[t], build.got[d] # disk[d]
          PROVE  Exists(d) /\ (d \in sinceWalk[t] \cup drained[t] \/ FilePending(d))
      BY <1>9, <1>10, <2>3, <3>2, <3>3, <3>4, WhatIsSeenAgrees
    <3> QED BY <1>5, <1>6, <1>7, <2>1, <2>3, <3>1, <3>4 DEF Agrees, Exists
  <2> QED BY <2>2, <2>3
<1> QED
  BY <1>1, <1>7, <1>8, <1>11, <1>12, <1>13 DEF CoverageInvariant

\* write_watch_dirs: the list that is not in force yet is of all there is.
LEMMA WriteWatchDirsKeepsCoverage ==
    ASSUME CoverageInvariant, Setting, WriteWatchDirs
    PROVE  CoverageInvariant'
<1>1. /\ TypeInvariant' /\ build \in Builds
      /\ DOMAIN listed = Trees /\ synced \in [Trees -> BOOLEAN]
  BY BuildStepKeepsTypes
     DEF BuildStep, CoverageInvariant, TypeInvariant, BuildTyped, FilesTyped
<1>2. build.phase = "published" /\ build.child
  BY BuildIsTheChild DEF WriteWatchDirs
<1>3. /\ listed' = [listed EXCEPT ![build.tree] = build.seen]
      /\ synced' = [synced EXCEPT ![build.tree] = FALSE]
      /\ build' = [build EXCEPT !.phase = "succeeded"]
      /\ UNCHANGED <<corpusVars, registryVars, kernelVars, ready, dirtVars,
                     daemonVars, index>>
  BY <1>2 DEF WriteWatchDirs
<1>4. /\ build'.phase = "succeeded" /\ build'.tree = build.tree
      /\ build'.child = build.child /\ build'.found = build.found
      /\ build'.seen = build.seen /\ build'.got = build.got
  BY <1>1, <1>3 DEF Builds
<1>5. build.tree \in Trees
  BY <1>2, BuildIsTheChild
<1>6. UNCHANGED <<node, disk, ready, sincePublish, sinceWalk, drained, dpc, cur, task,
                  index>>
  BY <1>3 DEF corpusVars, dirtVars, daemonVars
<1>7. \A t \in Trees : synced'[t] <=> synced[t] /\ t # build.tree
  BY <1>1, <1>3
<1>8. /\ CorpusIsATree' /\ EntriesAreTrue' /\ OnlyLeavesMove'
      /\ EventsAreOfTheRegistered' /\ WatchedTreesAreTended' /\ GrowthIsDirty'
      /\ UncoveredIsAnnounced'
      /\ \A t : KeepsNews(t) /\ (Told(t)' <=> Told(t)) /\ (Covered(t)' <=> Covered(t))
      /\ \A x : FilePending(x)' <=> FilePending(x)
  BY <1>3, <1>6, <1>7, BuildsLeaveTheRest
<1>9. WalkGetsEverywhere /\ WalkAgrees /\ ListsAreWhole
  BY DEF CoverageInvariant
<1>10. ListsAreWhole'
  <2> SUFFICES ASSUME NEW t \in Trees
               PROVE  /\ listed'[t] \subseteq Under[t]
                      /\ listed'[t] # {} /\ ~synced'[t] =>
                            \A d \in Under[t] : Exists(d) => d \in listed'[t]
    BY <1>6 DEF ListsAreWhole, Exists
  <2>1. CASE t # build.tree
    BY <1>1, <1>3, <1>5, <1>7, <1>9, <2>1 DEF ListsAreWhole
  <2>2. CASE t = build.tree
    <3>1. listed'[t] = build.seen
      BY <1>1, <1>3, <2>2
    <3> QED BY <1>2, <1>9, <2>2, <3>1 DEF WalkGetsEverywhere
  <2> QED BY <2>1, <2>2
<1>11. DaemonIsWhereItIs'
  BY <1>2, <1>4, <1>6 DEF CoverageInvariant, DaemonIsWhereItIs
<1>12. ReadyTreesAgree'
  BY <1>6, <1>8, NewsKeepsTheAgreement DEF CoverageInvariant
<1>13. WalkGetsEverywhere'
  BY <1>2, <1>4, <1>6, <1>9 DEF WalkGetsEverywhere, Walked, Exists
<1>14. WalkAgrees'
  BY <1>2, <1>4, <1>5, <1>6, <1>8, <1>9 DEF WalkAgrees, Walked, Exists
<1> QED
  BY <1>1, <1>8, <1>10, <1>11, <1>12, <1>13, <1>14 DEF CoverageInvariant

\* A rebuild fails: nothing it has read counts.
LEMMA BuildFailsKeepsCoverage ==
    ASSUME CoverageInvariant, Setting, BuildFails
    PROVE  CoverageInvariant'
<1>1. TypeInvariant' /\ build \in Builds
  BY BuildStepKeepsTypes DEF BuildStep, CoverageInvariant, TypeInvariant, BuildTyped
<1>2. build.phase \in {"walking", "published"} /\ build.child
  BY BuildIsTheChild DEF BuildFails
<1>3. /\ build' = [build EXCEPT !.phase = "failed"]
      /\ UNCHANGED <<corpusVars, registryVars, kernelVars, fileVars, dirtVars,
                     daemonVars, index>>
  BY <1>2 DEF BuildFails
<1>4. /\ build'.phase = "failed" /\ build'.tree = build.tree
      /\ build'.child = build.child /\ build'.found = build.found
      /\ build'.seen = build.seen
  BY <1>1, <1>3 DEF Builds
<1>5. UNCHANGED <<node, disk, ready, synced, listed, sincePublish, sinceWalk, drained,
                  dpc, cur, task, index>>
  BY <1>3 DEF corpusVars, fileVars, dirtVars, daemonVars
<1>6. /\ CorpusIsATree' /\ EntriesAreTrue' /\ OnlyLeavesMove'
      /\ EventsAreOfTheRegistered' /\ WatchedTreesAreTended' /\ GrowthIsDirty'
      /\ UncoveredIsAnnounced' /\ \A t : KeepsNews(t)
  BY <1>3, <1>5, BuildsLeaveTheRest
<1>7. ListsAreWhole' /\ DaemonIsWhereItIs'
  BY <1>2, <1>3, <1>4, <1>5, SameLists DEF CoverageInvariant, DaemonIsWhereItIs
<1>8. ReadyTreesAgree'
  BY <1>5, <1>6, NewsKeepsTheAgreement DEF CoverageInvariant
<1>9. WalkGetsEverywhere' /\ WalkAgrees'
  BY <1>2, <1>4 DEF CoverageInvariant, WalkGetsEverywhere, WalkAgrees, Walked
<1> QED
  BY <1>1, <1>6, <1>7, <1>8, <1>9 DEF CoverageInvariant

-----------------------------------------------------------------------------
(***************************************************************************)
(* The invariant holds.                                                    *)
(***************************************************************************)

\* A new daemon trusts no tree.
LEMMA RestartKeepsCoverage ==
    ASSUME CoverageInvariant, Setting, Restart
    PROVE  CoverageInvariant'
<1>1. TypeInvariant'
  BY RestartKeepsTypes DEF CoverageInvariant
<1>2. /\ ListsAreCurrent
      /\ byWatch' = [wd \in Nodes |-> NoWatch] /\ queue' = <<>>
      /\ synced' = [t \in Trees |-> FALSE] /\ ready' = [t \in Trees |-> FALSE]
      /\ sincePublish' = [t \in Trees |-> Unbounded]
      /\ dpc' = "top" /\ build' = NoBuild
      /\ UNCHANGED <<corpusVars, listed>>
  BY DEF Restart, Setting, Calm
<1>3. /\ Registered' = {} /\ Unread' = {} /\ \A t : WatchesOf(t)' = {}
      /\ build'.phase = "none" /\ build'.tree = Nothing
      /\ \A t : ~Syncing(t)' /\ ~Covering(t)'
  BY <1>2
     DEF Registered, Unread, EventsIn, WatchesOf, NoBuild, Syncing, Covering, Registering
<1>4. CorpusIsATree'
  BY <1>2, SameCorpus
<1>5. ListsAreWhole'
  BY <1>2 DEF CoverageInvariant, ListsAreWhole, ListsAreCurrent, Exists, corpusVars
<1>6. EntriesAreTrue' /\ OnlyLeavesMove' /\ EventsAreOfTheRegistered'
  BY <1>3 DEF EntriesAreTrue, OnlyLeavesMove, EventsAreOfTheRegistered
<1>7. DaemonIsWhereItIs' /\ GrowthIsDirty'
  BY <1>2, <1>3 DEF DaemonIsWhereItIs, GrowthIsDirty
<1>8. WatchedTreesAreTended'
  BY <1>2, <1>3 DEF WatchedTreesAreTended, Unbounded
<1>9. UncoveredIsAnnounced' /\ ReadyTreesAgree'
  BY <1>2, <1>3 DEF UncoveredIsAnnounced, ReadyTreesAgree
<1>10. WalkGetsEverywhere' /\ WalkAgrees'
  BY <1>3 DEF WalkGetsEverywhere, WalkAgrees, Walked
<1> QED
  BY <1>1, <1>4, <1>5, <1>6, <1>7, <1>8, <1>9, <1>10 DEF CoverageInvariant

\* Every watch there is room for is had, and nothing stands in the way of one.
LEMMA NothingIsRefused ==
    ASSUME CoverageInvariant, Setting
    PROVE  /\ \A d \in Dirs : ~GiveUp(d) /\ ~WatchFails(d)
           /\ \A t \in Trees : ~Evict(t)
           /\ ~Refuse
<1>1. RegistryInvariant
  BY DEF CoverageInvariant, TypeInvariant
<1>2. \A d \in Dirs : ~GiveUp(d)
  BY <1>1, NothingIsSpent DEF GiveUp, Setting
<1>3. \A d \in Dirs : ~WatchFails(d)
  BY DEF WatchFails, Blocked, CoverageInvariant, CorpusIsATree
<1>4. dpc # "refused"
  BY DEF CoverageInvariant, DaemonIsWhereItIs
<1> QED BY <1>2, <1>3, <1>4 DEF Evict, Refuse

\* The daemon starts with no tree ready.
LEMMA CoverageInit ==
    ASSUME Init
    PROVE  CoverageInvariant
<1>1. TypeInvariant
  BY TypesInit
<1>2. CorpusIsATree
  <2>1. PICK there \in SUBSET Dirs :
            /\ \A d \in there : Parent[d] \in there
            /\ \A t \in Trees : IndexRoot[t] \in there
            /\ \A d \in Dirs : Exists(d) <=> d \in there
            /\ \A c, d \in there : node[c] = node[d] => c = d
            /\ \A d \in Dirs : disk[d] # Nothing <=> d \in there
    BY DEF Init
  <2>2. files = {}
    BY DEF Init
  <2>3. \A c, d \in Dirs : Exists(c) /\ node[c] = node[d] => Exists(d)
    BY DEF Exists
  <2> QED BY <2>1, <2>2, <2>3 DEF CorpusIsATree
<1>3. /\ queue = <<>> /\ byWatch = [wd \in Nodes |-> NoWatch]
      /\ listed = [t \in Trees |-> {}] /\ synced = [t \in Trees |-> FALSE]
      /\ ready = [t \in Trees |-> FALSE] /\ sincePublish = [t \in Trees |-> Unbounded]
      /\ dpc = "top" /\ build = NoBuild
  BY DEF Init
<1>4. /\ Registered = {} /\ Unread = {} /\ \A t : WatchesOf(t) = {}
      /\ build.phase = "none" /\ build.tree = Nothing
      /\ \A t : ~Syncing(t) /\ ~Covering(t)
  BY <1>3
     DEF Registered, Unread, EventsIn, WatchesOf, NoBuild, Syncing, Covering, Registering
<1>5. EntriesAreTrue /\ OnlyLeavesMove /\ EventsAreOfTheRegistered /\ ListsAreWhole
  BY <1>3, <1>4
     DEF EntriesAreTrue, OnlyLeavesMove, EventsAreOfTheRegistered, ListsAreWhole
<1>6. DaemonIsWhereItIs /\ GrowthIsDirty
  BY <1>3, <1>4 DEF DaemonIsWhereItIs, GrowthIsDirty
<1>7. WatchedTreesAreTended
  BY <1>3, <1>4 DEF WatchedTreesAreTended, Unbounded
<1>8. UncoveredIsAnnounced /\ ReadyTreesAgree
  BY <1>3, <1>4 DEF UncoveredIsAnnounced, ReadyTreesAgree
<1>9. WalkGetsEverywhere /\ WalkAgrees
  BY <1>4 DEF WalkGetsEverywhere, WalkAgrees, Walked
<1> QED
  BY <1>1, <1>2, <1>5, <1>6, <1>7, <1>8, <1>9 DEF CoverageInvariant

\* Every step of the corpus, the daemon and a rebuild keeps the invariant.
LEMMA CoverageStep ==
    ASSUME CoverageInvariant, Setting, [Next]_vars
    PROVE  CoverageInvariant'
<1>1. CASE Corpus
  BY <1>1, CorpusKeepsCoverage
<1>2. CASE DaemonStep
  BY <1>2, NothingIsRefused, WatchDirKeepsCoverage, ListDirKeepsCoverage,
     RegistrationKeepsCoverage, ApplyEventKeepsCoverage, DrainedKeepsCoverage,
     ReleaseKeepsCoverage, SyncNothingKeepsCoverage, SyncTreeKeepsCoverage,
     SyncDirsKeepsCoverage, PassKeepsCoverage, BeginBuildKeepsCoverage,
     CommitKeepsCoverage
     DEF DaemonStep
<1>3. CASE Restart
  BY <1>3, RestartKeepsCoverage
<1>4. CASE BuildStep
  BY <1>4, VisitKeepsCoverage, SwapInKeepsCoverage, WriteWatchDirsKeepsCoverage,
     BuildFailsKeepsCoverage
     DEF BuildStep
<1>5. CASE UNCHANGED vars
  <2>1. TypeInvariant'
    BY <1>5, TypesStep DEF CoverageInvariant
  <2>2. DaemonIsWhereItIs'
    BY <1>5 DEF CoverageInvariant, DaemonIsWhereItIs, vars, fileVars, daemonVars, buildVars
  <2> QED BY <1>5, <2>1, <2>2, GoingOnKeepsCoverage DEF vars, daemonVars
<1> QED BY <1>1, <1>2, <1>3, <1>4, <1>5 DEF Next

\* What the invariant says of a ready tree.
LEMMA NothingIsMissed ==
    ASSUME CoverageInvariant, Layout
    PROVE  NoChangeEscapes
<1> SUFFICES ASSUME NEW t \in Trees, ready[t], NEW d \in Under[t],
                    index[t][d] # disk[d],
                    Wide \notin sincePublish[t] \cup drained[t],
                    d \notin sincePublish[t] \cup drained[t]
             PROVE  Pending(t, d)
  BY DEF NoChangeEscapes
<1>1. Registry
  BY DEF CoverageInvariant, Registry
<1>2. CASE Told(t)
  <2>1. \A p \in Under[t] : Exists(p) /\ p \in watchedDirs => node[p] \in WatchesOf(t)
    BY <1>1, WatchedIsOfItsTree
  <2>2. PICK e \in Unread :
            e.kind = "overflow" \/ (e.kind # "file" /\ e.wd \in WatchesOf(t))
    BY <1>2, <2>1 DEF Told
  <2> QED BY <2>2 DEF Pending, Unread, EventsIn
<1>3. CASE ~Told(t)
  <2>1. Covered(t) /\ Exists(d) /\ FilePending(d)
    BY <1>3 DEF CoverageInvariant, ReadyTreesAgree, Agrees
  <2>2. node[d] \in WatchesOf(t) /\ byWatch[node[d]].dir = d
    BY <1>1, <2>1, WatchedIsOfItsTree DEF Covered
  <2>3. PICK e \in Unread : e.wd = node[d]
    BY <2>1 DEF FilePending
  <2> QED BY <2>2, <2>3 DEF Pending, Unread, EventsIn
<1> QED BY <1>2, <1>3

\* Where no registration is under way and no event is queued, a ready tree has
\* nothing that is not watched.
LEMMA NothingIsUncovered ==
    ASSUME CoverageInvariant, Layout
    PROVE  ReadyTreesAreCovered
<1> SUFFICES ASSUME NEW t \in Trees, ready[t], queue = <<>>, dpc # "register",
                    NEW d \in Under[t], Exists(d)
             PROVE  node[d] \in WatchesOf(t) \cap marks
  BY DEF ReadyTreesAreCovered
<1>1. Registry
  BY DEF CoverageInvariant, Registry
<1>2. ~Covering(t) /\ ~Made(d)
  BY DEF Covering, Registering, Made, Unread, EventsIn
<1>3. d \in watchedDirs
  BY <1>2 DEF CoverageInvariant, UncoveredIsAnnounced, Uncovered
<1> QED BY <1>1, <1>3, WatchedIsOfItsTree

\* A ready tree hears of every change to it: what its generation misses is in
\* its change set or in an event that it will be told of (watcher-ready).  The
\* hypotheses leave out what Watches.tla shows to lose one: a path that is made
\* again, a list of directories that is behind, a file in a directory's place;
\* and trees that share directories, and a budget that runs out.
THEOREM NothingEscapes ==
    ASSUME Setting
    PROVE  Spec => []NoChangeEscapes
<1>1. Init => CoverageInvariant
  BY CoverageInit
<1>2. CoverageInvariant /\ [Next]_vars => CoverageInvariant'
  BY CoverageStep
<1>3. CoverageInvariant => NoChangeEscapes
  BY NothingIsMissed DEF Setting
<1> QED BY <1>1, <1>2, <1>3, PTL DEF Spec

\* And every directory it has is watched, once its events have been read and no
\* registration is under way (Watcher::give_up_on).
THEOREM TreesStayCovered ==
    ASSUME Setting
    PROVE  Spec => []ReadyTreesAreCovered
<1>1. Init => CoverageInvariant
  BY CoverageInit
<1>2. CoverageInvariant /\ [Next]_vars => CoverageInvariant'
  BY CoverageStep
<1>3. CoverageInvariant => ReadyTreesAreCovered
  BY NothingIsUncovered DEF Setting
<1> QED BY <1>1, <1>2, <1>3, PTL DEF Spec
=============================================================================
