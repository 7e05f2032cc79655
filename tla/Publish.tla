------------------------------- MODULE Publish -------------------------------
(***************************************************************************)
(* How a generation takes the place of the one before it: a rebuild walks  *)
(* the tree, takes the build lock, recovers what a killed rebuild left,    *)
(* fills a staging directory file by file and swaps it in by two renames.  *)
(* Meanwhile the daemon sweeps leftovers, and queries open the files of    *)
(* the published directory one after the other, by name.                   *)
(*                                                                         *)
(* The content of an index file is the set of paths its build walked.      *)
(* Ordinals count the paths in their order, so that a file tells two       *)
(* generations apart by the number of their paths only.                    *)
(***************************************************************************)
EXTENDS Naturals, FiniteSets

CONSTANTS
    Paths,               \* paths of the corpus, numbers in their order
    Wanted,              \* one that is always there, and matches a query
    Builders,            \* rebuild processes: a child, and those left over
    Nobody, None,        \* no builder; no such file or directory
    CountsRepeat,        \* files vanish, and older walks are published late
    SweepFindsNoHome,    \* the sweep runs between a crash and the recovery
    SweepMeetsBuild      \* a build starts between a sweep's probe and its end

Names       == {"home", "rebuilding", "old"}
Generations == {g \in SUBSET Paths : Wanted \in g}
Files       == {"summary", "table", "postings", "manifest", "paths"}
Content     == [Files -> Generations \cup {None}]

ASSUME ConstantsAssumption ==
    /\ Paths \subseteq Nat /\ IsFiniteSet(Paths) /\ Wanted \in Paths
    /\ Nobody \notin Builders
    /\ None \notin Names
    /\ \A g \in Generations : g # None
    /\ \A c \in Content : c # None
    /\ CountsRepeat \in BOOLEAN /\ SweepFindsNoHome \in BOOLEAN
    /\ SweepMeetsBuild \in BOOLEAN

VARIABLES
    corpus,      \* the paths that are there
    dir,         \* the files of postings-v9, .rebuilding and .old
    lock,        \* the holder of postings-v9.lock
    builder,     \* rebuild processes
    sweep,       \* generations::sweep
    query        \* one eg process, from its vouched plan on

vars == <<corpus, dir, lock, builder, sweep, query>>

Empty == [f \in Files |-> None]

BuilderPlaces == {"idle", "done", "walked", "comparing", "waiting", "recovering",
                  "clearing", "clearing_old", "creating", "filling", "syncing",
                  "clearing_again", "moving", "installing", "clearing_last",
                  "verifying"}
SweepPlaces == {"idle", "free", "removing"}
QueryPlaces == {"idle", "manifest", "paths", "reread", "table", "postings",
                "summary", "answered"}

Exists(n)   == dir[n] # None
Has(n, f)   == Exists(n) /\ dir[n][f] # None
Holds(n, g) == Exists(n) /\ \A f \in Files : dir[n][f] = g
Whole(n)    == \E g \in Generations : Holds(n, g)

NoBuild(pc) == [pc |-> pc, walk |-> {Wanted}, left |-> {}]
NoQuery == [pc |-> "idle", manifest |-> None, paths |-> None, table |-> None,
            postings |-> None, found |-> FALSE]

\* The place of a path in a generation's files.
Ord(g, p) == Cardinality({q \in g : q < p})

-----------------------------------------------------------------------------
Init ==
    /\ corpus \in Generations
    /\ dir = [n \in Names |-> None]
    /\ lock = Nobody
    /\ builder = [b \in Builders |-> NoBuild("idle")]
    /\ sweep = [pc |-> "idle", name |-> "old", at |-> None]
    /\ query = NoQuery

-----------------------------------------------------------------------------
(***************************************************************************)
(* The corpus.                                                             *)
(***************************************************************************)

Corpus ==
    /\ \E there \in Generations \ {corpus} :
        /\ CountsRepeat \/ corpus \subseteq there
        /\ corpus' = there
    /\ UNCHANGED <<dir, lock, builder, sweep, query>>

-----------------------------------------------------------------------------
(***************************************************************************)
(* A rebuild.                                                              *)
(***************************************************************************)

At(b, pc)   == builder[b].pc = pc
Goto(b, pc) == builder' = [builder EXCEPT ![b].pc = pc]
Ends(b, pc) == builder' = [builder EXCEPT ![b] = NoBuild(pc)]
Ended(b)    == At(b, "idle") \/ At(b, "done")

WalkWithoutWanted(b) ==
    /\ Ended(b)
    /\ builder' = [builder EXCEPT ![b] = [@ EXCEPT !.pc = "walked",
                                                   !.walk = corpus \ {Wanted}]]
    /\ UNCHANGED <<corpus, dir, lock, sweep, query>>

\* The snapshot is collected before the lock is taken (daemon_refresh::run).
Walk(b) ==
    /\ Ended(b)
    /\ builder' = [builder EXCEPT ![b] = [@ EXCEPT !.pc = "walked", !.walk = corpus]]
    /\ UNCHANGED <<corpus, dir, lock, sweep, query>>

\* published_index_matches: the manifest that is published lists the same
\* files, and the files open as a strict check.
CompareManifest(b) ==
    /\ At(b, "walked")
    /\ Goto(b, IF Exists("home") /\ dir["home"]["manifest"] = builder[b].walk
               THEN "comparing" ELSE "waiting")
    /\ UNCHANGED <<corpus, dir, lock, sweep, query>>

OpensAny(g) == Has("home", "table") /\ Has("home", "postings") /\ Has("home", "summary")

Opens(g) ==
    /\ Has("home", "table") /\ Has("home", "postings") /\ Has("home", "summary")
    /\ Cardinality(dir["home"]["summary"]) = Cardinality(g)

CompareFiles(b) ==
    /\ At(b, "comparing")
    /\ IF Opens(builder[b].walk) THEN Ends(b, "done") ELSE Goto(b, "waiting")
    /\ UNCHANGED <<corpus, dir, lock, sweep, query>>

\* No generation on disk was built from files this walk is without.
IsNewest(g) == \A n \in Names : Whole(n) => dir[n]["paths"] \subseteq g

AcquireWithoutWaiting(b) ==
    /\ At(b, "waiting")
    /\ SweepMeetsBuild \/ sweep.pc = "idle"
    /\ CountsRepeat \/ IsNewest(builder[b].walk)
    /\ lock' = b
    /\ Goto(b, "recovering")
    /\ UNCHANGED <<corpus, dir, sweep, query>>

Acquire(b) ==
    /\ At(b, "waiting") /\ lock = Nobody
    /\ SweepMeetsBuild \/ sweep.pc = "idle"
    /\ CountsRepeat \/ IsNewest(builder[b].walk)
    /\ lock' = b
    /\ Goto(b, "recovering")
    /\ UNCHANGED <<corpus, dir, sweep, query>>

\* A rename; a sweep that has opened the directory follows it.
Rename(from, to) ==
    /\ dir' = [dir EXCEPT ![from] = None, ![to] = dir[from]]
    /\ sweep' = IF sweep.at = from THEN [sweep EXCEPT !.at = to]
                ELSE IF sweep.at = to THEN [sweep EXCEPT !.at = None]
                ELSE sweep

RecoverNothing(b) ==
    /\ At(b, "recovering")
    /\ UNCHANGED <<dir, sweep>>
    /\ Goto(b, "clearing")
    /\ UNCHANGED <<corpus, lock, query>>

Recover(b) ==
    /\ At(b, "recovering")
    /\ IF ~Exists("home") /\ Exists("old")
       THEN Rename("old", "home")
       ELSE UNCHANGED <<dir, sweep>>
    /\ Goto(b, "clearing")
    /\ UNCHANGED <<corpus, lock, query>>

\* remove_dir_all_if_exists, at each of the places that call it.
Clears(pc) == IF pc = "clearing" THEN "rebuilding" ELSE "old"

Cleared(pc) ==
    CASE pc = "clearing"       -> "clearing_old"
      [] pc = "clearing_old"   -> "creating"
      [] pc = "clearing_again" -> "moving"
      [] pc = "clearing_last"  -> "verifying"

RemoveFile(n, f) ==
    /\ Has(n, f)
    /\ dir' = [dir EXCEPT ![n][f] = None]

Clear(b) ==
    /\ builder[b].pc \in {"clearing", "clearing_old", "clearing_again",
                          "clearing_last"}
    /\ LET n == Clears(builder[b].pc)
       IN \/ /\ \E f \in Files : RemoveFile(n, f)
             /\ UNCHANGED <<builder, sweep>>
          \/ /\ \A f \in Files : ~Has(n, f)
             /\ dir' = [dir EXCEPT ![n] = None]
             /\ sweep' = IF sweep.at = n THEN [sweep EXCEPT !.at = None] ELSE sweep
             /\ Goto(b, Cleared(builder[b].pc))
    /\ UNCHANGED <<corpus, lock, query>>

Create(b) ==
    /\ At(b, "creating")
    /\ dir' = IF Exists("rebuilding") THEN dir
              ELSE [dir EXCEPT !["rebuilding"] = Empty]
    /\ builder' = [builder EXCEPT ![b] = [@ EXCEPT !.pc = "filling", !.left = Files]]
    /\ UNCHANGED <<corpus, lock, sweep, query>>

\* build_files, write_manifest and write_path_table, one file after the other.
Before(f) ==
    CASE f = "summary"  -> {}
      [] f = "table"    -> {"summary"}
      [] f = "postings" -> {"summary"}
      [] f = "manifest" -> {"summary", "table", "postings"}
      [] f = "paths"    -> Files \ {"paths"}

WriteFile(b, f) ==
    /\ At(b, "filling") /\ Exists("rebuilding")
    /\ f \in builder[b].left /\ Before(f) \cap builder[b].left = {}
    /\ dir' = [dir EXCEPT !["rebuilding"][f] = builder[b].walk]
    /\ builder' = [builder EXCEPT ![b] =
                      [@ EXCEPT !.left = builder[b].left \ {f},
                                !.pc = IF builder[b].left = {f}
                                       THEN "syncing" ELSE "filling"]]
    /\ UNCHANGED <<corpus, lock, sweep, query>>

\* fsync_dir of the staging directory.
Sync(b) ==
    /\ At(b, "syncing") /\ Exists("rebuilding")
    /\ Goto(b, "clearing_again")
    /\ UNCHANGED <<corpus, dir, lock, sweep, query>>

\* The two renames of swap_in.
MoveHome(b) ==
    /\ At(b, "moving")
    /\ IF Exists("home")
       THEN Rename("home", "old")
       ELSE UNCHANGED <<dir, sweep>>
    /\ Goto(b, "installing")
    /\ UNCHANGED <<corpus, lock, query>>

Install(b) ==
    /\ At(b, "installing") /\ Exists("rebuilding")
    /\ Rename("rebuilding", "home")
    /\ Goto(b, "clearing_last")
    /\ UNCHANGED <<corpus, lock, query>>

\* The new generation is opened and checked, and the lock dropped.
Verify(b) ==
    /\ At(b, "verifying")
    /\ Ends(b, "done")
    /\ lock' = Nobody
    /\ UNCHANGED <<corpus, dir, sweep, query>>

\* A build is killed, or fails of an error or for what it does not find; the
\* kernel releases its lock.
Stop(b) ==
    /\ ~Ended(b)
    /\ Ends(b, "idle")
    /\ lock' = IF lock = b THEN Nobody ELSE lock
    /\ UNCHANGED <<corpus, dir, sweep, query>>

BuildStep(b) ==
    \/ Walk(b) \/ CompareManifest(b) \/ CompareFiles(b) \/ Acquire(b)
    \/ Recover(b) \/ Clear(b) \/ Create(b)
    \/ \E f \in Files : WriteFile(b, f)
    \/ Sync(b) \/ MoveHome(b) \/ Install(b) \/ Verify(b) \/ Stop(b)

-----------------------------------------------------------------------------
(***************************************************************************)
(* The sweep.                                                              *)
(***************************************************************************)

\* build_lock_is_free of a leftover.
Probe(n) ==
    /\ sweep.pc = "idle" /\ n # "home" /\ Exists(n)
    /\ SweepFindsNoHome \/ Exists("home")
    /\ lock = Nobody
    /\ sweep' = [pc |-> "free", name |-> n, at |-> None]
    /\ UNCHANGED <<corpus, dir, lock, builder, query>>

\* Reclaimed::take: the directory is opened, emptied, and removed by its name.
OpenLeftover ==
    /\ sweep.pc = "free"
    /\ sweep' = IF Exists(sweep.name)
                THEN [sweep EXCEPT !.pc = "removing", !.at = sweep.name]
                ELSE [sweep EXCEPT !.pc = "idle"]
    /\ UNCHANGED <<corpus, dir, lock, builder, query>>

Unlink(f) ==
    /\ sweep.pc = "removing" /\ sweep.at # None
    /\ RemoveFile(sweep.at, f)
    /\ UNCHANGED <<corpus, lock, builder, sweep, query>>

RemoveLeftover ==
    /\ sweep.pc = "removing"
    /\ sweep.at # None => \A f \in Files : ~Has(sweep.at, f)
    /\ dir' = IF \A f \in Files : ~Has(sweep.name, f)
              THEN [dir EXCEPT ![sweep.name] = None] ELSE dir
    /\ sweep' = [sweep EXCEPT !.pc = "idle", !.at = None]
    /\ UNCHANGED <<corpus, lock, builder, query>>

\* The daemon ends, or an entry cannot be removed.
StopSweep ==
    /\ sweep.pc # "idle"
    /\ sweep' = [sweep EXCEPT !.pc = "idle", !.at = None]
    /\ UNCHANGED <<corpus, dir, lock, builder, query>>

Sweep ==
    \/ \E n \in Names : Probe(n)
    \/ OpenLeftover \/ (\E f \in Files : Unlink(f)) \/ RemoveLeftover \/ StopSweep

-----------------------------------------------------------------------------
(***************************************************************************)
(* A query, once its generation has been vouched for.                      *)
(***************************************************************************)

\* Vouched: Freshness says when.
Plan ==
    /\ query.pc \in {"idle", "answered"} /\ Exists("home")
    /\ query' = [NoQuery EXCEPT !.pc = "manifest"]
    /\ UNCHANGED <<corpus, dir, lock, builder, sweep>>

\* The exact scan answers instead.
Scan == query' = NoQuery

\* The header of the manifest, for the number of files.
ReadManifest ==
    /\ query.pc = "manifest"
    /\ IF Has("home", "manifest")
       THEN query' = [query EXCEPT !.pc = "paths",
                                   !.manifest = dir["home"]["manifest"]]
       ELSE Scan
    /\ UNCHANGED <<corpus, dir, lock, builder, sweep>>

\* The path table counts for nothing when it has another number of paths.
ReadPaths ==
    /\ query.pc = "paths"
    /\ query' = IF /\ Has("home", "paths")
                   /\ Cardinality(dir["home"]["paths"]) = Cardinality(query.manifest)
                THEN [query EXCEPT !.pc = "table", !.manifest = None,
                                   !.paths = dir["home"]["paths"]]
                ELSE [query EXCEPT !.pc = "reread", !.manifest = None]
    /\ UNCHANGED <<corpus, dir, lock, builder, sweep>>

ReadWholeManifest ==
    /\ query.pc = "reread"
    /\ IF Has("home", "manifest")
       THEN query' = [query EXCEPT !.pc = "table",
                                   !.paths = dir["home"]["manifest"]]
       ELSE Scan
    /\ UNCHANGED <<corpus, dir, lock, builder, sweep>>

OpenTable ==
    /\ query.pc = "table"
    /\ IF Has("home", "table")
       THEN query' = [query EXCEPT !.pc = "postings",
                                   !.table = dir["home"]["table"]]
       ELSE Scan
    /\ UNCHANGED <<corpus, dir, lock, builder, sweep>>

OpenPostings ==
    /\ query.pc = "postings"
    /\ IF Has("home", "postings")
       THEN query' = [query EXCEPT !.pc = "summary",
                                   !.postings = dir["home"]["postings"]]
       ELSE Scan
    /\ UNCHANGED <<corpus, dir, lock, builder, sweep>>

\* A table that points into the postings of another generation finds anything.
Finds(found) ==
    \/ query.table # query.postings /\ found \in BOOLEAN
    \/ query.table = query.postings
         /\ found = (Ord(query.postings, Wanted) = Ord(query.paths, Wanted))

AnswerWithoutCount ==
    /\ query.pc = "summary"
    /\ IF Has("home", "summary")
       THEN \E found \in BOOLEAN :
                Finds(found) /\ query' = [query EXCEPT !.pc = "answered", !.found = found]
       ELSE Scan
    /\ UNCHANGED <<corpus, dir, lock, builder, sweep>>

\* The summaries must cover the snapshot; the candidates are its paths at the
\* ordinals the postings hold.
Answer ==
    /\ query.pc = "summary"
    /\ IF /\ Has("home", "summary")
          /\ Cardinality(dir["home"]["summary"]) = Cardinality(query.paths)
       THEN \E found \in BOOLEAN :
                Finds(found) /\ query' = [query EXCEPT !.pc = "answered", !.found = found]
       ELSE Scan
    /\ UNCHANGED <<corpus, dir, lock, builder, sweep>>

Query ==
    \/ Plan \/ ReadManifest \/ ReadPaths \/ ReadWholeManifest
    \/ OpenTable \/ OpenPostings \/ Answer

-----------------------------------------------------------------------------
Next == Corpus \/ (\E b \in Builders : BuildStep(b)) \/ Sweep \/ Query

Spec == Init /\ [][Next]_vars

-----------------------------------------------------------------------------
(***************************************************************************)
(* Properties.                                                             *)
(***************************************************************************)

TypeOK ==
    /\ corpus \in Generations
    /\ dir \in [Names -> Content \cup {None}]
    /\ lock \in Builders \cup {Nobody}
    /\ builder \in [Builders -> [pc : BuilderPlaces, walk : Generations,
                                 left : SUBSET Files]]
    /\ sweep \in [pc : SweepPlaces, name : Names, at : Names \cup {None}]
    /\ query \in [pc : QueryPlaces, manifest : Generations \cup {None},
                  paths : Generations \cup {None},
                  table : Generations \cup {None},
                  postings : Generations \cup {None}, found : BOOLEAN]

\* The published name has all files of one generation or does not exist,
\* whatever is killed in between (swap_in, recover_interrupted_rebuild).
HomeIsWhole == Exists("home") => Whole("home")

\* A generation that is there, under its name or as the copy a killed build
\* set aside, is not lost: the next build finds it
\* (recover_interrupted_rebuild, docs/daemon.md).
LastCopySurvives ==
    [][Whole("home") \/ Whole("old") => (Whole("home") \/ Whole("old"))']_vars

\* A build that ends well leaves what it walked published, whether it swapped
\* it in or found it there (refresh_index).
SuccessIsPublished ==
    [][\A b \in Builders : ~At(b, "done") /\ At(b, "done")' =>
           Holds("home", builder[b].walk)]_vars

\* An answer from the index has the match: a query that reads the files of two
\* generations notices and scans (index_answered).
AnswersHaveTheMatch == query.pc = "answered" => query.found
=============================================================================
