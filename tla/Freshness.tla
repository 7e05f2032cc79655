------------------------------ MODULE Freshness ------------------------------
(***************************************************************************)
(* The freshness protocol of one indexed tree: eg-indexd watches the tree, *)
(* rebuilds its generation in a child process and publishes a ledger of    *)
(* the paths the generation no longer covers; a foreground query trusts    *)
(* the generation only when that ledger was drained after the query began. *)
(*                                                                         *)
(* A path's content is a version number; a generation is the version of    *)
(* every path its build read.  An instant the program compares with `>=`   *)
(* is represented by the set of queries whose own instant it is not older  *)
(* than: drainedAt and ledger.drained against a query's change_floor,      *)
(* journalClean.wakes against its wake.  Every directory of the tree is    *)
(* watched here; which directories are is the subject of Watches.          *)
(***************************************************************************)
EXTENDS Naturals, FiniteSets

CONSTANTS
    Paths,          \* files a walk of the corpus collects
    Queries,        \* foreground eg processes
    FullCorpus,     \* queries in a mode that opens every file of the corpus
    DirtyCeiling,   \* DIRTY_CEILING: paths the daemon names before it stops
    MaxDirtyPaths,  \* MAX_DIRTY_PATHS: named paths a query will search
    MaxVersion,     \* bound on the versions a path goes through
    OrphansSurvive, \* a rebuild child outlives a daemon that is killed
    WatchesRunOut,  \* a tree already watched may stop fitting the budget
    Wide            \* a change that names no path: coarse event or overflow

ASSUME ConstantsAssumption ==
    /\ Wide \notin Paths
    /\ IsFiniteSet(Paths)
    /\ FullCorpus \subseteq Queries
    /\ DirtyCeiling \in Nat /\ MaxDirtyPaths \in Nat /\ MaxVersion \in Nat
    /\ OrphansSurvive \in BOOLEAN /\ WatchesRunOut \in BOOLEAN

VARIABLES
    disk,         \* version of every path on disk
    queue,        \* inotify events not yet read by the daemon
    index,        \* versions the published generation was built from
    hasIndex,     \* a generation is published
    ledger,       \* the dirty-paths file
    journalClean, \* the journal-clean marker
    watcherReady, \* the watcher-ready marker exists
    owned,        \* the daemon-owner marker names the live daemon
    lease,        \* the lease is younger than its TTL
    dpc,          \* where the daemon is
    watching,     \* the daemon holds the tree's inotify watches
    sincePublish, \* Dirt: changes since the published generation
    sinceWalk,    \* Dirt: changes since the running build began
    drainedAt,    \* Daemon.drained_at
    churning,     \* Churn holds an event the last rebuild did not settle
    outcome,      \* what run_refresh returned, until it is acted on
    build,        \* rebuild processes: the daemon's child and an orphan
    qpc,          \* where each query is
    last,         \* the query will not wait for a rebuild (again)
    floor,        \* disk at the query's change_floor
    named,        \* paths the ledger told the query to search directly
    view          \* version of every path the query's answer reflects

watchVars  == <<watching, queue>>
fileVars   == <<ledger, journalClean, watcherReady, owned, lease>>
indexVars  == <<index, hasIndex>>
dirtVars   == <<sincePublish, sinceWalk, churning>>
queryVars  == <<qpc, last, floor, named, view>>
daemonVars == <<dpc, drainedAt, outcome>>
vars == <<disk, watchVars, indexVars, fileVars, dirtVars, daemonVars, build,
          queryVars>>

Versions == 0 .. MaxVersion
Contents == [Paths -> Versions]
Events   == Paths \cup {Wide}
Builders == {"child", "orphan"}

Unbounded == {Wide}
Changed   == {Unbounded} \cup {some \in SUBSET Paths :
                                   Cardinality(some) <= DirtyCeiling}

Ledgers      == [present : BOOLEAN, paths : Changed, drained : SUBSET Queries]
CleanMarkers == [present : BOOLEAN, wakes : SUBSET Queries]
Builds       == [phase : {"none", "reading", "published", "succeeded", "failed"},
                 unread : SUBSET Paths,
                 got : Contents]

NoVersion == [p \in Paths |-> 0]
NotClean  == [present |-> FALSE, wakes |-> {}]
JustClean == [present |-> TRUE, wakes |-> Queries]
NoLedger  == [present |-> FALSE, paths |-> {}, drained |-> {}]
NoBuild   == [phase |-> "none", unread |-> {}, got |-> NoVersion]

Running(b) == build[b].phase \in {"reading", "published"}

AbsorbWithoutWidening(changed, events) == changed \cup events

\* Changed::absorb: past the ceiling a change set names nothing any more.
Absorb(changed, events) ==
    LET all == changed \cup events
    IN IF Wide \in all \/ Cardinality(all \ {Wide}) > DirtyCeiling
       THEN Unbounded
       ELSE all

\* Request::needs_refresh: no proof, or a wake newer than the proof.
NeedsRefresh == ~journalClean.present \/ journalClean.wakes # Queries

\* runtime::daemon_watches and runtime::daemon_freshness_proof.
DaemonWatches  == owned /\ watcherReady
FreshnessProof == DaemonWatches /\ ~NeedsRefresh /\ lease

\* runtime::daemon_caught_up_since the wake this query registered.
CaughtUp(q) == DaemonWatches /\ journalClean.present /\ q \in journalClean.wakes

AnswersFromAnyDrain(q) ==
    /\ ledger.present
    /\ Wide \notin ledger.paths
    /\ Cardinality(ledger.paths) <= MaxDirtyPaths

\* DirtyLedger::read and drained_since: what a query accepts.
Answers(q) ==
    /\ ledger.present
    /\ Wide \notin ledger.paths
    /\ Cardinality(ledger.paths) <= MaxDirtyPaths
    /\ q \in ledger.drained

FlagTypes ==
    /\ hasIndex \in BOOLEAN
    /\ watcherReady \in BOOLEAN
    /\ owned \in BOOLEAN
    /\ lease \in BOOLEAN
    /\ watching \in BOOLEAN
    /\ churning \in BOOLEAN

ValueTypes ==
    /\ disk \in Contents
    /\ queue \in SUBSET Events
    /\ index \in Contents
    /\ ledger \in Ledgers
    /\ journalClean \in CleanMarkers
    /\ dpc \in {"down", "stamp", "drain", "publish", "release", "request",
                "refresh", "poll", "commit", "wait", "yield", "evict", "exit"}
    /\ sincePublish \in Changed
    /\ sinceWalk \in Changed
    /\ drainedAt \subseteq Queries
    /\ outcome \in {"none", "built", "failed"}
    /\ build \in [Builders -> Builds]
    /\ qpc \in [Queries -> {"idle", "planned", "registering", "asking",
                            "renewing", "polling", "waiting", "again",
                            "loading", "scanning", "answered", "failed"}]
    /\ last \in [Queries -> BOOLEAN]
    /\ floor \in [Queries -> Contents]
    /\ named \in [Queries -> SUBSET Paths]
    /\ view \in [Queries -> Contents]

\* Every variable has its type; a change set past the ceiling is unbounded.
TypeOK == FlagTypes /\ ValueTypes

\* A corpus nobody has indexed, and no daemon.
Init ==
    /\ disk = NoVersion
    /\ queue = {} /\ watching = FALSE
    /\ index = NoVersion /\ hasIndex = FALSE
    /\ ledger = NoLedger
    /\ journalClean = NotClean
    /\ watcherReady = FALSE /\ owned = FALSE /\ lease = FALSE
    /\ dpc = "down" /\ drainedAt = {} /\ outcome = "none"
    /\ sincePublish = Unbounded /\ sinceWalk = {} /\ churning = FALSE
    /\ build = [b \in Builders |-> NoBuild]
    /\ qpc = [q \in Queries |-> "idle"]
    /\ last = [q \in Queries |-> FALSE]
    /\ floor = [q \in Queries |-> NoVersion]
    /\ named = [q \in Queries |-> {}]
    /\ view = [q \in Queries |-> NoVersion]

-----------------------------------------------------------------------------
(***************************************************************************)
(* The corpus.  A watched change queues its event, or the overflow event   *)
(* that took its place in a full queue.                                    *)
(***************************************************************************)

Notify(event) == queue' = IF watching THEN queue \cup {event} ELSE queue

\* A file is created, written, renamed or removed.
Write(p) ==
    /\ disk[p] < MaxVersion
    /\ disk' = [disk EXCEPT ![p] = @ + 1]
    /\ \E event \in {p, Wide} : Notify(event)
    /\ UNCHANGED <<watching, indexVars, fileVars, dirtVars, daemonVars, build,
                   queryVars>>

\* A directory is moved or removed, and every file under it with it.
Restructure(moved) ==
    /\ moved # {}
    /\ \A p \in moved : disk[p] < MaxVersion
    /\ disk' = [p \in Paths |-> IF p \in moved THEN disk[p] + 1 ELSE disk[p]]
    /\ Notify(Wide)
    /\ UNCHANGED <<watching, indexVars, fileVars, dirtVars, daemonVars, build,
                   queryVars>>

LeaseExpires ==
    /\ lease
    /\ lease' = FALSE
    /\ UNCHANGED <<disk, watchVars, indexVars, ledger, journalClean,
                   watcherReady, owned, dirtVars, daemonVars, build,
                   queryVars>>

Corpus ==
    \/ \E p \in Paths : Write(p)
    \/ \E moved \in SUBSET Paths : Restructure(moved)
    \/ LeaseExpires

-----------------------------------------------------------------------------
(***************************************************************************)
(* The daemon: Daemon::serve, one request.                                 *)
(***************************************************************************)

ForgetTreeButItsDirt ==
    /\ watching' = FALSE /\ queue' = {}
    /\ UNCHANGED <<sincePublish, sinceWalk>>

\* Dirt::forget and Watcher::release_tree: events of a dropped watch
\* descriptor are ignored, so the queue is as good as empty.
ForgetTree ==
    /\ watching' = FALSE /\ queue' = {}
    /\ sincePublish' = Unbounded /\ sinceWalk' = {}

\* Daemon::prepare_startup: adopt a leased tree, discard any other.
Start ==
    /\ dpc = "down"
    /\ dpc' = "stamp"
    /\ journalClean' = NotClean
    /\ IF lease
       THEN UNCHANGED <<hasIndex, watcherReady, ledger>>
       ELSE hasIndex' = FALSE /\ watcherReady' = FALSE /\ ledger' = NoLedger
    /\ UNCHANGED <<disk, watchVars, index, owned, lease, dirtVars, drainedAt,
                   outcome, build, queryVars>>

\* Daemon::clear_dirty, first half: the stamp is taken before the drain.
Stamp ==
    /\ dpc = "stamp"
    /\ dpc' = "drain"
    /\ drainedAt' = Queries
    /\ UNCHANGED <<disk, watchVars, indexVars, fileVars, dirtVars, outcome,
                   build, queryVars>>

\* Daemon::absorb of everything the watcher reported.
AbsorbQueue ==
    /\ queue' = {}
    /\ IF queue = {}
       THEN UNCHANGED <<sincePublish, sinceWalk, churning, journalClean>>
       ELSE /\ sincePublish' = Absorb(sincePublish, queue)
            /\ sinceWalk' = Absorb(sinceWalk, queue)
            /\ churning' = TRUE
            /\ journalClean' = NotClean

\* A created directory is followed as its event is drained; when the budget
\* cannot hold it, grow_into gives the whole tree up.
MayGiveUp == watching' = watching \/ (Wide \in queue /\ watching' = FALSE)

\* Daemon::clear_dirty, second half.
Drain ==
    /\ dpc = "drain"
    /\ AbsorbQueue
    /\ MayGiveUp
    /\ dpc' = IF outcome # "none" THEN "commit" ELSE "publish"
    /\ UNCHANGED <<disk, indexVars, ledger, watcherReady, owned, lease,
                   drainedAt, outcome, build, queryVars>>

\* Daemon::publish_dirt, from the loop, from run_refresh's poll and after it:
\* for a live lease only, and a ledger that cannot be written is let go.
Publish ==
    /\ dpc = "publish"
    /\ \/ /\ lease
          /\ ledger' = [present |-> TRUE, paths |-> sincePublish,
                         drained |-> drainedAt]
       \/ UNCHANGED ledger
    /\ dpc' = CASE outcome # "none" -> "wait"
                [] build["child"].phase # "none" -> "poll"
                [] OTHER -> "release"
    /\ outcome' = "none"
    /\ UNCHANGED <<disk, watchVars, indexVars, journalClean, watcherReady,
                   owned, lease, dirtVars, drainedAt, build, queryVars>>

\* Daemon::release_unleased.
ReleaseUnleased ==
    /\ dpc = "release"
    /\ dpc' = "request"
    /\ IF watching /\ ~lease
       THEN ForgetTree /\ watcherReady' = FALSE
       ELSE UNCHANGED <<watchVars, sincePublish, sinceWalk, watcherReady>>
    /\ UNCHANGED <<disk, indexVars, ledger, journalClean, owned, lease,
                   churning, drainedAt, outcome, build, queryVars>>

\* Daemon::refresh_requests passes over a tree without a live lease.
SkipRequest ==
    /\ dpc = "request" /\ ~lease
    /\ dpc' = "wait"
    /\ UNCHANGED <<disk, watchVars, indexVars, fileVars, dirtVars, drainedAt,
                   outcome, build, queryVars>>

\* Daemon::watch_request when every walked directory could be registered.
WatchRequest ==
    /\ dpc = "request" /\ lease
    /\ dpc' = "refresh"
    /\ watching' = TRUE
    /\ watcherReady' = TRUE
    /\ owned' = TRUE
    /\ UNCHANGED <<disk, queue, indexVars, ledger, journalClean, lease,
                   dirtVars, drainedAt, outcome, build, queryVars>>

\* Daemon::refuse_watch: give_up_on released the watches; the change sets
\* and journal-clean stay as they were.
RefuseWatch ==
    /\ dpc = "request" /\ lease
    /\ ~watching \/ WatchesRunOut
    /\ dpc' = "wait"
    /\ watching' = FALSE /\ queue' = {}
    /\ watcherReady' = FALSE
    /\ owned' = TRUE
    /\ UNCHANGED <<disk, indexVars, ledger, journalClean, lease, dirtVars,
                   drainedAt, outcome, build, queryVars>>

\* The daemon serves its trees in turn, and the rebuild of another tree drains
\* the one watcher for all of them.  drained_at moves as well, and again before
\* this tree's ledger is next written.
ServeAnotherTree ==
    /\ dpc = "request"
    /\ AbsorbQueue
    /\ MayGiveUp
    /\ UNCHANGED <<disk, indexVars, ledger, watcherReady, owned, lease,
                   daemonVars, build, queryVars>>

\* WatchTenure::victim picks this tree for one queried more recently, whose
\* turn comes before or after this one's: no query holds its lease, at this
\* moment.
ChooseVictim ==
    /\ dpc \in {"request", "wait"}
    /\ watching
    /\ \A q \in Queries : qpc[q] \notin {"polling", "waiting"}
    /\ dpc' = IF dpc = "request" THEN "yield" ELSE "evict"
    /\ UNCHANGED <<disk, watchVars, indexVars, fileVars, dirtVars, drainedAt,
                   outcome, build, queryVars>>

\* Daemon::evict.
Evict ==
    /\ dpc \in {"yield", "evict"}
    /\ dpc' = IF dpc = "yield" THEN "request" ELSE "wait"
    /\ ForgetTree
    /\ journalClean' = NotClean
    /\ watcherReady' = FALSE
    /\ UNCHANGED <<disk, indexVars, ledger, owned, lease, churning, drainedAt,
                   outcome, build, queryVars>>

\* Daemon::refresh_if_needed: Dirt::begin_build, and Rebuild::spawn takes the
\* freshness proof down before it looks for a binary.
BeginBuild ==
    /\ dpc = "refresh"
    /\ lease /\ NeedsRefresh
    /\ sinceWalk' = {}
    /\ journalClean' = NotClean
    /\ UNCHANGED <<disk, watchVars, indexVars, ledger, watcherReady, owned,
                   lease, sincePublish, churning, drainedAt, queryVars>>

StartBuild ==
    /\ BeginBuild
    /\ dpc' = "poll"
    /\ build' = [build EXCEPT !["child"] =
          [phase |-> "reading", unread |-> Paths, got |-> NoVersion]]
    /\ UNCHANGED outcome

\* There is no eg binary to run, or it cannot be started: then the error ends
\* the request.
SpawnNothing ==
    /\ BeginBuild
    /\ \/ dpc' = "stamp" /\ outcome' = "failed"
       \/ dpc' = "wait" /\ UNCHANGED outcome
    /\ UNCHANGED build

\* Nothing to refresh, or Churn::defers an indexed tree that still moves.
SkipBuild ==
    /\ dpc = "refresh"
    /\ ~lease \/ ~NeedsRefresh \/ (churning /\ hasIndex)
    /\ dpc' = "wait"
    /\ UNCHANGED <<disk, watchVars, indexVars, fileVars, dirtVars, drainedAt,
                   outcome, build, queryVars>>

\* Daemon::run_refresh: another drain while the child is running ...
Poll ==
    /\ dpc = "poll"
    /\ Running("child")
    /\ dpc' = "stamp"
    /\ UNCHANGED <<disk, watchVars, indexVars, fileVars, dirtVars, drainedAt,
                   outcome, build, queryVars>>

\* ... or its exit status, with the lease renewed when it published.
Reap ==
    /\ dpc = "poll"
    /\ build["child"].phase \in {"succeeded", "failed"}
    /\ dpc' = "stamp"
    /\ build' = [build EXCEPT !["child"] = NoBuild]
    /\ IF build["child"].phase = "succeeded"
       THEN /\ outcome' = "built"
            /\ lease' = TRUE
            /\ churning' = FALSE
            /\ UNCHANGED journalClean
       ELSE /\ outcome' = "failed"
            /\ journalClean' = NotClean
            /\ UNCHANGED <<lease, churning>>
    /\ UNCHANGED <<disk, watchVars, indexVars, ledger, watcherReady, owned,
                   sincePublish, sinceWalk, drainedAt, queryVars>>

CommitDroppingTheRace ==
    /\ dpc = "commit"
    /\ dpc' = "publish"
    /\ IF outcome = "built"
       THEN /\ sincePublish' = {}
            /\ sinceWalk' = {}
            /\ IF sinceWalk = {} /\ hasIndex
               THEN journalClean' = JustClean
               ELSE UNCHANGED journalClean
       ELSE UNCHANGED <<sincePublish, sinceWalk, journalClean>>
    /\ UNCHANGED <<disk, watchVars, indexVars, ledger, watcherReady, owned,
                   lease, churning, drainedAt, outcome, build, queryVars>>

CommitAlwaysClean ==
    /\ dpc = "commit"
    /\ dpc' = "publish"
    /\ IF outcome = "built"
       THEN /\ sincePublish' = sinceWalk
            /\ sinceWalk' = {}
            /\ journalClean' = JustClean
       ELSE UNCHANGED <<sincePublish, sinceWalk, journalClean>>
    /\ UNCHANGED <<disk, watchVars, indexVars, ledger, watcherReady, owned,
                   lease, churning, drainedAt, outcome, build, queryVars>>

\* Daemon::publish_generation, after the drain that follows the child.
Commit ==
    /\ dpc = "commit"
    /\ dpc' = "publish"
    /\ IF outcome = "built"
       THEN /\ sincePublish' = sinceWalk
            /\ sinceWalk' = {}
            /\ IF sinceWalk = {} /\ hasIndex
               THEN journalClean' = JustClean
               ELSE UNCHANGED journalClean
       ELSE UNCHANGED <<sincePublish, sinceWalk, journalClean>>
    /\ UNCHANGED <<disk, watchVars, indexVars, ledger, watcherReady, owned,
                   lease, churning, drainedAt, outcome, build, queryVars>>

\* Daemon::wait_for_changes: events are absorbed, drained_at does not move.
Wait ==
    /\ dpc = "wait"
    /\ dpc' = "stamp"
    /\ \/ AbsorbQueue /\ MayGiveUp
       \/ queue = {} /\ UNCHANGED <<watchVars, sincePublish, sinceWalk,
                                    churning, journalClean>>
    /\ UNCHANGED <<disk, indexVars, ledger, watcherReady, owned, lease,
                   drainedAt, outcome, build, queryVars>>

\* What a daemon process takes with it.
ProcessEnds ==
    /\ dpc' = "down"
    /\ ForgetTree
    /\ churning' = FALSE
    /\ drainedAt' = {}
    /\ outcome' = "none"
    /\ owned' = FALSE

\* Daemon::serve finds no live lease and leaves its loop ...
Leave ==
    /\ dpc = "wait" /\ ~lease
    /\ dpc' = "exit"
    /\ UNCHANGED <<disk, watchVars, indexVars, fileVars, dirtVars, drainedAt,
                   outcome, build, queryVars>>

\* ... for Daemon::cleanup_requests, which does not look at the lease again.
Exit ==
    /\ dpc = "exit"
    /\ ProcessEnds
    /\ hasIndex' = FALSE
    /\ journalClean' = NotClean /\ watcherReady' = FALSE
    /\ ledger' = NoLedger
    /\ UNCHANGED <<disk, index, lease, build, queryVars>>

\* The daemon is killed; its markers, ledger and generation stay behind.
Crash ==
    /\ dpc # "down"
    /\ ProcessEnds
    /\ build' = [build EXCEPT !["child"] = NoBuild,
                              !["orphan"] = IF OrphansSurvive /\ Running("child")
                                            THEN build["child"] ELSE @]
    /\ UNCHANGED <<disk, indexVars, ledger, journalClean, watcherReady, lease,
                   queryVars>>

DaemonStep ==
    \/ Start \/ Stamp \/ Drain \/ Publish \/ ReleaseUnleased \/ SkipRequest
    \/ WatchRequest \/ RefuseWatch \/ StartBuild \/ SpawnNothing \/ SkipBuild
    \/ Poll \/ Reap \/ Commit \/ Wait \/ ServeAnotherTree \/ Evict
    \/ Leave \/ Exit

-----------------------------------------------------------------------------
(***************************************************************************)
(* A rebuild process: daemon_refresh::run.                                 *)
(***************************************************************************)

\* What the generation will say of a path is settled: the walk lists it, or
\* the build reads it.
ReadPath(b, p) ==
    /\ build[b].phase = "reading"
    /\ p \in build[b].unread
    /\ build' = [build EXCEPT ![b].unread = @ \ {p}, ![b].got[p] = disk[p]]
    /\ UNCHANGED <<disk, watchVars, indexVars, fileVars, dirtVars, daemonVars,
                   queryVars>>

SwapInHalfRead(b) ==
    /\ build[b].phase = "reading"
    /\ index' = build[b].got
    /\ hasIndex' = TRUE
    /\ build' = [build EXCEPT ![b] = [NoBuild EXCEPT !.phase = "published"]]
    /\ UNCHANGED <<disk, watchVars, fileVars, dirtVars, daemonVars, queryVars>>

\* The staged generation is renamed into place.
SwapIn(b) ==
    /\ build[b].phase = "reading"
    /\ build[b].unread = {}
    /\ index' = build[b].got
    /\ hasIndex' = TRUE
    /\ build' = [build EXCEPT ![b] = [NoBuild EXCEPT !.phase = "published"]]
    /\ UNCHANGED <<disk, watchVars, fileVars, dirtVars, daemonVars, queryVars>>

\* The process ends; an error after the swap still fails the rebuild.
BuildExits(b) ==
    /\ Running(b)
    /\ \E status \in {"succeeded", "failed"} :
        /\ status = "succeeded" => build[b].phase = "published"
        /\ build' = [build EXCEPT ![b] =
              IF b = "orphan" THEN NoBuild ELSE [NoBuild EXCEPT !.phase = status]]
    /\ UNCHANGED <<disk, watchVars, indexVars, fileVars, dirtVars, daemonVars,
                   queryVars>>

BuildStep(b) == (\E p \in Paths : ReadPath(b, p)) \/ SwapIn(b) \/ BuildExits(b)

-----------------------------------------------------------------------------
(***************************************************************************)
(* A query: run_inner, readiness::settle, dirty::vouch.                    *)
(***************************************************************************)

Goto(q, pc) == qpc' = [qpc EXCEPT ![q] = pc]

\* GenerationCatalog::best_ready_generation: hot, or cold.
Plan(q) ==
    /\ qpc[q] = "idle"
    /\ last' = [last EXCEPT ![q] = hasIndex /\ FreshnessProof]
    /\ Goto(q, "planned")
    /\ UNCHANGED <<disk, watchVars, indexVars, fileVars, dirtVars, daemonVars,
                   build, floor, named, view>>

\* dirty::change_floor: later than every drain so far.
TakeFloor(q) ==
    /\ qpc[q] \in {"planned", "again"}
    /\ floor' = [floor EXCEPT ![q] = disk]
    /\ drainedAt' = drainedAt \ {q}
    /\ ledger' = [ledger EXCEPT !.drained = @ \ {q}]
    /\ Goto(q, IF last[q] THEN "asking" ELSE "registering")
    /\ UNCHANGED <<disk, watchVars, indexVars, journalClean, watcherReady,
                   owned, lease, dirtVars, dpc, outcome, build, last, named,
                   view>>

\* Lease::request_refresh: lease, request and wake.  A wake stamped in the
\* clock tick that stamped journal-clean, so before the daemon's next step,
\* is not newer than it.
WriteWake(q) ==
    /\ lease' = TRUE
    /\ \/ journalClean' = [journalClean EXCEPT !.wakes = @ \ {q}]
       \/ journalClean.present /\ dpc = "publish" /\ UNCHANGED journalClean
    /\ UNCHANGED <<ledger, watcherReady, owned>>

\* A cold query registers before it asks; a daemon that does not come up
\* costs it a scan.
Register(q) ==
    /\ qpc[q] = "registering"
    /\ WriteWake(q)
    /\ Goto(q, "asking") \/ Goto(q, "scanning")
    /\ UNCHANGED <<disk, watchVars, indexVars, dirtVars, daemonVars, build,
                   last, floor, named, view>>

\* settle: without a vouch a hot query scans and a cold one waits, once.
Unvouched(q) == Goto(q, IF last[q] THEN "scanning" ELSE "waiting")

\* uncovered_changes: only a daemon that watches the tree is asked ...
Ask(q) ==
    /\ qpc[q] = "asking"
    /\ IF DaemonWatches THEN Goto(q, "renewing") ELSE Unvouched(q)
    /\ UNCHANGED <<disk, watchVars, indexVars, fileVars, dirtVars, daemonVars,
                   build, last, floor, named, view>>

\* ... and Lease::keep_alive renews the lease under a hold, with no wake.
KeepAlive(q) ==
    /\ qpc[q] = "renewing"
    /\ lease' = TRUE
    /\ Goto(q, "polling")
    /\ UNCHANGED <<disk, watchVars, indexVars, ledger, journalClean,
                   watcherReady, owned, dirtVars, daemonVars, build, last,
                   floor, named, view>>

\* dirty::vouch: Covered or Changed, unless the mode cannot use a ledger.
ReadLedger(q) ==
    /\ qpc[q] = "polling"
    /\ Answers(q)
    /\ IF ledger.paths # {} /\ q \in FullCorpus
       THEN Unvouched(q) /\ UNCHANGED named
       ELSE /\ named' = [named EXCEPT ![q] = ledger.paths]
            /\ Goto(q, "loading")
    /\ UNCHANGED <<disk, watchVars, indexVars, fileVars, dirtVars, daemonVars,
                   build, last, floor, view>>

\* DIRT_RENDEZVOUS passes without an acceptable ledger.
PollExpires(q) ==
    /\ qpc[q] = "polling"
    /\ ~Answers(q)
    /\ Unvouched(q)
    /\ UNCHANGED <<disk, watchVars, indexVars, fileVars, dirtVars, daemonVars,
                   build, last, floor, named, view>>

\* wait_for_daemon_proof succeeds; the query vouches again, from a new floor.
WaitReady(q) ==
    /\ qpc[q] = "waiting"
    /\ FreshnessProof \/ CaughtUp(q)
    /\ last' = [last EXCEPT ![q] = TRUE]
    /\ Goto(q, "again")
    /\ UNCHANGED <<disk, watchVars, indexVars, fileVars, dirtVars, daemonVars,
                   build, floor, named, view>>

\* The daemon stopped: register again.  An error here ends the query.
WaitReregisters(q) ==
    /\ qpc[q] = "waiting"
    /\ dpc = "down"
    /\ WriteWake(q)
    /\ Goto(q, "waiting") \/ Goto(q, "failed")
    /\ UNCHANGED <<disk, watchVars, indexVars, dirtVars, daemonVars, build,
                   last, floor, named, view>>

WaitExpiresUnderADaemon(q) ==
    /\ qpc[q] = "waiting"
    /\ ~FreshnessProof
    /\ dpc # "down"
    /\ Goto(q, "scanning")
    /\ UNCHANGED <<disk, watchVars, indexVars, fileVars, dirtVars, daemonVars,
                   build, last, floor, named, view>>

\* The policy's budget is spent, or the tree is refused, or nobody owns it.
WaitExpires(q) ==
    /\ qpc[q] = "waiting"
    /\ ~FreshnessProof
    /\ Goto(q, "scanning")
    /\ UNCHANGED <<disk, watchVars, indexVars, fileVars, dirtVars, daemonVars,
                   build, last, floor, named, view>>

AnswerWithoutFolding(q) ==
    /\ qpc[q] = "loading"
    /\ hasIndex
    /\ view' = [view EXCEPT ![q] = index]
    /\ Goto(q, "answered")
    /\ UNCHANGED <<disk, watchVars, indexVars, fileVars, dirtVars, daemonVars,
                   build, last, floor, named>>

\* SnapshotLoader::load, Generation::query, dirty::fold_into and the verifier.
AnswerFromIndex(q) ==
    /\ qpc[q] = "loading"
    /\ hasIndex
    /\ view' = [view EXCEPT ![q] =
                  [p \in Paths |-> IF p \in named[q] THEN disk[p] ELSE index[p]]]
    /\ Goto(q, "answered")
    /\ UNCHANGED <<disk, watchVars, indexVars, fileVars, dirtVars, daemonVars,
                   build, last, floor, named>>

\* ScanReason::Republished, or a plan too unselective for the index.
IndexStopsAnswering(q) ==
    /\ qpc[q] = "loading"
    /\ Goto(q, "scanning")
    /\ UNCHANGED <<disk, watchVars, indexVars, fileVars, dirtVars, daemonVars,
                   build, last, floor, named, view>>

\* readiness::scan_instead.
Scan(q) ==
    /\ qpc[q] = "scanning"
    /\ view' = [view EXCEPT ![q] = disk]
    /\ Goto(q, "answered")
    /\ UNCHANGED <<disk, watchVars, indexVars, fileVars, dirtVars, daemonVars,
                   build, last, floor, named>>

\* The process ends and another one may start.
Finish(q) ==
    /\ qpc[q] \in {"answered", "failed"}
    /\ Goto(q, "idle")
    /\ last' = [last EXCEPT ![q] = FALSE]
    /\ floor' = [floor EXCEPT ![q] = NoVersion]
    /\ named' = [named EXCEPT ![q] = {}]
    /\ view' = [view EXCEPT ![q] = NoVersion]
    /\ UNCHANGED <<disk, watchVars, indexVars, fileVars, dirtVars, daemonVars,
                   build>>

QueryStep(q) ==
    \/ TakeFloor(q) \/ Register(q) \/ Ask(q) \/ KeepAlive(q) \/ ReadLedger(q)
    \/ PollExpires(q) \/ WaitReady(q) \/ WaitReregisters(q) \/ WaitExpires(q)
    \/ AnswerFromIndex(q) \/ IndexStopsAnswering(q) \/ Scan(q)

-----------------------------------------------------------------------------
Next ==
    \/ Corpus
    \/ DaemonStep \/ ChooseVictim \/ Crash
    \/ \E b \in Builders : BuildStep(b)
    \/ \E q \in Queries : Plan(q) \/ QueryStep(q) \/ Finish(q)

Spec == Init /\ [][Next]_vars

\* The processes that run take their steps: the daemon's loop, its child, a
\* query.  A rebuild that is deferred or cannot start does start in the end
\* (DEBOUNCE_CEILING; some eg binary is there to run), and a wait has a budget
\* (WaitPolicy::budget).  Nothing makes the corpus, an eviction, a crash or
\* another query happen.
Fairness ==
    /\ WF_vars(DaemonStep)
    /\ SF_vars(StartBuild)
    /\ WF_vars(BuildStep("child"))
    /\ \A q \in Queries : /\ WF_vars(QueryStep(q))
                          /\ WF_vars(WaitReady(q) \/ WaitExpires(q))

FairSpec == Spec /\ Fairness

-----------------------------------------------------------------------------
(***************************************************************************)
(* Properties.                                                             *)
(***************************************************************************)

\* An answer reflects every change that landed before the query asked, on
\* whichever path it was reached: the index alone, the index and the ledger's
\* paths, or a scan (Vouched::Covered, Vouched::Changed, scan_instead).
VouchedAnswersAreComplete ==
    \A q \in Queries : qpc[q] = "answered" =>
        \A p \in Paths : view[q][p] >= floor[q][p]

\* The ledger file never claims more than the generation it stands beside
\* covers: for a query it was drained late enough for, the paths it does not
\* name are indexed as that query found them.  Generation and ledger are
\* replaced by two processes, at two moments (rebuild.rs, Dirt::publish).
LedgerAccountsForFloors ==
    ledger.present /\ Wide \notin ledger.paths =>
        \A q \in ledger.drained, p \in Paths \ ledger.paths :
            index[p] >= floor[q][p]

\* A watched tree's changes are never lost between the watcher and the change
\* set: whatever the generation misses is named by since_publish or still
\* queued (Dirt::record, begin_build and commit_build, release_tree).
NoChangeIsForgotten ==
    watching /\ dpc # "commit" /\ Wide \notin sincePublish \cup queue =>
        \A p \in Paths : index[p] < disk[p] => p \in sincePublish \cup queue

\* journal-clean means that no change event is unprocessed: while it stands
\* for a watched tree, the generation misses nothing but what is still queued
\* (markers::mark_journal_clean, Daemon::absorb).  That is so for a change set
\* that counts from a generation this watch has covered since its walk began:
\* release_unleased forgets a bounded one and makes it unbounded, and leaves
\* the marker standing.
CleanMeansCaughtUpSinceWatch ==
    watching /\ dpc # "commit" /\ journalClean.present
    /\ Wide \notin sincePublish \cup queue =>
        \A p \in Paths : index[p] < disk[p] => p \in queue

\* A published generation is never replaced by one of an older walk: builds
\* of one tree do not overlap (refresh_if_needed waits for its child).
GenerationNeverRegresses ==
    [][\A p \in Paths : index'[p] >= index[p]]_vars

\* Every query ends, whatever the daemon does meanwhile: each wait has a way
\* out and a query that waited for a rebuild does not wait again (settle).
QueriesEnd ==
    \A q \in Queries : qpc[q] = "planned" ~> qpc[q] \in {"answered", "failed"}

\* The tree keeps its watches and its lease, and rebuilds succeed.
Served ==
    watching /\ lease /\ outcome # "failed" /\ build["child"].phase # "failed"

\* A tree that is served and settles is indexed as it is: a change or a wake
\* that asks for a refresh gets one, however it races the builds before it
\* (refresh_if_needed, publish_generation).
RefreshIsServed ==
    <>[]Served => [](NeedsRefresh => <>(~NeedsRefresh /\ index = disk))

-----------------------------------------------------------------------------
(***************************************************************************)
(* Why it holds: the inductive invariant of FreshnessProofs.               *)
(***************************************************************************)

Names(changes, p) == p \in changes \/ Wide \in changes

\* The change set names the path, or will once the queue is drained.
Accounted(changes, p) == Names(changes, p) \/ Names(queue, p)

\* The child's generation is in place and its change set not yet committed.
Swapped ==
    \/ build["child"].phase \in {"published", "succeeded"}
    \/ outcome = "built" /\ dpc # "publish"

\* Where the daemon can be, for each state of its child.
ControlInvariant ==
    /\ build["orphan"] = NoBuild
    /\ build["child"].phase # "none" =>
          dpc \in {"poll", "stamp", "drain", "publish"} /\ outcome = "none"
    /\ outcome # "none" => dpc \in {"stamp", "drain", "commit", "publish"}
    /\ dpc = "commit" => outcome # "none"
    /\ dpc = "refresh" => watching

\* Nothing is newer than the disk, and a build only reads what is newer than
\* the generation it replaces.
VersionInvariant ==
    /\ \A p \in Paths : index[p] <= disk[p]
    /\ \A q \in Queries, p \in Paths : floor[q][p] <= disk[p]
    /\ build["child"].phase = "reading" =>
          \A p \in Paths \ build["child"].unread :
              index[p] <= build["child"].got[p] /\ build["child"].got[p] <= disk[p]

\* What the published generation misses is in since_publish or in the queue;
\* what the running build misses is in since_walk or in the queue.
DirtInvariant ==
    /\ ~watching => Wide \in sincePublish
    /\ \A p \in Paths : index[p] < disk[p] => Accounted(sincePublish, p)
    /\ ~watching /\ (build["child"].phase # "none" \/ Swapped) =>
          Wide \in sinceWalk
    /\ build["child"].phase = "reading" =>
          \A p \in Paths \ build["child"].unread :
              build["child"].got[p] < disk[p] => Accounted(sinceWalk, p)
    /\ Swapped => \A p \in Paths : index[p] < disk[p] => Accounted(sinceWalk, p)

\* After a drain, the change sets name what the floors it is not older than
\* require; before a commit, both of them do.
DrainInvariant ==
    /\ dpc # "drain" =>
          \A q \in drainedAt, p \in Paths :
              index[p] < floor[q][p] => Names(sincePublish, p)
    /\ dpc = "commit" /\ outcome = "built" =>
          \A q \in drainedAt, p \in Paths :
              index[p] < floor[q][p] => Names(sinceWalk, p)

\* journal-clean stands only for a change set that is empty, or forgotten, and
\* not while a build is under way.
CleanInvariant ==
    /\ journalClean.present => sincePublish = {} \/ Wide \in sincePublish
    /\ build["child"].phase # "none" \/ (outcome # "none" /\ dpc # "publish") =>
          ~journalClean.present

AnswerInvariant ==
    \A q \in Queries, p \in Paths :
        /\ qpc[q] = "loading" /\ p \notin named[q] => floor[q][p] <= index[p]
        /\ qpc[q] = "answered" => floor[q][p] <= view[q][p]

FreshnessInvariant ==
    /\ TypeOK
    /\ ControlInvariant
    /\ VersionInvariant
    /\ DirtInvariant
    /\ DrainInvariant
    /\ LedgerAccountsForFloors
    /\ CleanInvariant
    /\ AnswerInvariant

-----------------------------------------------------------------------------
\* The whole protocol implements the promise of Search: a query has asked once
\* its change_floor is taken, and asks again when it vouches after a wait.
Phase(pc) ==
    CASE pc \in {"idle", "planned"}    -> "idle"
      [] pc \in {"answered", "failed"} -> pc
      [] OTHER                         -> "asked"

Promise == INSTANCE Search WITH phase <- [q \in Queries |-> Phase(qpc[q])]

ImplementsSearch == Promise!Spec
=============================================================================
