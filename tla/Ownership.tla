------------------------------ MODULE Ownership ------------------------------
(* Which eg-indexd owns the indexes.  A query that needs one registers its   *)
(* tree, starts a daemon when it finds none, and waits; a daemon takes the   *)
(* lock of daemon.lock, writes its token into it, and announces itself in    *)
(* startup-ready; one that finds no live lease takes its markers away and    *)
(* goes (crates/eg/src/index/runtime.rs, readiness.rs, daemon/main.rs).      *)
(*                                                                           *)
(* A lock belongs to a file, not to its name: a file whose name is removed   *)
(* keeps its lock.  A token is the daemon that wrote it; the watching and    *)
(* the rebuild of a tree, which Freshness follows, are one step that         *)
(* succeeds, and `proved` stands for watcher-ready and a journal-clean newer *)
(* than the wake.  The query is one of a first build: it waits an hour       *)
(* (COLD_BUILD_WAIT), which is not modelled, before it scans instead.        *)
EXTENDS Naturals, FiniteSets

CONSTANTS
  Daemons,        \* processes of eg-indexd; one may stand for a later one
  Queries,        \* foreground eg processes
  Trees,          \* indexed trees
  Files,          \* files that may bear the name daemon.lock
  Nobody,
  MaxStops,       \* bound on the daemons that are killed or end in an error
  StartMeetsExit  \* a daemon may open daemon.lock while another one leaves

ASSUME OwnershipAssumption ==
  /\ Daemons # {} /\ Files # {} /\ Nobody \notin Daemons \cup Files
  /\ MaxStops \in Nat /\ StartMeetsExit \in BOOLEAN

VARIABLES
  lockName,   \* the file daemon.lock names
  holder,     \* the daemon that has each file locked
  token,      \* what each file says
  ready,      \* what startup-ready says
  request,    \* trees with a request file
  lease,      \* trees whose lease is younger than its TTL
  owner,      \* what the daemon-owner marker of each tree says
  proved,     \* trees whose markers prove them fresh
  dpc,        \* where each daemon is
  file,       \* the file each daemon has open
  listed,     \* Daemon::serve: the requests read at the top of the loop
  todo,       \* those of them the pass, or the clean-up, has before it
  watched,    \* trees each daemon has watches for
  tree,       \* the tree each query asks for
  qpc,        \* where each query is
  probed,     \* the file a query has a shared lock of
  waited,     \* queries that have been told of a daemon and wait for its proof
  stops       \* daemons killed, or ended by an error

lockVars == <<lockName, holder, token>>
treeVars == <<request, lease, owner, proved>>
passVars == <<listed, todo, watched>>
queryVars == <<tree, qpc, probed, waited>>
vars == <<lockVars, ready, treeVars, dpc, file, passVars, queryVars, stops>>

\* Between its lock and the release of it
Locked == {"locked", "empty", "named", "adopted",
           "serving", "pass", "leaving", "cleaning", "dropping"}
\* In the loop of Daemon::serve
Serving == {"serving", "pass", "leaving"}

Goes(d, to) == dpc' = [dpc EXCEPT ![d] = to]

\* A process that is over, and whose token none will read, stands for a new one
Unused(d) ==
  /\ dpc[d] = "none" /\ ready # d
  /\ \A f \in Files : lockName = f => token[f] # d
  /\ \A t \in Trees : owner[t] # d

\* A file without a name and without a process that has it open
Free(f) ==
  /\ lockName # f
  /\ \A d \in Daemons : file[d] # f
  /\ \A q \in Queries : probed[q] # f

First == CHOOSE d \in Daemons : TRUE
Named == CHOOSE f \in Files : TRUE

\* No daemon yet, or one that earlier queries have left at the top of its loop
Init ==
  \E runs \in BOOLEAN, known \in SUBSET Trees : \E live \in SUBSET known :
    LET one == IF runs THEN First ELSE Nobody IN
    /\ lockName = IF runs THEN Named ELSE Nobody
    /\ holder = [f \in Files |-> IF f = Named THEN one ELSE Nobody]
    /\ token = holder
    /\ ready = one
    /\ request = known /\ lease = live
    /\ owner = [t \in Trees |-> IF t \in known THEN one ELSE Nobody]
    /\ proved = IF runs THEN live ELSE {}
    /\ dpc = [d \in Daemons |-> IF d = one THEN "serving" ELSE "none"]
    /\ file = [d \in Daemons |-> IF d = one THEN Named ELSE Nobody]
    /\ listed = [d \in Daemons |-> {}] /\ todo = listed
    /\ watched = [d \in Daemons |-> IF d = one THEN live ELSE {}]
    /\ tree \in [Queries -> Trees]
    /\ qpc = [q \in Queries |-> "idle"]
    /\ probed = [q \in Queries |-> Nobody]
    /\ waited = {} /\ stops = 0

-----------------------------------------------------------------------------
(* A daemon starts: DaemonLock::acquire and Daemon::prepare_startup.         *)

Open(d) ==
  /\ dpc[d] = "started"
  /\ StartMeetsExit \/ \A e \in Daemons : dpc[e] # "unlocked"
  /\ Goes(d, "opened")
  /\ IF lockName = Nobody
     THEN \E f \in Files :
            /\ Free(f)
            /\ lockName' = f
            /\ file' = [file EXCEPT ![d] = f]
            /\ token' = [token EXCEPT ![f] = Nobody]
     ELSE file' = [file EXCEPT ![d] = lockName] /\ UNCHANGED <<lockName, token>>
  /\ UNCHANGED <<holder, ready, treeVars, passVars, queryVars, stops>>

\* A daemon that fails to get the lock, and takes the name of the file along
TryLockUnlinking(d) ==
  LET f == file[d] IN
  /\ dpc[d] = "opened"
  /\ IF holder[f] = Nobody /\ \A q \in Queries : probed[q] # f
     THEN /\ holder' = [holder EXCEPT ![f] = d]
          /\ Goes(d, "locked")
          /\ UNCHANGED <<file, lockName>>
     ELSE /\ Goes(d, "none")
          /\ file' = [file EXCEPT ![d] = Nobody]
          /\ lockName' = Nobody
          /\ UNCHANGED holder
  /\ UNCHANGED <<token, ready, treeVars, passVars, queryVars, stops>>

\* try_lock: in vain beside another daemon, or beside the probe of a query
TryLock(d) ==
  LET f == file[d] IN
  /\ dpc[d] = "opened"
  /\ IF holder[f] = Nobody /\ \A q \in Queries : probed[q] # f
     THEN /\ holder' = [holder EXCEPT ![f] = d]
          /\ Goes(d, "locked")
          /\ UNCHANGED file
     ELSE /\ Goes(d, "none")
          /\ file' = [file EXCEPT ![d] = Nobody]
          /\ UNCHANGED holder
  /\ UNCHANGED <<lockName, token, ready, treeVars, passVars, queryVars, stops>>

\* set_len(0), then the token: until then the file says what the last one wrote
WriteToken(d) ==
  /\ \/ dpc[d] = "locked" /\ Goes(d, "empty") /\ token' = [token EXCEPT ![file[d]] = Nobody]
     \/ dpc[d] = "empty" /\ Goes(d, "named") /\ token' = [token EXCEPT ![file[d]] = d]
  /\ UNCHANGED <<lockName, holder, ready, treeVars, file, passVars, queryVars, stops>>

\* The startup-ready of the daemon before goes, and nobody accepts this one until
\* it has its own; adopt_request clears what the one before may have proved,
\* discard_state all that is known of a tree, and the request files stay
PrepareStartup(d) ==
  /\ dpc[d] = "named"
  /\ ready' = Nobody
  /\ proved' = proved \ request
  /\ owner' = [t \in Trees |-> IF t \in request \ lease THEN Nobody ELSE owner[t]]
  /\ Goes(d, "adopted")
  /\ UNCHANGED <<lockVars, request, lease, file, passVars, queryVars, stops>>

MarkStartupReady(d) ==
  /\ dpc[d] = "adopted"
  /\ ready' = d
  /\ Goes(d, "serving")
  /\ UNCHANGED <<lockVars, treeVars, file, passVars, queryVars, stops>>

-----------------------------------------------------------------------------
(* Daemon::serve.                                                            *)

\* read_requests, and release_unleased of what it watches without a lease
ReadRequests(d) ==
  LET unleased == watched[d] \ (request \cap lease) IN
  /\ dpc[d] = "serving"
  /\ listed' = [listed EXCEPT ![d] = request]
  /\ todo' = [todo EXCEPT ![d] = request]
  /\ watched' = [watched EXCEPT ![d] = @ \ unleased]
  /\ proved' = proved \ unleased
  /\ Goes(d, "pass")
  /\ UNCHANGED <<lockVars, ready, request, lease, owner, file, queryVars, stops>>

\* serve_request of a tree that has a lease: its watches, its owner, its build
ServeRequest(d, t) ==
  /\ dpc[d] = "pass" /\ t \in todo[d]
  /\ todo' = [todo EXCEPT ![d] = @ \ {t}]
  /\ IF t \in lease
     THEN /\ owner' = [owner EXCEPT ![t] = d]
          /\ proved' = proved \cup {t}
          /\ watched' = [watched EXCEPT ![d] = @ \cup {t}]
     ELSE UNCHANGED <<owner, proved, watched>>
  /\ UNCHANGED <<lockVars, ready, request, lease, dpc, file, listed, queryVars, stops>>

\* A live lease, or the grace of a daemon nobody has asked for anything yet
Stays(d) ==
  /\ dpc[d] = "pass" /\ todo[d] = {}
  /\ listed[d] \cap lease # {} \/ listed[d] = {}
  /\ Goes(d, "serving")
  /\ listed' = [listed EXCEPT ![d] = {}]
  /\ UNCHANGED <<lockVars, ready, treeVars, file, todo, watched, queryVars, stops>>

Leaves(d) ==
  /\ dpc[d] = "pass" /\ todo[d] = {}
  /\ listed[d] \cap lease = {}
  /\ Goes(d, "leaving")
  /\ UNCHANGED <<lockVars, ready, treeVars, file, passVars, queryVars, stops>>

\* cleanup_requests: startup-ready, then each tree of the list
RetractReady(d) ==
  /\ dpc[d] = "leaving"
  /\ ready' = Nobody
  /\ todo' = [todo EXCEPT ![d] = listed[d]]
  /\ Goes(d, "cleaning")
  /\ UNCHANGED <<lockVars, treeVars, file, listed, watched, queryVars, stops>>

CleanUp(d, t) ==
  /\ dpc[d] = "cleaning" /\ t \in todo[d]
  /\ todo' = [todo EXCEPT ![d] = @ \ {t}]
  /\ proved' = proved \ {t}
  /\ owner' = [owner EXCEPT ![t] = Nobody]
  /\ request' = request \ {t}
  /\ UNCHANGED <<lockVars, ready, lease, dpc, file, listed, watched, queryVars, stops>>

CleanedUp(d) ==
  /\ dpc[d] = "cleaning" /\ todo[d] = {}
  /\ Goes(d, "dropping")
  /\ UNCHANGED <<lockVars, ready, treeVars, file, passVars, queryVars, stops>>

\* serve returns an error: nothing is cleaned up
EndsInError(d) ==
  /\ dpc[d] \in {"named", "adopted", "serving", "cleaning"}
  /\ stops < MaxStops
  /\ stops' = stops + 1
  /\ Goes(d, "dropping")
  /\ UNCHANGED <<lockVars, ready, treeVars, file, passVars, queryVars>>

\* DaemonLock::drop: first the lock, then whatever file bears the name
Unlock(d) ==
  /\ dpc[d] = "dropping"
  /\ StartMeetsExit \/ \A e \in Daemons : dpc[e] # "opened"
  /\ holder' = [holder EXCEPT ![file[d]] = Nobody]
  /\ Goes(d, "unlocked")
  /\ UNCHANGED <<lockName, token, ready, treeVars, file, passVars, queryVars, stops>>

\* What is left of a process: nothing but the files it wrote
Ends(d) ==
  /\ Goes(d, "none")
  /\ file' = [file EXCEPT ![d] = Nobody]
  /\ listed' = [listed EXCEPT ![d] = {}]
  /\ todo' = [todo EXCEPT ![d] = {}]
  /\ watched' = [watched EXCEPT ![d] = {}]

Unlink(d) ==
  /\ dpc[d] = "unlocked"
  /\ lockName' = Nobody
  /\ Ends(d)
  /\ UNCHANGED <<holder, token, ready, treeVars, queryVars, stops>>

Killed(d) ==
  /\ dpc[d] # "none" /\ stops < MaxStops
  /\ stops' = stops + 1
  /\ holder' = [f \in Files |-> IF holder[f] = d THEN Nobody ELSE holder[f]]
  /\ Ends(d)
  /\ UNCHANGED <<lockName, token, ready, treeVars, queryVars>>

-----------------------------------------------------------------------------
(* A query: Lease::request_refresh, ensure_daemon and wait_for_daemon_proof. *)

\* Where a query looks for a daemon: before it starts one, after it has, for
\* the proof of its tree, and when it has not found that
Probing == {"ensure", "await", "prove", "alive"}

Turns(q, to) == qpc' = [qpc EXCEPT ![q] = to]

\* touch_lease
TouchLease(q) ==
  /\ qpc[q] \in {"idle", "again"}
  /\ lease' = lease \cup {tree[q]}
  /\ Turns(q, "register")
  /\ UNCHANGED <<lockVars, ready, request, owner, proved, dpc, file, passVars,
                 tree, probed, waited, stops>>

\* register, and a wake that is newer than any journal-clean
Register(q) ==
  /\ qpc[q] = "register"
  /\ request' = request \cup {tree[q]}
  /\ proved' = proved \ {tree[q]}
  /\ Turns(q, "ensure")
  /\ UNCHANGED <<lockVars, ready, lease, owner, dpc, file, passVars, tree, probed,
                 waited, stops>>

\* What the query does when it finds no daemon: start one, wait for it, look
\* once more, or ask again (DaemonStopped)
AbsentForgetting == [ensure |-> "spawn", await |-> "await", prove |-> "alive", alive |-> "prove"]
Absent == [ensure |-> "spawn", await |-> "await", prove |-> "alive", alive |-> "again"]

\* startup_ready, daemon_freshness_proof and daemon_running, of a daemon d
Accepts(q, d) ==
  /\ qpc[q] \in {"ensure", "await", "prove"} => ready = d
  /\ qpc[q] = "prove" =>
       owner[tree[q]] = d /\ tree[q] \in proved /\ tree[q] \in lease

Found == [ensure |-> "prove", await |-> "prove", prove |-> "answered", alive |-> "prove"]

\* Some daemon has the file that daemon.lock names
Held == \E f \in Files : f = lockName /\ holder[f] # Nobody

\* live_daemon_owner finds the file unlocked, and has it locked for a moment
ProbeLocks(q) ==
  /\ qpc[q] \in Probing /\ probed[q] = Nobody
  /\ lockName # Nobody /\ ~Held
  /\ probed' = [probed EXCEPT ![q] = lockName]
  /\ UNCHANGED <<lockVars, ready, treeVars, dpc, file, passVars, tree, qpc, waited, stops>>

ProbeEnds(q) ==
  /\ probed[q] # Nobody
  /\ probed' = [probed EXCEPT ![q] = Nobody]
  /\ Turns(q, Absent[qpc[q]])
  /\ UNCHANGED <<lockVars, ready, treeVars, dpc, file, passVars, tree, waited, stops>>

\* It finds no file, or a locked one, whose token it compares with the markers
Probe(q) ==
  /\ qpc[q] \in Probing /\ probed[q] = Nobody
  /\ lockName # Nobody => Held
  /\ IF Held /\ \E d \in Daemons : d = token[lockName] /\ Accepts(q, d)
     THEN /\ Turns(q, Found[qpc[q]])
          /\ waited' = IF qpc[q] = "prove" THEN waited \ {q} ELSE waited \cup {q}
     ELSE Turns(q, Absent[qpc[q]]) /\ UNCHANGED waited
  /\ UNCHANGED <<lockVars, ready, treeVars, dpc, file, passVars, tree, probed, stops>>

Spawn(q) ==
  /\ qpc[q] = "spawn"
  /\ \E d \in Daemons : Unused(d) /\ Goes(d, "started")
  /\ Turns(q, "await")
  /\ UNCHANGED <<lockVars, ready, treeVars, file, passVars, tree, probed, waited, stops>>

\* DAEMON_STARTUP_WAIT passes: the query scans, or fails if it has waited before
GivesUp(q) ==
  /\ qpc[q] = "await" /\ probed[q] = Nobody
  /\ Turns(q, "gaveUp")
  /\ waited' = waited \ {q}
  /\ UNCHANGED <<lockVars, ready, treeVars, dpc, file, passVars, tree, probed, stops>>

\* A day after the last query of a tree
LeaseExpires(t) ==
  /\ t \in lease
  /\ \A q \in Queries : tree[q] = t => qpc[q] \in {"idle", "answered", "gaveUp"}
  /\ lease' = lease \ {t}
  /\ UNCHANGED <<lockVars, ready, request, owner, proved, dpc, file, passVars,
                 queryVars, stops>>

-----------------------------------------------------------------------------
Starts(d) ==
  \/ Open(d) \/ TryLock(d) \/ WriteToken(d)
  \/ PrepareStartup(d) \/ MarkStartupReady(d)

Serves(d) ==
  \/ ReadRequests(d) \/ Stays(d) \/ Leaves(d)
  \/ \E t \in Trees : ServeRequest(d, t) \/ CleanUp(d, t)
  \/ RetractReady(d) \/ CleanedUp(d) \/ Unlock(d) \/ Unlink(d)

Asks(q) ==
  \/ TouchLease(q) \/ Register(q) \/ Spawn(q)
  \/ ProbeLocks(q) \/ ProbeEnds(q) \/ Probe(q)

Next ==
  \/ \E d \in Daemons : Starts(d) \/ Serves(d) \/ EndsInError(d) \/ Killed(d)
  \/ \E q \in Queries : Asks(q) \/ GivesUp(q)
  \/ \E t \in Trees : LeaseExpires(t)

\* A process that runs goes on, and a wait of five seconds is over some day.
\* Nothing has to be killed, and no query and no lease has to begin or end.
Fairness ==
  /\ \A d \in Daemons : WF_vars(Starts(d) \/ Serves(d))
  /\ \A q \in Queries :
       /\ WF_vars(qpc[q] # "idle" /\ Asks(q))
       /\ SF_vars(GivesUp(q))

Spec == Init /\ [][Next]_vars
FairSpec == Spec /\ Fairness

-----------------------------------------------------------------------------
TypeOK ==
  /\ lockName \in Files \cup {Nobody}
  /\ holder \in [Files -> Daemons \cup {Nobody}]
  /\ token \in [Files -> Daemons \cup {Nobody}]
  /\ ready \in Daemons \cup {Nobody}
  /\ request \subseteq Trees /\ lease \subseteq Trees /\ proved \subseteq Trees
  /\ owner \in [Trees -> Daemons \cup {Nobody}]
  /\ dpc \in [Daemons -> Locked \cup {"none", "started", "opened", "unlocked"}]
  /\ file \in [Daemons -> Files \cup {Nobody}]
  /\ listed \in [Daemons -> SUBSET Trees] /\ todo \in [Daemons -> SUBSET Trees]
  /\ watched \in [Daemons -> SUBSET Trees]
  /\ tree \in [Queries -> Trees]
  /\ qpc \in [Queries -> Probing \cup
                {"idle", "again", "register", "spawn", "answered", "gaveUp"}]
  /\ probed \in [Queries -> Files \cup {Nobody}]
  /\ waited \subseteq Queries /\ stops \in Nat

\* Two daemons never own the indexes together: each would rebuild them, answer
\* for them, and clean them up, for itself (docs/daemon.md: "The daemon is the
\* only writer of index directories").
OneDaemon ==
  \A d, e \in Daemons : dpc[d] \in Locked /\ dpc[e] \in Locked => d = e

\* A daemon in its loop is one a query finds: it holds the file that daemon.lock
\* names, its token is in it, and startup-ready says the same.  One that has
\* lost any of the three serves trees for nobody and is started over and over.
ServingIsAnnounced ==
  \A d \in Daemons : dpc[d] \in {"serving", "pass"} =>
    /\ lockName = file[d] /\ holder[file[d]] = d /\ token[file[d]] = d
    /\ ready = d

\* Whatever daemons are killed, leave, or fail to start meanwhile, no query waits
\* for a proof for ever while its request stands.
StandingRequestsAreServed ==
  \A q \in Queries :
    q \in waited /\ tree[q] \in request ~> q \notin waited \/ tree[q] \notin request

\* No query waits for ever (docs/daemon.md: "the query falls back to the exact
\* scan rather than hanging or failing").
WaitersAreServed == \A q \in Queries : q \in waited ~> q \notin waited
=============================================================================
