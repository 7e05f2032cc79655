--------------------------- MODULE OwnershipProofs ---------------------------
(***************************************************************************)
(* Who owns the indexes, for any number of daemons, queries, trees, files  *)
(* and crashes, as long as no daemon opens daemon.lock between another     *)
(* one's unlock and its unlink (StartMeetsExit = FALSE): with that, the    *)
(* run DaemonTwice shows two owners.                                       *)
(***************************************************************************)
EXTENDS Ownership, TLAPS

\* The daemon that has the lock has it on the file daemon.lock names.
OwnersHoldTheName ==
  \A d \in Daemons : dpc[d] \in Locked =>
    lockName = file[d] /\ file[d] \in Files /\ holder[file[d]] = d

\* A daemon about to try its lock has the file of that name open.
OpenersHaveTheName ==
  \A d \in Daemons : dpc[d] = "opened" => lockName = file[d] /\ file[d] \in Files

\* Nobody has opened or locked the file of a daemon about to unlink its name.
LeaversAreAlone ==
  \A d, e \in Daemons : dpc[d] = "unlocked" => dpc[e] \notin Locked \cup {"opened"}

\* A daemon that has written its token is the one the lock file names.
TokensAreTheirs ==
  \A d \in Daemons : dpc[d] \in Locked \ {"locked", "empty"} => token[file[d]] = d

\* A daemon in its loop is the one startup-ready names.
ServersAreReady == \A d \in Daemons : dpc[d] \in Serving => ready = d

Owning ==
  /\ OwnersHoldTheName /\ OpenersHaveTheName /\ LeaversAreAlone
  /\ TokensAreTheirs /\ ServersAreReady

\* A query with a shared lock is one that looks for a daemon.
ProbersProbe == \A q \in Queries : probed[q] # Nobody => qpc[q] \in Probing

Typed == TypeOK /\ ProbersProbe

OwnershipInvariant == Typed /\ Owning

-----------------------------------------------------------------------------
(* Where it starts: no daemon, or one that has everything.                   *)

StartsWith(one) ==
  /\ lockName = IF one = Nobody THEN Nobody ELSE Named
  /\ holder = [f \in Files |-> IF f = Named THEN one ELSE Nobody]
  /\ token = holder
  /\ ready = one
  /\ dpc = [d \in Daemons |-> IF d = one THEN "serving" ELSE "none"]
  /\ file = [d \in Daemons |-> IF d = one THEN Named ELSE Nobody]
  /\ owner \in [Trees -> {one, Nobody}]
  /\ watched \in [Daemons -> SUBSET Trees]
  /\ listed = [d \in Daemons |-> {}] /\ todo = listed
  /\ request \subseteq Trees /\ lease \subseteq Trees /\ proved \subseteq Trees
  /\ tree \in [Queries -> Trees]
  /\ qpc = [q \in Queries |-> "idle"]
  /\ probed = [q \in Queries |-> Nobody]
  /\ waited = {} /\ stops = 0

LEMMA NamesAreThere == Named \in Files /\ First \in Daemons /\ Nobody \notin Daemons \cup Files
BY OwnershipAssumption DEF Named, First

LEMMA FirstState == Init => \E one \in Daemons \cup {Nobody} : StartsWith(one)
<1> SUFFICES ASSUME Init PROVE \E one \in Daemons \cup {Nobody} : StartsWith(one)
  OBVIOUS
<1>1. PICK runs \in BOOLEAN, known \in SUBSET Trees, live \in SUBSET Trees :
        LET one == IF runs THEN First ELSE Nobody IN
        /\ live \subseteq known
        /\ lockName = IF runs THEN Named ELSE Nobody
        /\ holder = [f \in Files |-> IF f = Named THEN one ELSE Nobody]
        /\ token = holder
        /\ ready = one
        /\ request = known /\ lease = live
        /\ owner = [t \in Trees |-> IF t \in known THEN one ELSE Nobody]
        /\ proved = IF runs THEN live ELSE {}
        /\ dpc = [d \in Daemons |-> IF d = one THEN "serving" ELSE "none"]
        /\ file = [d \in Daemons |-> IF d = one THEN Named ELSE Nobody]
        /\ listed = [d \in Daemons |-> {}] /\ todo = listed
        /\ watched = [d \in Daemons |-> IF d = one THEN live ELSE {}]
        /\ tree \in [Queries -> Trees]
        /\ qpc = [q \in Queries |-> "idle"]
        /\ probed = [q \in Queries |-> Nobody]
        /\ waited = {} /\ stops = 0
  BY DEF Init
<1>2. CASE runs
  <2>1. StartsWith(First)
    BY <1>1, <1>2, NamesAreThere DEF StartsWith
  <2> QED BY <2>1, NamesAreThere
<1>3. CASE ~runs
  <2>1. StartsWith(Nobody)
    BY <1>1, <1>3, NamesAreThere DEF StartsWith
  <2> QED BY <2>1
<1> QED BY <1>2, <1>3

-----------------------------------------------------------------------------
(* Types.                                                                    *)

LEMMA TypesAtFirst == Init => Typed
<1> SUFFICES ASSUME NEW one \in Daemons \cup {Nobody}, StartsWith(one) PROVE Typed
  BY FirstState
<1> QED BY NamesAreThere DEF StartsWith, Typed, TypeOK, ProbersProbe, Locked, Probing

LEMMA StartsAreTyped ==
  ASSUME Typed, NEW d \in Daemons, Starts(d)
  PROVE  Typed'
<1> USE DEF Typed, ProbersProbe, lockVars, treeVars, passVars, queryVars, Goes, Locked
<1>1. CASE Open(d)
  BY <1>1 DEF TypeOK, Open
<1>2. CASE TryLock(d)
  BY <1>2 DEF TypeOK, TryLock
<1>3. CASE WriteToken(d)
  BY <1>3 DEF TypeOK, WriteToken
<1>4. CASE PrepareStartup(d)
  BY <1>4 DEF TypeOK, PrepareStartup
<1>5. CASE MarkStartupReady(d)
  BY <1>5 DEF TypeOK, MarkStartupReady
<1> QED BY <1>1, <1>2, <1>3, <1>4, <1>5 DEF Starts

LEMMA ServesAreTyped ==
  ASSUME Typed, NEW d \in Daemons, Serves(d)
  PROVE  Typed'
<1> USE DEF Typed, ProbersProbe, lockVars, treeVars, passVars, queryVars, Goes, Locked
<1>1. CASE ReadRequests(d)
  BY <1>1 DEF TypeOK, ReadRequests
<1>2. CASE Stays(d)
  BY <1>2 DEF TypeOK, Stays
<1>3. CASE Leaves(d)
  BY <1>3 DEF TypeOK, Leaves
<1>4. CASE \E t \in Trees : ServeRequest(d, t)
  BY <1>4 DEF TypeOK, ServeRequest
<1>5. CASE \E t \in Trees : CleanUp(d, t)
  BY <1>5 DEF TypeOK, CleanUp
<1>6. CASE RetractReady(d)
  BY <1>6 DEF TypeOK, RetractReady
<1>7. CASE CleanedUp(d)
  BY <1>7 DEF TypeOK, CleanedUp
<1>8. CASE Unlock(d)
  BY <1>8 DEF TypeOK, Unlock
<1>9. CASE Unlink(d)
  BY <1>9 DEF TypeOK, Unlink, Ends
<1> QED BY <1>1, <1>2, <1>3, <1>4, <1>5, <1>6, <1>7, <1>8, <1>9 DEF Serves

LEMMA EndsAreTyped ==
  ASSUME Typed, NEW d \in Daemons, EndsInError(d) \/ Killed(d)
  PROVE  Typed'
<1> USE DEF Typed, ProbersProbe, lockVars, treeVars, passVars, queryVars, Goes, Locked
<1>1. CASE EndsInError(d)
  BY <1>1 DEF TypeOK, EndsInError
<1>2. CASE Killed(d)
  BY <1>2 DEF TypeOK, Killed, Ends
<1> QED BY <1>1, <1>2

LEMMA AsksAreTyped ==
  ASSUME Typed, NEW q \in Queries, Asks(q) \/ GivesUp(q)
  PROVE  Typed'
<1> USE DEF Typed, ProbersProbe, lockVars, treeVars, passVars, queryVars, Turns, Probing
<1>1. CASE TouchLease(q)
  BY <1>1 DEF TypeOK, TouchLease
<1>2. CASE Register(q)
  BY <1>2 DEF TypeOK, Register
<1>3. CASE Spawn(q)
  BY <1>3 DEF TypeOK, Spawn, Goes, Locked
<1>4. CASE ProbeLocks(q)
  BY <1>4 DEF TypeOK, ProbeLocks
<1>5. CASE ProbeEnds(q)
  BY <1>5 DEF TypeOK, ProbeEnds, Absent
<1>6. CASE Probe(q)
  BY <1>6 DEF TypeOK, Probe, Absent, Found
<1>7. CASE GivesUp(q)
  BY <1>7 DEF TypeOK, GivesUp
<1> QED BY <1>1, <1>2, <1>3, <1>4, <1>5, <1>6, <1>7 DEF Asks

LEMMA LeasesAreTyped ==
  ASSUME Typed, NEW t \in Trees, LeaseExpires(t)
  PROVE  Typed'
BY DEF Typed, TypeOK, ProbersProbe, LeaseExpires, lockVars, treeVars, passVars, queryVars

LEMMA TypesAreKept == Typed /\ [Next]_vars => Typed'
<1> SUFFICES ASSUME Typed, [Next]_vars PROVE Typed'
  OBVIOUS
<1>1. CASE \E d \in Daemons : Starts(d)
  BY <1>1, StartsAreTyped
<1>2. CASE \E d \in Daemons : Serves(d)
  BY <1>2, ServesAreTyped
<1>3. CASE \E d \in Daemons : EndsInError(d) \/ Killed(d)
  BY <1>3, EndsAreTyped
<1>4. CASE \E q \in Queries : Asks(q) \/ GivesUp(q)
  BY <1>4, AsksAreTyped
<1>5. CASE \E t \in Trees : LeaseExpires(t)
  BY <1>5, LeasesAreTyped
<1>6. CASE UNCHANGED vars
  BY <1>6 DEF Typed, TypeOK, ProbersProbe, vars, lockVars, treeVars, passVars, queryVars
<1> QED BY <1>1, <1>2, <1>3, <1>4, <1>5, <1>6 DEF Next

\* Every table of the model keeps its type, whatever daemons and queries do.
THEOREM TypesHold == Spec => []TypeOK
<1>1. Typed => TypeOK
  BY DEF Typed
<1> QED BY <1>1, TypesAtFirst, TypesAreKept, PTL DEF Spec

-----------------------------------------------------------------------------
(* Who has the lock.                                                         *)

\* One lock, one owner.
LEMMA OwnersAreOne == OwnersHoldTheName => OneDaemon
BY DEF OwnersHoldTheName, OneDaemon

\* A step that leaves the lock, its token, startup-ready and every daemon be.
LEMMA QuietSteps ==
  ASSUME OwnershipInvariant, UNCHANGED <<lockVars, ready, dpc, file>>
  PROVE  Owning'
BY DEF OwnershipInvariant, Owning, OwnersHoldTheName, OpenersHaveTheName,
       LeaversAreAlone, TokensAreTheirs, ServersAreReady, lockVars

LEMMA StartsKeepOwners ==
  ASSUME StartMeetsExit = FALSE, OwnershipInvariant, NEW d \in Daemons, Starts(d)
  PROVE  Owning'
<1> USE DEF OwnershipInvariant, Owning, Typed, TypeOK, Goes, Locked, Serving, lockVars
<1> USE OwnershipAssumption
<1>1. CASE Open(d)
  <2>1. CASE lockName = Nobody
    BY <1>1, <2>1 DEF Open, OwnersHoldTheName, OpenersHaveTheName, LeaversAreAlone,
                      TokensAreTheirs, ServersAreReady
  <2>2. CASE lockName # Nobody
    BY <1>1, <2>2 DEF Open, OwnersHoldTheName, OpenersHaveTheName, LeaversAreAlone,
                      TokensAreTheirs, ServersAreReady
  <2> QED BY <2>1, <2>2
<1>2. CASE TryLock(d)
  BY <1>2 DEF TryLock, OwnersHoldTheName, OpenersHaveTheName, LeaversAreAlone,
              TokensAreTheirs, ServersAreReady
<1>3. CASE WriteToken(d)
  BY <1>3, OwnersAreOne DEF WriteToken, OneDaemon, OwnersHoldTheName, OpenersHaveTheName,
              LeaversAreAlone, TokensAreTheirs, ServersAreReady
<1>4. CASE PrepareStartup(d)
  BY <1>4, OwnersAreOne DEF PrepareStartup, OneDaemon, OwnersHoldTheName,
              OpenersHaveTheName, LeaversAreAlone, TokensAreTheirs, ServersAreReady
<1>5. CASE MarkStartupReady(d)
  BY <1>5, OwnersAreOne DEF MarkStartupReady, OneDaemon, OwnersHoldTheName,
              OpenersHaveTheName, LeaversAreAlone, TokensAreTheirs, ServersAreReady
<1> QED BY <1>1, <1>2, <1>3, <1>4, <1>5 DEF Starts

LEMMA ServesKeepOwners ==
  ASSUME StartMeetsExit = FALSE, OwnershipInvariant, NEW d \in Daemons, Serves(d)
  PROVE  Owning'
<1> USE DEF OwnershipInvariant, Owning, Typed, TypeOK, Goes, Locked, Serving, lockVars
<1> USE OwnershipAssumption
<1>1. CASE ReadRequests(d) \/ Stays(d) \/ Leaves(d) \/ CleanedUp(d)
  BY <1>1 DEF ReadRequests, Stays, Leaves, CleanedUp, OwnersHoldTheName,
              OpenersHaveTheName, LeaversAreAlone, TokensAreTheirs, ServersAreReady
<1>2. CASE \E t \in Trees : ServeRequest(d, t) \/ CleanUp(d, t)
  BY <1>2, QuietSteps DEF ServeRequest, CleanUp
<1>3. CASE RetractReady(d)
  BY <1>3, OwnersAreOne DEF RetractReady, OneDaemon, OwnersHoldTheName,
              OpenersHaveTheName, LeaversAreAlone, TokensAreTheirs, ServersAreReady
<1>4. CASE Unlock(d)
  BY <1>4, OwnersAreOne DEF Unlock, OneDaemon, OwnersHoldTheName, OpenersHaveTheName,
              LeaversAreAlone, TokensAreTheirs, ServersAreReady
<1>5. CASE Unlink(d)
  BY <1>5 DEF Unlink, Ends, OwnersHoldTheName, OpenersHaveTheName,
              LeaversAreAlone, TokensAreTheirs, ServersAreReady
<1> QED BY <1>1, <1>2, <1>3, <1>4, <1>5 DEF Serves

LEMMA EndsKeepOwners ==
  ASSUME OwnershipInvariant, NEW d \in Daemons, EndsInError(d) \/ Killed(d)
  PROVE  Owning'
<1> USE DEF OwnershipInvariant, Owning, Typed, TypeOK, Goes, Locked, Serving, lockVars
<1>1. CASE EndsInError(d)
  BY <1>1 DEF EndsInError, OwnersHoldTheName, OpenersHaveTheName, LeaversAreAlone,
              TokensAreTheirs, ServersAreReady
<1>2. CASE Killed(d)
  BY <1>2 DEF Killed, Ends, OwnersHoldTheName, OpenersHaveTheName, LeaversAreAlone,
              TokensAreTheirs, ServersAreReady
<1> QED BY <1>1, <1>2

\* A query only reads what daemons own, and starts a daemon that owns nothing.
LEMMA AsksKeepOwners ==
  ASSUME OwnershipInvariant, NEW q \in Queries, Asks(q) \/ GivesUp(q)
  PROVE  Owning'
<1>1. CASE TouchLease(q) \/ Register(q) \/ ProbeLocks(q) \/ ProbeEnds(q) \/ Probe(q)
           \/ GivesUp(q)
  BY <1>1, QuietSteps DEF TouchLease, Register, ProbeLocks, ProbeEnds, Probe, GivesUp
<1>2. CASE Spawn(q)
  BY <1>2 DEF OwnershipInvariant, Owning, Typed, TypeOK, Spawn, Unused, Goes, Locked,
              Serving, lockVars, OwnersHoldTheName, OpenersHaveTheName,
              LeaversAreAlone, TokensAreTheirs, ServersAreReady
<1> QED BY <1>1, <1>2 DEF Asks

LEMMA OwnershipAtFirst == Init => OwnershipInvariant
<1> SUFFICES ASSUME NEW one \in Daemons \cup {Nobody}, StartsWith(one) PROVE Owning
  BY FirstState, TypesAtFirst DEF OwnershipInvariant
<1> QED BY NamesAreThere DEF StartsWith, Owning, OwnersHoldTheName, OpenersHaveTheName,
        LeaversAreAlone, TokensAreTheirs, ServersAreReady, Locked, Serving

LEMMA OwnershipIsKept ==
  ASSUME StartMeetsExit = FALSE
  PROVE  OwnershipInvariant /\ [Next]_vars => OwnershipInvariant'
<1> SUFFICES ASSUME OwnershipInvariant, [Next]_vars PROVE Owning'
  BY TypesAreKept DEF OwnershipInvariant
<1>1. CASE \E d \in Daemons : Starts(d)
  BY <1>1, StartsKeepOwners
<1>2. CASE \E d \in Daemons : Serves(d)
  BY <1>2, ServesKeepOwners
<1>3. CASE \E d \in Daemons : EndsInError(d) \/ Killed(d)
  BY <1>3, EndsKeepOwners
<1>4. CASE \E q \in Queries : Asks(q) \/ GivesUp(q)
  BY <1>4, AsksKeepOwners
<1>5. CASE \E t \in Trees : LeaseExpires(t)
  BY <1>5, QuietSteps DEF LeaseExpires
<1>6. CASE UNCHANGED vars
  BY <1>6, QuietSteps DEF vars
<1> QED BY <1>1, <1>2, <1>3, <1>4, <1>5, <1>6 DEF Next

\* Among any number of daemons that start, end in an error, are killed and
\* leave, one at most is between its lock and its release, when none opens the
\* file another one is about to unlink (DaemonLock, daemon/main.rs).
THEOREM OneDaemonOwns ==
  ASSUME StartMeetsExit = FALSE
  PROVE  Spec => []OneDaemon
<1>1. OwnershipInvariant => OneDaemon
  BY OwnersAreOne DEF OwnershipInvariant, Owning
<1> QED BY <1>1, OwnershipAtFirst, OwnershipIsKept, PTL DEF Spec

\* And the one that serves is the one a query finds: by the name of the lock,
\* the lock itself, the token in it and startup-ready.
THEOREM ServersAreFound ==
  ASSUME StartMeetsExit = FALSE
  PROVE  Spec => []ServingIsAnnounced
<1>1. OwnershipInvariant => ServingIsAnnounced
  BY DEF OwnershipInvariant, Owning, OwnersHoldTheName, TokensAreTheirs,
         ServersAreReady, ServingIsAnnounced, Locked, Serving
<1> QED BY <1>1, OwnershipAtFirst, OwnershipIsKept, PTL DEF Spec
=============================================================================
