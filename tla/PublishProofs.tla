--------------------------- MODULE PublishProofs ---------------------------
(***************************************************************************)
(* Proofs about Publish, for every set of paths, any number of builders,   *)
(* builds killed anywhere and any reader; the sweep runs while no build    *)
(* does, and with a generation published.                                  *)
(***************************************************************************)
EXTENDS Publish, TLAPS, FiniteSetTheorems

-----------------------------------------------------------------------------
(***************************************************************************)
(* Types.                                                                  *)
(***************************************************************************)

\* No absent directory looks like one that is there.
LEMMA NothingIsSomething ==
    /\ None \notin Generations /\ None \notin Content /\ None \notin Names
    /\ Empty \in Content
    /\ "home" \in Names /\ "rebuilding" \in Names /\ "old" \in Names
BY ConstantsAssumption DEF Generations, Content, Names, Empty, Files

\* A builder that goes elsewhere keeps its type.
LEMMA GotoIsTyped ==
    ASSUME TypeOK, NEW b \in Builders, NEW pc \in BuilderPlaces, Goto(b, pc)
    PROVE  builder' \in [Builders -> [pc : BuilderPlaces, walk : Generations,
                                      left : SUBSET Files]]
BY DEF TypeOK, Goto

\* So does one that changes its walk or what it has left to write.
LEMMA BuilderIsTyped ==
    ASSUME TypeOK, NEW b \in Builders, NEW to,
           to \in [pc : BuilderPlaces, walk : Generations, left : SUBSET Files],
           builder' = [builder EXCEPT ![b] = to]
    PROVE  builder' \in [Builders -> [pc : BuilderPlaces, walk : Generations,
                                      left : SUBSET Files]]
BY DEF TypeOK

\* So does one that ends.
LEMMA EndIsTyped ==
    ASSUME TypeOK, NEW b \in Builders, NEW pc \in BuilderPlaces, Ends(b, pc)
    PROVE  builder' \in [Builders -> [pc : BuilderPlaces, walk : Generations,
                                      left : SUBSET Files]]
BY ConstantsAssumption DEF TypeOK, Ends, NoBuild, Generations

\* A rename keeps directories and the sweep typed.
LEMMA RenameIsTyped ==
    ASSUME TypeOK, NEW from \in Names, NEW to \in Names, Rename(from, to)
    PROVE  /\ dir' \in [Names -> Content \cup {None}]
           /\ sweep' \in [pc : SweepPlaces, name : Names, at : Names \cup {None}]
BY DEF TypeOK, Rename

\* The removal of a file keeps a directory typed.
LEMMA RemovalIsTyped ==
    ASSUME TypeOK, NEW n \in Names, NEW f \in Files, RemoveFile(n, f)
    PROVE  dir' \in [Names -> Content \cup {None}]
<1>1. dir[n] \in Content
  BY DEF TypeOK, RemoveFile, Has, Exists
<1>2. [dir[n] EXCEPT ![f] = None] \in Content
  BY <1>1 DEF Content
<1>3. dir' = [dir EXCEPT ![n] = [dir[n] EXCEPT ![f] = None]]
  BY DEF RemoveFile, TypeOK
<1> QED BY <1>2, <1>3 DEF TypeOK

\* The types hold in every behaviour: a build's step.
LEMMA BuildKeepsTypes ==
    ASSUME TypeOK, NEW b \in Builders, BuildStep(b)
    PROVE  TypeOK'
<1> USE NothingIsSomething
<1>1. CASE Walk(b)
  <2>1. builder' \in [Builders -> [pc : BuilderPlaces, walk : Generations,
                                   left : SUBSET Files]]
    <3>1. "walked" \in BuilderPlaces /\ corpus \in Generations
      BY DEF BuilderPlaces, TypeOK
    <3>2. [builder[b] EXCEPT !.pc = "walked", !.walk = corpus]
              \in [pc : BuilderPlaces, walk : Generations, left : SUBSET Files]
      BY <3>1 DEF TypeOK
    <3> QED BY <1>1, <3>2, BuilderIsTyped DEF Walk
  <2> QED BY <1>1, <2>1 DEF Walk, TypeOK
<1>2. CASE CompareManifest(b)
  <2>1. "comparing" \in BuilderPlaces /\ "waiting" \in BuilderPlaces
    BY DEF BuilderPlaces
  <2> QED BY <1>2, <2>1, GotoIsTyped DEF CompareManifest, TypeOK
<1>3. CASE CompareFiles(b)
  <2>1. "done" \in BuilderPlaces /\ "waiting" \in BuilderPlaces
    BY DEF BuilderPlaces
  <2> QED BY <1>3, <2>1, GotoIsTyped, EndIsTyped DEF CompareFiles, TypeOK
<1>4. CASE Acquire(b)
  <2>1. "recovering" \in BuilderPlaces
    BY DEF BuilderPlaces
  <2> QED BY <1>4, <2>1, GotoIsTyped DEF Acquire, TypeOK
<1>5. CASE Recover(b)
  <2>1. "clearing" \in BuilderPlaces
    BY DEF BuilderPlaces
  <2> QED BY <1>5, <2>1, GotoIsTyped, RenameIsTyped DEF Recover, TypeOK
<1>6. CASE Clear(b)
  <2>1. Clears(builder[b].pc) \in Names /\ Cleared(builder[b].pc) \in BuilderPlaces
    BY <1>6 DEF Clear, Clears, Cleared, BuilderPlaces
  <2>2. CASE /\ \E f \in Files : RemoveFile(Clears(builder[b].pc), f)
             /\ UNCHANGED <<builder, sweep>>
    BY <1>6, <2>1, <2>2, RemovalIsTyped DEF Clear, TypeOK
  <2>3. CASE /\ dir' = [dir EXCEPT ![Clears(builder[b].pc)] = None]
             /\ sweep' = IF sweep.at = Clears(builder[b].pc)
                         THEN [sweep EXCEPT !.at = None] ELSE sweep
             /\ Goto(b, Cleared(builder[b].pc))
    <3>1. sweep' \in [pc : SweepPlaces, name : Names, at : Names \cup {None}]
      BY <2>3 DEF TypeOK
    <3>2. dir' \in [Names -> Content \cup {None}]
      BY <2>3 DEF TypeOK
    <3> QED BY <1>6, <2>1, <2>3, <3>1, <3>2, GotoIsTyped DEF Clear, TypeOK
  <2> QED BY <1>6, <2>2, <2>3 DEF Clear
<1>7. CASE Create(b)
  <2>1. builder' \in [Builders -> [pc : BuilderPlaces, walk : Generations,
                                   left : SUBSET Files]]
    <3>1. "filling" \in BuilderPlaces
      BY DEF BuilderPlaces
    <3>2. [builder[b] EXCEPT !.pc = "filling", !.left = Files]
              \in [pc : BuilderPlaces, walk : Generations, left : SUBSET Files]
      BY <3>1 DEF TypeOK
    <3> QED BY <1>7, <3>2, BuilderIsTyped DEF Create
  <2>2. dir' \in [Names -> Content \cup {None}]
    BY <1>7 DEF Create, TypeOK
  <2> QED BY <1>7, <2>1, <2>2 DEF Create, TypeOK
<1>8. CASE \E f \in Files : WriteFile(b, f)
  <2>1. PICK f \in Files : WriteFile(b, f)
    BY <1>8
  <2>2. builder' \in [Builders -> [pc : BuilderPlaces, walk : Generations,
                                   left : SUBSET Files]]
    <3>1. "syncing" \in BuilderPlaces /\ "filling" \in BuilderPlaces
      BY DEF BuilderPlaces
    <3> DEFINE pc == IF builder[b].left = {f} THEN "syncing" ELSE "filling"
    <3>2. pc \in BuilderPlaces /\ builder[b].left \ {f} \in SUBSET Files
      BY <3>1 DEF TypeOK
    <3>3. [builder[b] EXCEPT !.left = builder[b].left \ {f}, !.pc = pc]
              \in [pc : BuilderPlaces, walk : Generations, left : SUBSET Files]
      <4> HIDE DEF pc
      <4> QED BY <3>2 DEF TypeOK
    <3>4. builder' = [builder EXCEPT ![b] =
                         [builder[b] EXCEPT !.left = builder[b].left \ {f}, !.pc = pc]]
      BY <2>1 DEF WriteFile
    <3> HIDE DEF pc
    <3> QED BY <3>3, <3>4, BuilderIsTyped
  <2>3. dir["rebuilding"] \in Content /\ builder[b].walk \in Generations
    BY <2>1 DEF WriteFile, TypeOK, Exists
  <2>4. [dir["rebuilding"] EXCEPT ![f] = builder[b].walk] \in Content
    BY <2>3 DEF Content
  <2>5. dir' = [dir EXCEPT !["rebuilding"] =
                    [dir["rebuilding"] EXCEPT ![f] = builder[b].walk]]
    BY <2>1 DEF WriteFile
  <2>6. dir' \in [Names -> Content \cup {None}]
    BY <2>4, <2>5 DEF TypeOK
  <2> QED BY <2>1, <2>2, <2>6 DEF WriteFile, TypeOK
<1>9. CASE Sync(b)
  <2>1. "clearing_again" \in BuilderPlaces
    BY DEF BuilderPlaces
  <2> QED BY <1>9, <2>1, GotoIsTyped DEF Sync, TypeOK
<1>10. CASE MoveHome(b)
  <2>1. "installing" \in BuilderPlaces
    BY DEF BuilderPlaces
  <2> QED BY <1>10, <2>1, GotoIsTyped, RenameIsTyped DEF MoveHome, TypeOK
<1>11. CASE Install(b)
  <2>1. "clearing_last" \in BuilderPlaces
    BY DEF BuilderPlaces
  <2> QED BY <1>11, <2>1, GotoIsTyped, RenameIsTyped DEF Install, TypeOK
<1>12. CASE Verify(b) \/ Stop(b)
  <2>1. "idle" \in BuilderPlaces /\ "done" \in BuilderPlaces
    BY DEF BuilderPlaces
  <2> QED BY <1>12, <2>1, EndIsTyped DEF Verify, Stop, TypeOK
<1> QED BY <1>1, <1>2, <1>3, <1>4, <1>5, <1>6, <1>7, <1>8, <1>9, <1>10, <1>11,
           <1>12 DEF BuildStep

\* A step of the sweep.
LEMMA SweepKeepsTypes ==
    ASSUME TypeOK, Sweep
    PROVE  TypeOK'
<1> USE NothingIsSomething
<1>1. CASE \E n \in Names : Probe(n)
  BY <1>1 DEF Probe, TypeOK, SweepPlaces
<1>2. CASE OpenLeftover
  BY <1>2 DEF OpenLeftover, TypeOK, SweepPlaces
<1>3. CASE \E f \in Files : Unlink(f)
  <2>1. sweep.at \in Names
    BY <1>3 DEF Unlink, TypeOK
  <2> QED BY <1>3, <2>1, RemovalIsTyped DEF Unlink, TypeOK
<1>4. CASE RemoveLeftover
  BY <1>4 DEF RemoveLeftover, TypeOK, SweepPlaces
<1>5. CASE StopSweep
  BY <1>5 DEF StopSweep, TypeOK, SweepPlaces
<1> QED BY <1>1, <1>2, <1>3, <1>4, <1>5 DEF Sweep

\* A step of a query: what it opens is the content of a published file.
LEMMA QueryKeepsTypes ==
    ASSUME TypeOK, Query
    PROVE  TypeOK'
<1> USE NothingIsSomething
<1>1. NoQuery \in [pc : QueryPlaces, manifest : Generations \cup {None},
                   paths : Generations \cup {None},
                   table : Generations \cup {None},
                   postings : Generations \cup {None}, found : BOOLEAN]
  BY DEF NoQuery, QueryPlaces
<1>2. \A f \in Files : Has("home", f) => dir["home"][f] \in Generations \cup {None}
  BY DEF TypeOK, Has, Exists, Content
<1>3. "manifest" \in Files /\ "paths" \in Files /\ "table" \in Files
      /\ "postings" \in Files
  BY DEF Files
<1>4. UNCHANGED <<corpus, dir, lock, builder, sweep>>
  BY DEF Query, Plan, ReadManifest, ReadPaths, ReadWholeManifest, OpenTable,
         OpenPostings, Answer
<1>5. query' \in [pc : QueryPlaces, manifest : Generations \cup {None},
                  paths : Generations \cup {None},
                  table : Generations \cup {None},
                  postings : Generations \cup {None}, found : BOOLEAN]
  <2>1. CASE Plan
    BY <2>1, <1>1 DEF Plan, TypeOK, QueryPlaces
  <2>2. CASE ReadManifest
    BY <2>2, <1>1, <1>2, <1>3 DEF ReadManifest, Scan, TypeOK, QueryPlaces
  <2>3. CASE ReadPaths
    BY <2>3, <1>1, <1>2, <1>3 DEF ReadPaths, TypeOK, QueryPlaces
  <2>4. CASE ReadWholeManifest
    BY <2>4, <1>1, <1>2, <1>3 DEF ReadWholeManifest, Scan, TypeOK, QueryPlaces
  <2>5. CASE OpenTable
    BY <2>5, <1>1, <1>2, <1>3 DEF OpenTable, Scan, TypeOK, QueryPlaces
  <2>6. CASE OpenPostings
    BY <2>6, <1>1, <1>2, <1>3 DEF OpenPostings, Scan, TypeOK, QueryPlaces
  <2>7. CASE Answer
    BY <2>7, <1>1 DEF Answer, Scan, TypeOK, QueryPlaces
  <2> QED BY <2>1, <2>2, <2>3, <2>4, <2>5, <2>6, <2>7 DEF Query
<1> QED BY <1>4, <1>5 DEF TypeOK

\* No tree, no build and no query: every variable starts with its type.
LEMMA TypesInit == Init => TypeOK
BY NothingIsSomething, ConstantsAssumption
   DEF Init, TypeOK, NoBuild, NoQuery, BuilderPlaces, SweepPlaces, QueryPlaces,
       Generations

\* Whoever takes the step, the types stay.
LEMMA TypesStep == TypeOK /\ [Next]_vars => TypeOK'
<1> SUFFICES ASSUME TypeOK, [Next]_vars PROVE TypeOK'
  OBVIOUS
<1>1. CASE Corpus
  BY <1>1 DEF Corpus, TypeOK
<1>2. CASE UNCHANGED vars
  BY <1>2 DEF vars, TypeOK
<1> QED BY <1>1, <1>2, BuildKeepsTypes, SweepKeepsTypes, QueryKeepsTypes DEF Next

\* Every variable keeps its type, the switches on or off.
THEOREM TypesHold == Spec => []TypeOK
BY TypesInit, TypesStep, PTL DEF Spec

-----------------------------------------------------------------------------
(***************************************************************************)
(* The swap.                                                               *)
(***************************************************************************)

\* Where a builder holds the lock.
Locked == {"recovering", "clearing", "clearing_old", "creating", "filling",
           "syncing", "clearing_again", "moving", "installing",
           "clearing_last", "verifying"}

\* One builder at a time is past Acquire.
LockIsExclusive == \A b \in Builders : builder[b].pc \in Locked => lock = b

\* The sweep works while no build does, on a leftover, and leaves a generation
\* that is published.
SweepIsAlone ==
    /\ sweep.pc # "removing" => sweep.at = None
    /\ sweep.pc # "idle" =>
           /\ \A b \in Builders : builder[b].pc \notin Locked
           /\ sweep.name \in {"rebuilding", "old"}
           /\ sweep.at \in {None, sweep.name}
           /\ Exists("home")

\* The copy set aside is a whole generation when it is the only one.
BackupIsWhole == ~Exists("home") /\ Exists("old") => Whole("old")

\* What a builder has done when it gets where it is.
InOrder(b) ==
    LET pc == builder[b].pc
    IN /\ pc \in {"clearing", "clearing_old", "creating", "filling", "syncing",
                  "clearing_again", "moving"} => Exists("home") \/ ~Exists("old")
       /\ pc = "filling" =>
              /\ Exists("rebuilding")
              /\ \A f \in Files \ builder[b].left :
                     dir["rebuilding"][f] = builder[b].walk
       /\ pc \in {"syncing", "clearing_again", "moving", "installing"} =>
              Holds("rebuilding", builder[b].walk)
       /\ pc \in {"clearing_last", "verifying"} => Holds("home", builder[b].walk)

SwapInvariant ==
    /\ TypeOK
    /\ LockIsExclusive
    /\ SweepIsAlone
    /\ HomeIsWhole
    /\ BackupIsWhole
    /\ \A b \in Builders : InOrder(b)

\* A name that a step leaves alone is as whole as it was.
LEMMA NameUntouched ==
    ASSUME NEW n, dir'[n] = dir[n]
    PROVE  /\ Exists(n)' <=> Exists(n)
           /\ Whole(n)' <=> Whole(n)
           /\ \A g : Holds(n, g)' <=> Holds(n, g)
BY DEF Exists, Whole, Holds

\* A step that changes neither the directories nor who holds the lock, and no
\* builder that does, keeps the invariant.
LEMMA NothingMoves ==
    ASSUME SwapInvariant, TypeOK', UNCHANGED <<dir, lock, builder, sweep>>
    PROVE  SwapInvariant'
BY DEF SwapInvariant, LockIsExclusive, SweepIsAlone, HomeIsWhole, BackupIsWhole,
       InOrder, Exists, Whole, Holds

\* So does a step of a builder without the lock, or one that takes it.
LEMMA OutsideStep ==
    ASSUME SwapInvariant, TypeOK', NEW b \in Builders,
           \A c \in Builders \ {b} : builder'[c] = builder[c],
           UNCHANGED <<dir, sweep>>,
           \A c \in Builders \ {b} : lock = c => lock' = c,
           \/ builder'[b].pc \notin Locked
           \/ builder'[b].pc = "recovering" /\ lock = Nobody /\ lock' = b
              /\ sweep.pc = "idle"
    PROVE  SwapInvariant'
<1> USE DEF SwapInvariant
<1>1. LockIsExclusive'
  <2> SUFFICES ASSUME NEW c \in Builders, builder'[c].pc \in Locked
               PROVE  lock' = c
    BY DEF LockIsExclusive
  <2> QED BY DEF LockIsExclusive
<1>2. SweepIsAlone'
  BY DEF SweepIsAlone, Exists
<1>3. HomeIsWhole' /\ BackupIsWhole'
  BY NameUntouched DEF HomeIsWhole, BackupIsWhole
<1>4. \A c \in Builders : InOrder(c)'
  <2> SUFFICES ASSUME NEW c \in Builders PROVE InOrder(c)'
    OBVIOUS
  <2>1. CASE c = b
    BY <2>1 DEF InOrder, Locked
  <2>2. CASE c # b
    BY <2>2 DEF InOrder, Exists, Holds
  <2> QED BY <2>1, <2>2
<1> QED BY <1>1, <1>2, <1>3, <1>4

\* The holder of the lock is alone with the directories.
LEMMA InsideStep ==
    ASSUME SwapInvariant, TypeOK', NEW b \in Builders,
           builder[b].pc \in Locked,
           \A c \in Builders \ {b} : builder'[c] = builder[c],
           lock' = lock \/ (lock' = Nobody /\ builder'[b].pc \notin Locked),
           sweep' = sweep,
           HomeIsWhole', BackupIsWhole', InOrder(b)'
    PROVE  SwapInvariant'
<1> USE DEF SwapInvariant
<1>1. lock = b
  BY DEF LockIsExclusive
<1>2. \A c \in Builders \ {b} : builder'[c].pc \notin Locked
  BY <1>1 DEF LockIsExclusive
<1>3. LockIsExclusive'
  BY <1>1, <1>2 DEF LockIsExclusive
<1>4. SweepIsAlone'
  BY DEF SweepIsAlone
<1>5. \A c \in Builders : InOrder(c)'
  BY <1>2 DEF InOrder, Locked
<1> QED BY <1>3, <1>4, <1>5

\* No sweep follows a directory that the holder of the lock renames or removes.
LEMMA NoSweepInside ==
    ASSUME SwapInvariant, NEW b \in Builders, builder[b].pc \in Locked
    PROVE  sweep.at = None
BY DEF SwapInvariant, SweepIsAlone

\* A builder that goes elsewhere leaves the others where they are.
LEMMA GotoOneBuilder ==
    ASSUME TypeOK, NEW b \in Builders, NEW pc, Goto(b, pc)
    PROVE  /\ builder'[b].pc = pc
           /\ builder'[b].walk = builder[b].walk
           /\ builder'[b].left = builder[b].left
           /\ \A c \in Builders \ {b} : builder'[c] = builder[c]
BY DEF TypeOK, Goto

\* So does one that ends.
LEMMA EndOneBuilder ==
    ASSUME TypeOK, NEW b \in Builders, NEW pc, Ends(b, pc)
    PROVE  /\ builder'[b].pc = pc
           /\ \A c \in Builders \ {b} : builder'[c] = builder[c]
BY DEF TypeOK, Ends, NoBuild

\* A rename moves one directory over the other.
LEMMA RenameMoves ==
    ASSUME SwapInvariant, NEW b \in Builders, builder[b].pc \in Locked,
           NEW from \in Names, NEW to \in Names \ {from}, Rename(from, to)
    PROVE  /\ dir'[from] = None /\ dir'[to] = dir[from]
           /\ \A n \in Names \ {from, to} : dir'[n] = dir[n]
           /\ sweep' = sweep
<1>1. sweep.at = None
  BY NoSweepInside
<1>2. sweep' = sweep
  BY <1>1, NothingIsSomething DEF Rename
<1> QED BY <1>2 DEF Rename, SwapInvariant, TypeOK

\* The steps a build takes without the lock, and the one that takes it.
LEMMA WithoutTheLock ==
    ASSUME SweepMeetsBuild = FALSE, SwapInvariant, TypeOK', NEW b \in Builders,
           Walk(b) \/ CompareManifest(b) \/ CompareFiles(b) \/ Acquire(b)
    PROVE  SwapInvariant'
<1> USE DEF SwapInvariant
<1>1. CASE Walk(b)
  <2>1. builder'[b].pc = "walked" /\ \A c \in Builders \ {b} : builder'[c] = builder[c]
    BY <1>1 DEF Walk, TypeOK
  <2>2. builder'[b].pc \notin Locked
    BY <2>1 DEF Locked
  <2> QED BY <1>1, <2>1, <2>2, OutsideStep DEF Walk
<1>2. CASE CompareManifest(b)
  <2> DEFINE pc == IF Exists("home") /\ dir["home"]["manifest"] = builder[b].walk
                   THEN "comparing" ELSE "waiting"
  <2>1. Goto(b, pc)
    BY <1>2 DEF CompareManifest
  <2>2. pc \notin Locked
    BY DEF Locked
  <2> HIDE DEF pc
  <2>3. builder'[b].pc = pc /\ \A c \in Builders \ {b} : builder'[c] = builder[c]
    BY <2>1, GotoOneBuilder
  <2> QED BY <1>2, <2>2, <2>3, OutsideStep DEF CompareManifest
<1>3. CASE CompareFiles(b)
  <2>1. /\ builder'[b].pc \in {"done", "waiting"}
        /\ \A c \in Builders \ {b} : builder'[c] = builder[c]
    BY <1>3, GotoOneBuilder, EndOneBuilder DEF CompareFiles
  <2>2. builder'[b].pc \notin Locked
    BY <2>1 DEF Locked
  <2> QED BY <1>3, <2>1, <2>2, OutsideStep DEF CompareFiles
<1>4. CASE Acquire(b)
  <2>1. /\ builder'[b].pc = "recovering"
        /\ \A c \in Builders \ {b} : builder'[c] = builder[c]
    BY <1>4, GotoOneBuilder DEF Acquire
  <2>2. \A c \in Builders \ {b} : lock # c
    BY <1>4, ConstantsAssumption DEF Acquire
  <2>3. lock = Nobody /\ lock' = b /\ sweep.pc = "idle" /\ UNCHANGED <<dir, sweep>>
    BY <1>4 DEF Acquire
  <2> QED BY <2>1, <2>2, <2>3, OutsideStep
<1> QED BY <1>1, <1>2, <1>3, <1>4

\* The recovery publishes the copy set aside, which is whole.
LEMMA RecoverKeepsTheSwap ==
    ASSUME SwapInvariant, TypeOK', NEW b \in Builders, Recover(b)
    PROVE  SwapInvariant'
<1> USE DEF SwapInvariant
<1>1. builder[b].pc \in Locked
  BY DEF Recover, At, Locked
<1>2. /\ builder'[b].pc = "clearing"
      /\ \A c \in Builders \ {b} : builder'[c] = builder[c]
  BY GotoOneBuilder DEF Recover
<1>3. CASE ~Exists("home") /\ Exists("old")
  <2>1. dir'["old"] = None /\ dir'["home"] = dir["old"] /\ sweep' = sweep
    BY <1>1, <1>3, RenameMoves, NothingIsSomething DEF Recover
  <2>2. Exists("home")' /\ ~Exists("old")'
    BY <1>3, <2>1 DEF Exists
  <2>3. Whole("home")'
    BY <1>3, <2>1 DEF BackupIsWhole, Whole, Holds, Exists
  <2>4. InOrder(b)'
    BY <1>2, <2>2 DEF InOrder
  <2>5. HomeIsWhole' /\ BackupIsWhole'
    BY <2>2, <2>3 DEF HomeIsWhole, BackupIsWhole
  <2> QED BY <1>1, <1>2, <2>1, <2>4, <2>5, InsideStep DEF Recover
<1>4. CASE ~(~Exists("home") /\ Exists("old"))
  <2>1. UNCHANGED <<dir, sweep>>
    BY <1>4 DEF Recover
  <2>2. InOrder(b)'
    BY <1>2, <1>4, <2>1 DEF InOrder, Exists
  <2>3. HomeIsWhole' /\ BackupIsWhole'
    BY <2>1, NameUntouched DEF HomeIsWhole, BackupIsWhole
  <2> QED BY <1>1, <1>2, <2>1, <2>2, <2>3, InsideStep DEF Recover
<1> QED BY <1>3, <1>4

\* What is cleared is the staging directory, or the copy set aside when it is
\* not the only one.
LEMMA ClearKeepsTheSwap ==
    ASSUME SwapInvariant, TypeOK', NEW b \in Builders, Clear(b)
    PROVE  SwapInvariant'
<1> USE DEF SwapInvariant
<1> DEFINE pc == builder[b].pc
<1>0. PICK n \in {"rebuilding", "old"} : n = Clears(pc)
  BY DEF Clear, Clears
<1>1. pc \in Locked /\ n \in Names
  BY DEF Clear, Locked, Names
<1>2. /\ builder'[b].pc \in {pc, Cleared(pc)}
      /\ builder'[b].walk = builder[b].walk
      /\ \A c \in Builders \ {b} : builder'[c] = builder[c]
  BY GotoOneBuilder DEF Clear
<1>3. sweep' = sweep
  BY <1>0, <1>1, NoSweepInside, NothingIsSomething DEF Clear
<1>4. /\ \A m \in Names \ {n} : dir'[m] = dir[m]
      /\ Exists(n)' => Exists(n)
  <2>1. CASE \E f \in Files : RemoveFile(n, f)
    BY <1>1, <2>1 DEF RemoveFile, Has, Exists, TypeOK
  <2>2. CASE dir' = [dir EXCEPT ![n] = None]
    BY <1>1, <2>2 DEF Exists, TypeOK
  <2> QED BY <1>0, <2>1, <2>2 DEF Clear
<1>5. dir'["home"] = dir["home"]
  BY <1>4 DEF Names
<1>6. CASE pc = "clearing"
  <2>1. dir'["old"] = dir["old"]
    BY <1>0, <1>4, <1>6 DEF Clears, Names
  <2>2. builder'[b].pc \in {"clearing", "clearing_old"}
    BY <1>2, <1>6 DEF Cleared
  <2>3. InOrder(b)'
    BY <1>5, <1>6, <2>1, <2>2 DEF InOrder, Exists
  <2>4. HomeIsWhole' /\ BackupIsWhole'
    BY <1>5, <2>1, NameUntouched DEF HomeIsWhole, BackupIsWhole
  <2> QED BY <1>1, <1>2, <1>3, <2>3, <2>4, InsideStep DEF Clear
<1>7. CASE pc \in {"clearing_old", "clearing_again", "clearing_last"}
  <2>1. n = "old" /\ dir'["rebuilding"] = dir["rebuilding"]
    BY <1>0, <1>4, <1>7 DEF Clears, Names
  <2>2. Exists("home") \/ ~Exists("old")
    BY <1>7 DEF InOrder, Holds
  <2>3. Exists("home")' \/ ~Exists("old")'
    BY <1>4, <1>5, <2>1, <2>2 DEF Exists
  <2>4. HomeIsWhole' /\ BackupIsWhole'
    BY <1>5, <2>3, NameUntouched DEF HomeIsWhole, BackupIsWhole
  <2>5. builder'[b].pc \in {"clearing_old", "creating", "clearing_again", "moving",
                            "clearing_last", "verifying"}
    BY <1>2, <1>7 DEF Cleared
  <2>6. InOrder(b)'
    <3>1. CASE pc = "clearing_old"
      <4>1. builder'[b].pc \in {"clearing_old", "creating"}
        BY <1>2, <3>1 DEF Cleared
      <4> QED BY <2>3, <4>1 DEF InOrder
    <3>2. CASE pc = "clearing_again"
      <4>1. builder'[b].pc \in {"clearing_again", "moving"}
        BY <1>2, <3>2 DEF Cleared
      <4>2. Holds("rebuilding", builder[b].walk)'
        BY <1>2, <2>1, <3>2 DEF InOrder, Holds, Exists
      <4> QED BY <1>2, <2>3, <4>1, <4>2 DEF InOrder, Holds, Exists
    <3>3. CASE pc = "clearing_last"
      <4>1. builder'[b].pc \in {"clearing_last", "verifying"}
        BY <1>2, <3>3 DEF Cleared
      <4>2. Holds("home", builder[b].walk)'
        BY <1>2, <1>5, <3>3 DEF InOrder, Holds, Exists
      <4> QED BY <1>2, <4>1, <4>2 DEF InOrder, Holds, Exists
    <3> QED BY <1>7, <3>1, <3>2, <3>3
  <2> QED BY <1>1, <1>2, <1>3, <2>4, <2>6, InsideStep DEF Clear
<1> QED BY <1>6, <1>7 DEF Clear

\* The staging directory is filled by the walk of its build.
LEMMA FillingKeepsTheSwap ==
    ASSUME SwapInvariant, TypeOK', NEW b \in Builders,
           Create(b) \/ (\E f \in Files : WriteFile(b, f)) \/ Sync(b)
    PROVE  SwapInvariant'
<1> USE DEF SwapInvariant
<1>1. builder[b].pc \in Locked /\ lock' = lock /\ sweep' = sweep
  BY DEF Create, WriteFile, Sync, At, Locked
<1>2. dir'["home"] = dir["home"] /\ dir'["old"] = dir["old"]
  BY DEF Create, WriteFile, Sync, TypeOK, Names
<1>3. HomeIsWhole' /\ BackupIsWhole'
  BY <1>2, NameUntouched DEF HomeIsWhole, BackupIsWhole
<1>4. Exists("home")' \/ ~Exists("old")'
  BY <1>2 DEF InOrder, Exists, Create, WriteFile, Sync, At
<1>5. CASE Create(b)
  <2>1. /\ builder'[b].pc = "filling" /\ builder'[b].left = Files
        /\ \A c \in Builders \ {b} : builder'[c] = builder[c]
    BY <1>5 DEF Create, TypeOK
  <2>2. dir'["rebuilding"] # None
    BY <1>5, NothingIsSomething DEF Create, Exists, TypeOK
  <2>3. InOrder(b)'
    BY <1>4, <2>1, <2>2 DEF InOrder, Exists
  <2> QED BY <1>1, <1>3, <2>1, <2>3, InsideStep
<1>6. CASE \E f \in Files : WriteFile(b, f)
  <2>1. PICK f \in Files : WriteFile(b, f)
    BY <1>6
  <2> DEFINE pc == IF builder[b].left = {f} THEN "syncing" ELSE "filling"
  <2>2. builder' = [builder EXCEPT ![b] =
                       [builder[b] EXCEPT !.left = builder[b].left \ {f}, !.pc = pc]]
    BY <2>1 DEF WriteFile
  <2> HIDE DEF pc
  <2>3. /\ builder'[b].pc = pc /\ builder'[b].left = builder[b].left \ {f}
        /\ builder'[b].walk = builder[b].walk
        /\ \A c \in Builders \ {b} : builder'[c] = builder[c]
    BY <2>2 DEF TypeOK
  <2>4. dir["rebuilding"] \in Content
    BY <2>1 DEF WriteFile, Exists, TypeOK, Names
  <2>5. dir'["rebuilding"] = [dir["rebuilding"] EXCEPT ![f] = builder[b].walk]
    BY <2>1, NothingIsSomething DEF WriteFile, TypeOK
  <2>6. dir'["rebuilding"] \in Content
    BY <2>4, <2>5 DEF Content, TypeOK
  <2>7. \A g \in Files \ (builder[b].left \ {f}) :
            dir'["rebuilding"][g] = builder[b].walk
    <3>1. \A g \in Files \ builder[b].left : dir["rebuilding"][g] = builder[b].walk
      BY <2>1 DEF WriteFile, At, InOrder
    <3> SUFFICES ASSUME NEW g \in Files \ (builder[b].left \ {f})
                 PROVE  dir'["rebuilding"][g] = builder[b].walk
      OBVIOUS
    <3>2. CASE g = f
      BY <2>4, <2>5, <3>2 DEF Content
    <3>3. CASE g # f
      BY <2>4, <2>5, <3>1, <3>3 DEF Content
    <3> QED BY <3>2, <3>3
  <2>8. Exists("rebuilding")'
    BY <2>6, NothingIsSomething DEF Exists
  <2>9. pc = "syncing" => Holds("rebuilding", builder[b].walk)'
    <3> SUFFICES ASSUME pc = "syncing"
                 PROVE  Holds("rebuilding", builder[b].walk)'
      OBVIOUS
    <3>1. builder[b].left = {f}
      BY DEF pc
    <3>2. \A g \in Files : dir'["rebuilding"][g] = builder[b].walk
      BY <2>7, <3>1
    <3> QED BY <2>3, <2>8, <3>2 DEF Holds
  <2>10. pc \in {"syncing", "filling"}
    BY DEF pc
  <2>11. InOrder(b)'
    BY <1>4, <2>3, <2>7, <2>8, <2>9, <2>10 DEF InOrder, Exists, Holds
  <2> QED BY <1>1, <1>3, <2>3, <2>11, InsideStep
<1>7. CASE Sync(b)
  <2>1. /\ builder'[b].pc = "clearing_again" /\ builder'[b].walk = builder[b].walk
        /\ \A c \in Builders \ {b} : builder'[c] = builder[c]
    BY <1>7, GotoOneBuilder DEF Sync
  <2>2. Holds("rebuilding", builder[b].walk)'
    BY <1>7, <2>1 DEF Sync, At, InOrder, Holds, Exists
  <2>3. InOrder(b)'
    BY <1>4, <2>1, <2>2 DEF InOrder, Exists, Holds
  <2> QED BY <1>1, <1>3, <2>1, <2>3, InsideStep
<1> QED BY <1>5, <1>6, <1>7

\* The two renames, and what comes after them.
LEMMA SwapInKeepsTheSwap ==
    ASSUME SwapInvariant, TypeOK', NEW b \in Builders,
           MoveHome(b) \/ Install(b) \/ Verify(b) \/ Stop(b)
    PROVE  SwapInvariant'
<1> USE DEF SwapInvariant
<1>1. CASE MoveHome(b)
  <2>1. builder[b].pc \in Locked /\ Holds("rebuilding", builder[b].walk)
    BY <1>1 DEF MoveHome, At, Locked, InOrder
  <2>2. /\ builder'[b].pc = "installing" /\ builder'[b].walk = builder[b].walk
        /\ \A c \in Builders \ {b} : builder'[c] = builder[c]
    BY <1>1, GotoOneBuilder DEF MoveHome
  <2>3. CASE Exists("home")
    <3>1. /\ dir'["home"] = None /\ dir'["old"] = dir["home"]
          /\ dir'["rebuilding"] = dir["rebuilding"] /\ sweep' = sweep
      BY <1>1, <2>1, <2>3, RenameMoves, NothingIsSomething DEF MoveHome
    <3>2. ~Exists("home")' /\ Whole("old")'
      BY <2>3, <3>1 DEF HomeIsWhole, Exists, Whole, Holds
    <3>3. InOrder(b)'
      BY <2>1, <2>2, <3>1 DEF InOrder, Holds, Exists
    <3>4. HomeIsWhole' /\ BackupIsWhole'
      BY <3>2 DEF HomeIsWhole, BackupIsWhole
    <3> QED BY <1>1, <2>1, <2>2, <3>1, <3>3, <3>4, InsideStep DEF MoveHome
  <2>4. CASE ~Exists("home")
    <3>1. UNCHANGED <<dir, sweep>>
      BY <1>1, <2>4 DEF MoveHome
    <3>2. InOrder(b)'
      BY <2>1, <2>2, <3>1 DEF InOrder, Holds, Exists
    <3>3. HomeIsWhole' /\ BackupIsWhole'
      BY <3>1, NameUntouched DEF HomeIsWhole, BackupIsWhole
    <3> QED BY <1>1, <2>1, <2>2, <3>1, <3>2, <3>3, InsideStep DEF MoveHome
  <2> QED BY <2>3, <2>4
<1>2. CASE Install(b)
  <2>1. builder[b].pc \in Locked /\ Holds("rebuilding", builder[b].walk)
    BY <1>2 DEF Install, At, Locked, InOrder
  <2>2. /\ builder'[b].pc = "clearing_last" /\ builder'[b].walk = builder[b].walk
        /\ \A c \in Builders \ {b} : builder'[c] = builder[c]
    BY <1>2, GotoOneBuilder DEF Install
  <2>3. dir'["home"] = dir["rebuilding"] /\ sweep' = sweep
    BY <1>2, <2>1, RenameMoves, NothingIsSomething DEF Install
  <2>4. Holds("home", builder[b].walk)'
    BY <2>1, <2>2, <2>3 DEF Holds, Exists
  <2>5. InOrder(b)'
    BY <2>2, <2>4 DEF InOrder, Holds, Exists
  <2>6. HomeIsWhole' /\ BackupIsWhole'
    BY <2>4 DEF HomeIsWhole, BackupIsWhole, Whole, Holds, TypeOK
  <2> QED BY <1>2, <2>1, <2>2, <2>3, <2>5, <2>6, InsideStep DEF Install
<1>3. CASE Verify(b)
  <2>1. /\ builder[b].pc \in Locked /\ builder'[b].pc = "done"
        /\ \A c \in Builders \ {b} : builder'[c] = builder[c]
    BY <1>3, EndOneBuilder DEF Verify, At, Locked
  <2>2. builder'[b].pc \notin Locked
    BY <2>1 DEF Locked
  <2>3. \A c \in Builders \ {b} : lock # c
    BY <2>1 DEF LockIsExclusive
  <2> QED BY <1>3, <2>1, <2>2, <2>3, OutsideStep DEF Verify
<1>4. CASE Stop(b)
  <2>1. /\ builder'[b].pc = "idle"
        /\ \A c \in Builders \ {b} : builder'[c] = builder[c]
    BY <1>4, EndOneBuilder DEF Stop
  <2>2. builder'[b].pc \notin Locked
    BY <2>1 DEF Locked
  <2> QED BY <1>4, <2>1, <2>2, OutsideStep DEF Stop
<1> QED BY <1>1, <1>2, <1>3, <1>4

\* The sweep removes what no build works on, and never what is published.
LEMMA SweepKeepsTheSwap ==
    ASSUME SweepFindsNoHome = FALSE, SwapInvariant, TypeOK', Sweep
    PROVE  SwapInvariant'
<1> USE DEF SwapInvariant
<1>1. UNCHANGED <<corpus, lock, builder, query>>
  BY DEF Sweep, Probe, OpenLeftover, Unlink, RemoveLeftover, StopSweep
<1>2. LockIsExclusive'
  BY <1>1 DEF LockIsExclusive
<1>3. (\A b \in Builders : builder[b].pc \notin Locked) /\ Exists("home")
  <2>1. CASE \E n \in Names : Probe(n)
    BY <2>1, ConstantsAssumption DEF Probe, LockIsExclusive
  <2>2. CASE sweep.pc # "idle"
    BY <2>2 DEF SweepIsAlone
  <2> QED BY <2>1, <2>2 DEF Sweep, OpenLeftover, Unlink, RemoveLeftover, StopSweep
<1>4. dir'["home"] = dir["home"]
  BY DEF Sweep, Probe, OpenLeftover, Unlink, RemoveLeftover, StopSweep,
         SweepIsAlone, RemoveFile, TypeOK, Names
<1>5. HomeIsWhole' /\ BackupIsWhole' /\ Exists("home")'
  BY <1>3, <1>4, NameUntouched DEF HomeIsWhole, BackupIsWhole
<1>6. \A b \in Builders : InOrder(b)'
  BY <1>1, <1>3 DEF InOrder, Locked
<1>7. SweepIsAlone'
  <2>1. CASE \E n \in Names : Probe(n)
    <3>1. PICK n \in Names : Probe(n)
      BY <2>1
    <3>2. sweep'.name \in {"rebuilding", "old"} /\ sweep'.at = None
          /\ sweep'.pc = "free"
      BY <3>1 DEF Probe, Names
    <3> QED BY <1>1, <1>3, <1>5, <3>2 DEF SweepIsAlone
  <2>2. CASE OpenLeftover
    <3>1. sweep.name \in {"rebuilding", "old"} /\ sweep.at = None
      BY <2>2 DEF OpenLeftover, SweepIsAlone
    <3>2. CASE sweep' = [sweep EXCEPT !.pc = "removing", !.at = sweep.name]
      <4>1. /\ sweep'.pc = "removing" /\ sweep'.name = sweep.name
            /\ sweep'.at = sweep.name
        BY <3>2 DEF TypeOK
      <4> QED BY <1>1, <1>3, <1>5, <3>1, <4>1 DEF SweepIsAlone
    <3>3. CASE sweep' = [sweep EXCEPT !.pc = "idle"]
      <4>1. sweep'.pc = "idle" /\ sweep'.at = sweep.at
        BY <3>3 DEF TypeOK
      <4> QED BY <1>1, <3>1, <4>1 DEF SweepIsAlone
    <3> QED BY <2>2, <3>2, <3>3 DEF OpenLeftover
  <2>3. CASE \E f \in Files : Unlink(f)
    BY <1>1, <1>3, <1>5, <2>3 DEF SweepIsAlone, Unlink
  <2>4. CASE RemoveLeftover \/ StopSweep
    <3>1. sweep'.pc = "idle" /\ sweep'.at = None
      BY <2>4 DEF RemoveLeftover, StopSweep, TypeOK
    <3> QED BY <3>1 DEF SweepIsAlone
  <2> QED BY <2>1, <2>2, <2>3, <2>4 DEF Sweep
<1> QED BY <1>2, <1>5, <1>6, <1>7

\* Nothing is published and nobody builds.
LEMMA SwapInit == Init => SwapInvariant
BY TypesInit DEF Init, SwapInvariant, LockIsExclusive, SweepIsAlone, HomeIsWhole,
    BackupIsWhole, InOrder, Locked, NoBuild, Exists, Names

\* Every step of the system keeps the invariant.
LEMMA SwapStep ==
    ASSUME SweepMeetsBuild = FALSE, SweepFindsNoHome = FALSE
    PROVE  SwapInvariant /\ [Next]_vars => SwapInvariant'
<1> SUFFICES ASSUME SwapInvariant, [Next]_vars PROVE SwapInvariant'
  OBVIOUS
<1>1. TypeOK'
  BY TypesStep DEF SwapInvariant
<1>2. CASE Corpus \/ Query \/ UNCHANGED vars
  <2>1. UNCHANGED <<dir, lock, builder, sweep>>
    BY <1>2 DEF Corpus, Query, Plan, ReadManifest, ReadPaths, ReadWholeManifest,
                OpenTable, OpenPostings, Answer, vars
  <2> QED BY <1>1, <2>1, NothingMoves
<1>3. ASSUME NEW b \in Builders, BuildStep(b) PROVE SwapInvariant'
  BY <1>1, <1>3, WithoutTheLock, RecoverKeepsTheSwap, ClearKeepsTheSwap,
     FillingKeepsTheSwap, SwapInKeepsTheSwap DEF BuildStep
<1>4. CASE Sweep
  BY <1>1, <1>4, SweepKeepsTheSwap
<1> QED BY <1>2, <1>3, <1>4 DEF Next

\* The published name holds a whole generation or nothing, whatever is killed.
THEOREM HomeStaysWhole ==
    ASSUME SweepMeetsBuild = FALSE, SweepFindsNoHome = FALSE
    PROVE  Spec => []HomeIsWhole
<1>1. SwapInvariant /\ [Next]_vars => SwapInvariant'
  BY SwapStep
<1>2. SwapInvariant => HomeIsWhole
  BY DEF SwapInvariant
<1> QED BY <1>1, <1>2, SwapInit, PTL DEF Spec

\* A whole generation is somewhere exactly when one of the two names is there.
LEMMA SomewhereWhole ==
    ASSUME SwapInvariant
    PROVE  Whole("home") \/ Whole("old") <=> Exists("home") \/ Exists("old")
BY DEF SwapInvariant, HomeIsWhole, BackupIsWhole, Whole, Holds

\* No step leaves both names absent.
LEMMA OneNameStays ==
    ASSUME SweepFindsNoHome = FALSE, SwapInvariant, [Next]_vars,
           Exists("home") \/ Exists("old")
    PROVE  Exists("home")' \/ Exists("old")'
<1> USE DEF SwapInvariant
<1>1. ASSUME NEW b \in Builders, BuildStep(b)
      PROVE  Exists("home")' \/ Exists("old")'
  <2>1. CASE Recover(b)
    <3>1. builder[b].pc \in Locked
      BY <2>1 DEF Recover, At, Locked
    <3> QED BY <2>1, <3>1, RenameMoves, NothingIsSomething DEF Recover, Exists
  <2>2. CASE Clear(b)
    <3>1. PICK n \in {"rebuilding", "old"} : n = Clears(builder[b].pc)
      BY <2>2 DEF Clear, Clears
    <3>2. \A m \in Names \ {n} : dir'[m] = dir[m]
      BY <2>2, <3>1 DEF Clear, RemoveFile, TypeOK
    <3>3. n = "old" => Exists("home")
      BY <2>2, <3>1 DEF Clear, Clears, InOrder, Holds
    <3> QED BY <3>1, <3>2, <3>3 DEF Exists, Names
  <2>3. CASE MoveHome(b)
    <3>1. builder[b].pc \in Locked
      BY <2>3 DEF MoveHome, At, Locked
    <3> QED BY <2>3, <3>1, RenameMoves, NothingIsSomething DEF MoveHome, Exists
  <2>4. CASE Install(b)
    <3>1. builder[b].pc \in Locked
      BY <2>4 DEF Install, At, Locked
    <3> QED BY <2>4, <3>1, RenameMoves, NothingIsSomething DEF Install, Exists
  <2>5. CASE \/ Walk(b) \/ CompareManifest(b) \/ CompareFiles(b) \/ Acquire(b)
             \/ Create(b) \/ (\E f \in Files : WriteFile(b, f)) \/ Sync(b)
             \/ Verify(b) \/ Stop(b)
    <3>1. dir'["home"] = dir["home"] /\ dir'["old"] = dir["old"]
      BY <2>5 DEF Walk, CompareManifest, CompareFiles, Acquire, Create, WriteFile,
                  Sync, Verify, Stop, TypeOK, Names
    <3> QED BY <3>1 DEF Exists
  <2> QED BY <1>1, <2>1, <2>2, <2>3, <2>4, <2>5 DEF BuildStep
<1>2. CASE Sweep
  <2>1. Exists("home")
    BY <1>2 DEF Sweep, Probe, OpenLeftover, Unlink, RemoveLeftover, StopSweep,
                SweepIsAlone
  <2>2. dir'["home"] = dir["home"]
    BY <1>2 DEF Sweep, Probe, OpenLeftover, Unlink, RemoveLeftover, StopSweep,
                SweepIsAlone, RemoveFile, TypeOK, Names
  <2> QED BY <2>1, <2>2 DEF Exists
<1>3. CASE Corpus \/ Query \/ UNCHANGED vars
  BY <1>3 DEF Corpus, Query, Plan, ReadManifest, ReadPaths, ReadWholeManifest,
              OpenTable, OpenPostings, Answer, vars, Exists
<1> QED BY <1>1, <1>2, <1>3 DEF Next

\* No kill, rename or removal loses the last whole generation.
THEOREM LastCopyIsKept ==
    ASSUME SweepMeetsBuild = FALSE, SweepFindsNoHome = FALSE
    PROVE  Spec => LastCopySurvives
<1>1. SwapInvariant /\ [Next]_vars => SwapInvariant'
  BY SwapStep
<1>2. SwapInvariant /\ SwapInvariant' /\ [Next]_vars =>
          [Whole("home") \/ Whole("old") => (Whole("home") \/ Whole("old"))']_vars
  <2>1. ASSUME SwapInvariant, SwapInvariant', [Next]_vars, Whole("home") \/ Whole("old")
        PROVE  (Whole("home") \/ Whole("old"))'
    <3>1. Exists("home")' \/ Exists("old")'
      BY <2>1, SomewhereWhole, OneNameStays
    <3>2. (Whole("home") \/ Whole("old"))' <=> Exists("home")' \/ Exists("old")'
      BY <2>1 DEF SwapInvariant, HomeIsWhole, BackupIsWhole, Whole, Holds, Exists
    <3> QED BY <3>1, <3>2
  <2> QED BY <2>1
<1> QED BY <1>1, <1>2, SwapInit, PTL DEF Spec, LastCopySurvives

-----------------------------------------------------------------------------
(***************************************************************************)
(* What is read.  Generations are published in their order, so that what a *)
(* query reads later is of the same generation or of one with more paths;  *)
(* and the counts it compares, of the first and of the last one it reads,  *)
(* tell the two apart.                                                     *)
(***************************************************************************)

\* Where the generation is that a query may open, or a recovery will publish.
Newest    == IF Exists("home") THEN "home" ELSE "old"
Published == dir[Newest]["paths"]

\* A build that has the lock has walked all that is published.
HolderIsNewest ==
    \A b \in Builders : builder[b].pc \in Locked /\ Exists(Newest) =>
        Published \subseteq builder[b].walk

\* A build that compares has found its walk published, or more by now.
ComparedIsThere ==
    \A b \in Builders : At(b, "comparing") =>
        Exists(Newest) /\ builder[b].walk \subseteq Published

\* What a query has read, it has read in the order of generations.
ReadsForward ==
    /\ query.pc \notin {"idle", "answered"} => Exists(Newest)
    /\ query.pc \in {"table", "postings", "summary"} =>
           query.paths \in Generations /\ query.paths \subseteq Published
    /\ query.pc \in {"postings", "summary"} =>
           /\ query.table \in Generations
           /\ query.paths \subseteq query.table /\ query.table \subseteq Published
    /\ query.pc = "summary" =>
           /\ query.postings \in Generations
           /\ query.table \subseteq query.postings /\ query.postings \subseteq Published

AnswerInvariant ==
    /\ SwapInvariant
    /\ HolderIsNewest
    /\ ComparedIsThere
    /\ ReadsForward
    /\ AnswersHaveTheMatch

\* The newest generation is whole under its name.
LEMMA PublishedIsWhole ==
    ASSUME SwapInvariant, Exists(Newest)
    PROVE  Published \in Generations /\ Holds(Newest, Published)
<1>1. Whole(Newest)
  BY DEF SwapInvariant, HomeIsWhole, BackupIsWhole, Newest
<1>2. PICK g \in Generations : Holds(Newest, g)
  BY <1>1 DEF Whole
<1>3. Published = g
  BY <1>2 DEF Holds, Published, Files
<1> QED BY <1>2, <1>3

\* A generation with no path that another one is without, and as many, is that
\* other one.
LEMMA SameCount ==
    ASSUME NEW g \in Generations, NEW h \in Generations, g \subseteq h,
           Cardinality(g) = Cardinality(h)
    PROVE  g = h
<1>1. IsFiniteSet(h)
  BY ConstantsAssumption, FS_Subset DEF Generations
<1> QED BY <1>1, FS_Subset

\* A step that leaves both names alone.
LEMMA NamesAlone ==
    ASSUME dir'["home"] = dir["home"], dir'["old"] = dir["old"]
    PROVE  /\ Exists(Newest)' <=> Exists(Newest)
           /\ Published' = Published
BY DEF Exists, Newest, Published

\* Only the second rename of a build publishes anything.
LEMMA PublishedKept ==
    ASSUME SweepFindsNoHome = FALSE, SwapInvariant, [Next]_vars,
           \A b \in Builders : ~Install(b)
    PROVE  /\ Exists(Newest)' <=> Exists(Newest)
           /\ Exists(Newest) => Published' = Published
<1> USE DEF SwapInvariant
<1>1. ASSUME NEW b \in Builders, BuildStep(b)
      PROVE  /\ Exists(Newest)' <=> Exists(Newest)
             /\ Exists(Newest) => Published' = Published
  <2>1. CASE Recover(b)
    <3>1. builder[b].pc \in Locked
      BY <2>1 DEF Recover, At, Locked
    <3>2. CASE ~Exists("home") /\ Exists("old")
      <4>1. dir'["home"] = dir["old"]
        BY <2>1, <3>1, <3>2, RenameMoves, NothingIsSomething DEF Recover
      <4> QED BY <3>2, <4>1 DEF Exists, Newest, Published
    <3>3. CASE ~(~Exists("home") /\ Exists("old"))
      BY <2>1, <3>3, NamesAlone DEF Recover
    <3> QED BY <3>2, <3>3
  <2>2. CASE Clear(b)
    <3>1. PICK n \in {"rebuilding", "old"} : n = Clears(builder[b].pc)
      BY <2>2 DEF Clear, Clears
    <3>2. \A m \in Names \ {n} : dir'[m] = dir[m]
      BY <2>2, <3>1 DEF Clear, RemoveFile, TypeOK
    <3>3. CASE n = "rebuilding"
      BY <3>2, <3>3, NamesAlone DEF Names
    <3>4. CASE n = "old" /\ Exists("home")
      <4>1. dir'["home"] = dir["home"]
        BY <3>2, <3>4 DEF Names
      <4> QED BY <3>4, <4>1 DEF Exists, Newest, Published
    <3>5. CASE n = "old" /\ ~Exists("home")
      <4>1. ~Exists("old")
        BY <2>2, <3>1, <3>5 DEF Clear, Clears, InOrder, Holds
      <4>2. dir'["home"] = None
        BY <3>2, <3>5 DEF Names, Exists
      <4>3. dir'["old"] = None
        BY <2>2, <3>1, <3>5, <4>1 DEF Clear, RemoveFile, Has, Exists, TypeOK, Names
      <4> QED BY <3>5, <4>1, <4>2, <4>3 DEF Exists, Newest
    <3> QED BY <3>1, <3>3, <3>4, <3>5
  <2>3. CASE MoveHome(b)
    <3>1. builder[b].pc \in Locked
      BY <2>3 DEF MoveHome, At, Locked
    <3>2. CASE Exists("home")
      <4>1. dir'["home"] = None /\ dir'["old"] = dir["home"]
        BY <2>3, <3>1, <3>2, RenameMoves, NothingIsSomething DEF MoveHome
      <4> QED BY <3>2, <4>1 DEF Exists, Newest, Published
    <3>3. CASE ~Exists("home")
      BY <2>3, <3>3, NamesAlone DEF MoveHome
    <3> QED BY <3>2, <3>3
  <2>4. CASE \/ Walk(b) \/ CompareManifest(b) \/ CompareFiles(b) \/ Acquire(b)
             \/ Create(b) \/ (\E f \in Files : WriteFile(b, f)) \/ Sync(b)
             \/ Verify(b) \/ Stop(b)
    <3>1. dir'["home"] = dir["home"] /\ dir'["old"] = dir["old"]
      BY <2>4 DEF Walk, CompareManifest, CompareFiles, Acquire, Create, WriteFile,
                  Sync, Verify, Stop, TypeOK, Names
    <3> QED BY <3>1, NamesAlone
  <2> QED BY <1>1, <2>1, <2>2, <2>3, <2>4 DEF BuildStep
<1>2. CASE Sweep
  <2>1. Exists("home")
    BY <1>2 DEF Sweep, Probe, OpenLeftover, Unlink, RemoveLeftover, StopSweep,
                SweepIsAlone
  <2>2. dir'["home"] = dir["home"]
    BY <1>2 DEF Sweep, Probe, OpenLeftover, Unlink, RemoveLeftover, StopSweep,
                SweepIsAlone, RemoveFile, TypeOK, Names
  <2> QED BY <2>1, <2>2 DEF Exists, Newest, Published
<1>3. CASE Corpus \/ Query \/ UNCHANGED vars
  <2>1. UNCHANGED dir
    BY <1>3 DEF Corpus, Query, Plan, ReadManifest, ReadPaths, ReadWholeManifest,
                OpenTable, OpenPostings, Answer, vars
  <2> QED BY <2>1, NamesAlone
<1> QED BY <1>1, <1>2, <1>3 DEF Next

\* And what it publishes is what it walked.
LEMMA InstallPublishes ==
    ASSUME SwapInvariant, NEW b \in Builders, Install(b)
    PROVE  /\ Exists(Newest)' /\ Published' = builder[b].walk
           /\ builder[b].pc \in Locked
           /\ builder'[b].pc \in Locked /\ builder'[b].walk = builder[b].walk
           /\ \A c \in Builders \ {b} : builder'[c] = builder[c]
<1> USE DEF SwapInvariant
<1>1. builder[b].pc \in Locked /\ Holds("rebuilding", builder[b].walk)
  BY DEF Install, At, Locked, InOrder
<1>2. /\ builder'[b].pc = "clearing_last" /\ builder'[b].walk = builder[b].walk
      /\ \A c \in Builders \ {b} : builder'[c] = builder[c]
  BY GotoOneBuilder DEF Install
<1>3. dir'["home"] = dir["rebuilding"]
  BY <1>1, RenameMoves, NothingIsSomething DEF Install
<1> QED BY <1>1, <1>2, <1>3 DEF Holds, Exists, Newest, Published, Locked, Files

\* No step takes a generation away, or goes back to one with fewer paths.
LEMMA PublishedGrows ==
    ASSUME SweepFindsNoHome = FALSE, SwapInvariant, HolderIsNewest, [Next]_vars,
           Exists(Newest)
    PROVE  Exists(Newest)' /\ Published \subseteq Published'
<1>1. CASE \E b \in Builders : Install(b)
  BY <1>1, InstallPublishes DEF HolderIsNewest
<1>2. CASE \A b \in Builders : ~Install(b)
  BY <1>2, PublishedKept
<1> QED BY <1>1, <1>2

\* A builder that keeps its walk, or ends, or takes the lock.
LEMMA HoldersAre ==
    ASSUME TypeOK, [Next]_vars, NEW b \in Builders, builder'[b].pc \in Locked
    PROVE  \/ builder[b].pc \in Locked /\ builder'[b].walk = builder[b].walk
           \/ Acquire(b) /\ builder'[b].walk = builder[b].walk
<1>1. CASE UNCHANGED builder
  BY <1>1
<1>2. CASE \E c \in Builders : BuildStep(c)
  <2>1. PICK c \in Builders : BuildStep(c)
    BY <1>2
  <2>2. CASE Walk(c) \/ CompareManifest(c) \/ CompareFiles(c) \/ Verify(c) \/ Stop(c)
    <3>1. /\ builder'[c].pc \in {"walked", "comparing", "waiting", "done", "idle"}
          /\ \A d \in Builders \ {c} : builder'[d] = builder[d]
      <4>1. CASE Walk(c)
        BY <4>1 DEF Walk, TypeOK
      <4>2. CASE CompareManifest(c)
        <5>1. Goto(c, "comparing") \/ Goto(c, "waiting")
          BY <4>2 DEF CompareManifest
        <5> QED BY <5>1, GotoOneBuilder
      <4>3. CASE CompareFiles(c)
        BY <4>3, GotoOneBuilder, EndOneBuilder DEF CompareFiles
      <4>4. CASE Verify(c) \/ Stop(c)
        BY <4>4, EndOneBuilder DEF Verify, Stop
      <4> QED BY <2>2, <4>1, <4>2, <4>3, <4>4
    <3> QED BY <3>1 DEF Locked
  <2>3. CASE Acquire(c) \/ Recover(c) \/ Sync(c) \/ MoveHome(c) \/ Install(c)
    BY <2>3, GotoOneBuilder DEF Acquire, Recover, Sync, MoveHome, Install, At, Locked
  <2>4. CASE Clear(c)
    <3>1. \/ UNCHANGED builder
          \/ Goto(c, Cleared(builder[c].pc))
      BY <2>4 DEF Clear
    <3> QED BY <2>4, <3>1, GotoOneBuilder DEF Clear, Locked
  <2>5. CASE Create(c)
    BY <2>5 DEF Create, At, Locked, TypeOK
  <2>6. CASE \E f \in Files : WriteFile(c, f)
    <3>1. PICK f \in Files : WriteFile(c, f)
      BY <2>6
    <3> DEFINE pc == IF builder[c].left = {f} THEN "syncing" ELSE "filling"
    <3>2. builder' = [builder EXCEPT ![c] =
                         [builder[c] EXCEPT !.left = builder[c].left \ {f}, !.pc = pc]]
      BY <3>1 DEF WriteFile
    <3> HIDE DEF pc
    <3>3. /\ builder'[c].walk = builder[c].walk
          /\ \A d \in Builders \ {c} : builder'[d] = builder[d]
      BY <3>2 DEF TypeOK
    <3> QED BY <3>1, <3>3 DEF WriteFile, At, Locked
  <2> QED BY <2>1, <2>2, <2>3, <2>4, <2>5, <2>6 DEF BuildStep
<1>3. CASE Corpus \/ Sweep \/ Query \/ UNCHANGED vars
  BY <1>1, <1>3 DEF Corpus, Sweep, Probe, OpenLeftover, Unlink, RemoveLeftover,
       StopSweep, Query, Plan, ReadManifest, ReadPaths, ReadWholeManifest, OpenTable,
       OpenPostings, Answer, vars
<1> QED BY <1>2, <1>3 DEF Next

\* Whoever holds the lock has walked what is published.
LEMMA HoldersStayNewest ==
    ASSUME CountsRepeat = FALSE, SweepFindsNoHome = FALSE, SwapInvariant,
           HolderIsNewest, [Next]_vars, SwapInvariant'
    PROVE  HolderIsNewest'
<1> SUFFICES ASSUME NEW b \in Builders, builder'[b].pc \in Locked, Exists(Newest)'
             PROVE  Published' \subseteq builder'[b].walk
  BY DEF HolderIsNewest
<1>1. CASE \E c \in Builders : Install(c)
  <2>1. PICK c \in Builders : Install(c)
    BY <1>1
  <2>2. c = b
    BY <2>1, InstallPublishes DEF SwapInvariant, LockIsExclusive
  <2> QED BY <2>1, <2>2, InstallPublishes
<1>2. CASE \A c \in Builders : ~Install(c)
  <2>1. Exists(Newest) /\ Published' = Published
    BY <1>2, PublishedKept
  <2>2. CASE builder[b].pc \in Locked /\ builder'[b].walk = builder[b].walk
    BY <2>1, <2>2 DEF HolderIsNewest
  <2>3. CASE Acquire(b) /\ builder'[b].walk = builder[b].walk
    <3>1. Whole(Newest) /\ Newest \in Names
      BY <2>1, PublishedIsWhole DEF Whole, Newest, Names
    <3> QED BY <2>1, <2>3, <3>1 DEF Acquire, IsNewest, Published
  <2> QED BY <2>2, <2>3, HoldersAre DEF SwapInvariant
<1> QED BY <1>1, <1>2

\* A comparison is begun with the manifest of what is published.
LEMMA ComparedStaysThere ==
    ASSUME SweepFindsNoHome = FALSE, SwapInvariant, HolderIsNewest, ComparedIsThere,
           [Next]_vars
    PROVE  ComparedIsThere'
<1> SUFFICES ASSUME NEW b \in Builders, At(b, "comparing")'
             PROVE  Exists(Newest)' /\ builder'[b].walk \subseteq Published'
  BY DEF ComparedIsThere
<1>1. \/ At(b, "comparing") /\ builder'[b].walk = builder[b].walk
      \/ /\ CompareManifest(b) /\ builder'[b].walk = builder[b].walk
         /\ Exists("home") /\ dir["home"]["manifest"] = builder[b].walk
  <2>1. CASE UNCHANGED builder
    BY <2>1 DEF At
  <2>2. CASE \E c \in Builders : BuildStep(c)
    <3>1. PICK c \in Builders : BuildStep(c)
      BY <2>2
    <3>2. CASE c = b /\ CompareManifest(b)
      <4>1. CASE Exists("home") /\ dir["home"]["manifest"] = builder[b].walk
        BY <3>2, <4>1, GotoOneBuilder DEF CompareManifest, SwapInvariant
      <4>2. CASE ~(Exists("home") /\ dir["home"]["manifest"] = builder[b].walk)
        <5>1. Goto(b, "waiting")
          BY <3>2, <4>2 DEF CompareManifest
        <5> QED BY <5>1, GotoOneBuilder DEF At, SwapInvariant
      <4> QED BY <4>1, <4>2
    <3>3. CASE c = b /\ ~CompareManifest(b)
      <4>1. builder'[b].pc # "comparing" \/ UNCHANGED builder
        <5>1. CASE Walk(b) \/ CompareFiles(b) \/ Verify(b) \/ Stop(b)
          <6>1. CASE Walk(b)
            BY <6>1 DEF Walk, SwapInvariant, TypeOK
          <6>2. CASE CompareFiles(b) \/ Verify(b) \/ Stop(b)
            BY <6>2, GotoOneBuilder, EndOneBuilder
               DEF CompareFiles, Verify, Stop, SwapInvariant
          <6> QED BY <5>1, <6>1, <6>2
        <5>2. CASE Acquire(b) \/ Recover(b) \/ Sync(b) \/ MoveHome(b) \/ Install(b)
          BY <5>2, GotoOneBuilder
             DEF Acquire, Recover, Sync, MoveHome, Install, SwapInvariant
        <5>3. CASE Clear(b)
          <6>1. CASE Goto(b, Cleared(builder[b].pc))
            <7>1. Cleared(builder[b].pc) # "comparing"
              BY <5>3 DEF Clear, Cleared
            <7> QED BY <6>1, <7>1, GotoOneBuilder DEF SwapInvariant
          <6> QED BY <5>3, <6>1 DEF Clear
        <5>4. CASE Create(b)
          BY <5>4 DEF Create, SwapInvariant, TypeOK
        <5>5. CASE \E f \in Files : WriteFile(b, f)
          <6>1. PICK f \in Files : WriteFile(b, f)
            BY <5>5
          <6> DEFINE pc == IF builder[b].left = {f} THEN "syncing" ELSE "filling"
          <6>2. builder' = [builder EXCEPT ![b] =
                   [builder[b] EXCEPT !.left = builder[b].left \ {f}, !.pc = pc]]
            BY <6>1 DEF WriteFile
          <6>3. pc # "comparing"
            OBVIOUS
          <6> HIDE DEF pc
          <6> QED BY <6>2, <6>3 DEF SwapInvariant, TypeOK
        <5> QED BY <3>1, <3>3, <5>1, <5>2, <5>3, <5>4, <5>5 DEF BuildStep
      <4> QED BY <4>1, <2>1 DEF At
    <3>4. CASE c # b
      <4>1. builder'[b] = builder[b]
        BY <3>1, <3>4, GotoOneBuilder, EndOneBuilder
           DEF BuildStep, Walk, CompareManifest, CompareFiles, Acquire, Recover, Clear,
               Create, WriteFile, Sync, MoveHome, Install, Verify, Stop, Goto, Ends,
               SwapInvariant, TypeOK
      <4> QED BY <4>1 DEF At
    <3> QED BY <3>2, <3>3, <3>4
  <2>3. CASE Corpus \/ Sweep \/ Query \/ UNCHANGED vars
    BY <2>1, <2>3 DEF Corpus, Sweep, Probe, OpenLeftover, Unlink, RemoveLeftover,
         StopSweep, Query, Plan, ReadManifest, ReadPaths, ReadWholeManifest, OpenTable,
         OpenPostings, Answer, vars
  <2> QED BY <2>2, <2>3 DEF Next
<1>2. CASE At(b, "comparing") /\ builder'[b].walk = builder[b].walk
  BY <1>2, PublishedGrows DEF ComparedIsThere
<1>3. CASE /\ CompareManifest(b) /\ builder'[b].walk = builder[b].walk
           /\ Exists("home") /\ dir["home"]["manifest"] = builder[b].walk
  <2>1. Exists(Newest) /\ Newest = "home"
    BY <1>3 DEF Newest
  <2>2. Published = builder[b].walk
    BY <1>3, <2>1, PublishedIsWhole DEF Holds, Files
  <2> QED BY <1>3, <2>1, <2>2, PublishedGrows
<1> QED BY <1>1, <1>2, <1>3

\* A query opens the files of what is published.
LEMMA HomeIsPublished ==
    ASSUME SwapInvariant, NEW f \in Files, Has("home", f)
    PROVE  Exists(Newest) /\ dir["home"][f] = Published
<1>1. Exists(Newest) /\ Newest = "home"
  BY DEF Has, Newest
<1> QED BY <1>1, PublishedIsWhole DEF Holds

\* The place of a path is the same in the same generation, whatever found it.
LEMMA SameGenerationFinds ==
    ASSUME TypeOK, NEW found \in BOOLEAN, Finds(found),
           query.paths = query.table, query.table = query.postings
    PROVE  found
BY DEF Finds

\* What a query has read stays behind what is published, and an answer follows
\* when the first and the last it has read are the same.
LEMMA ReadingGoesForward ==
    ASSUME SwapInvariant, ReadsForward, AnswersHaveTheMatch, TypeOK', Query
    PROVE  ReadsForward' /\ AnswersHaveTheMatch'
<1> USE DEF SwapInvariant
<1>1. UNCHANGED dir
  BY DEF Query, Plan, ReadManifest, ReadPaths, ReadWholeManifest, OpenTable,
         OpenPostings, Answer
<1>2. Published' = Published /\ Exists(Newest)' = Exists(Newest)
  BY <1>1 DEF Published, Newest, Exists
<1>3. \A f \in {"summary", "table", "postings", "manifest", "paths"} :
          Has("home", f) => /\ Exists(Newest) /\ dir["home"][f] = Published
                            /\ Published \in Generations
  BY HomeIsPublished, PublishedIsWhole DEF Files
<1> HIDE DEF SwapInvariant
<1>4. TypeOK
  BY DEF SwapInvariant
<1>5. CASE query' = NoQuery
  BY <1>5 DEF NoQuery, ReadsForward, AnswersHaveTheMatch
<1>6. CASE Plan
  <2>1. query'.pc = "manifest" /\ Exists("home")
    BY <1>6 DEF Plan, NoQuery
  <2>2. Exists(Newest)
    BY <2>1 DEF Newest
  <2> QED BY <1>2, <2>1, <2>2 DEF ReadsForward, AnswersHaveTheMatch
<1>7. CASE ReadManifest /\ query' # NoQuery
  <2>1. query'.pc = "paths" /\ query.pc = "manifest"
    BY <1>4, <1>7 DEF ReadManifest, Scan, TypeOK
  <2> QED BY <1>2, <2>1 DEF ReadsForward, AnswersHaveTheMatch
<1>8. CASE ReadPaths
  <2>1. CASE query' = [query EXCEPT !.pc = "reread", !.manifest = None]
    <3>1. query'.pc = "reread" /\ query.pc = "paths"
      BY <1>4, <1>8, <2>1 DEF ReadPaths, TypeOK
    <3> QED BY <1>2, <3>1 DEF ReadsForward, AnswersHaveTheMatch
  <2>2. CASE /\ Has("home", "paths")
             /\ query' = [query EXCEPT !.pc = "table", !.manifest = None,
                                       !.paths = dir["home"]["paths"]]
    <3>1. query'.pc = "table" /\ query'.paths = dir["home"]["paths"]
      BY <1>4, <2>2 DEF TypeOK
    <3> QED BY <1>2, <1>3, <2>2, <3>1 DEF ReadsForward, AnswersHaveTheMatch
  <2> QED BY <1>8, <2>1, <2>2 DEF ReadPaths
<1>9. CASE ReadWholeManifest /\ query' # NoQuery
  <2>1. /\ Has("home", "manifest")
        /\ query' = [query EXCEPT !.pc = "table", !.paths = dir["home"]["manifest"]]
    BY <1>9 DEF ReadWholeManifest, Scan
  <2>2. query'.pc = "table" /\ query'.paths = dir["home"]["manifest"]
    BY <1>4, <2>1 DEF TypeOK
  <2> QED BY <1>2, <1>3, <2>1, <2>2 DEF ReadsForward, AnswersHaveTheMatch
<1>10. CASE OpenTable /\ query' # NoQuery
  <2>1. /\ query.pc = "table" /\ Has("home", "table")
        /\ query' = [query EXCEPT !.pc = "postings", !.table = dir["home"]["table"]]
    BY <1>10 DEF OpenTable, Scan
  <2>2. /\ query'.pc = "postings" /\ query'.table = dir["home"]["table"]
        /\ query'.paths = query.paths
    BY <1>4, <2>1 DEF TypeOK
  <2> QED BY <1>2, <1>3, <2>1, <2>2 DEF ReadsForward, AnswersHaveTheMatch
<1>11. CASE OpenPostings /\ query' # NoQuery
  <2>1. /\ query.pc = "postings" /\ Has("home", "postings")
        /\ query' = [query EXCEPT !.pc = "summary", !.postings = dir["home"]["postings"]]
    BY <1>11 DEF OpenPostings, Scan
  <2>2. /\ query'.pc = "summary" /\ query'.postings = dir["home"]["postings"]
        /\ query'.paths = query.paths /\ query'.table = query.table
    BY <1>4, <2>1 DEF TypeOK
  <2> QED BY <1>2, <1>3, <2>1, <2>2 DEF ReadsForward, AnswersHaveTheMatch
<1>12. CASE Answer /\ query' # NoQuery
  <2>1. /\ query.pc = "summary" /\ Has("home", "summary")
        /\ Cardinality(dir["home"]["summary"]) = Cardinality(query.paths)
    BY <1>12 DEF Answer, Scan
  <2>2. PICK found \in BOOLEAN :
            Finds(found) /\ query' = [query EXCEPT !.pc = "answered", !.found = found]
    BY <1>12 DEF Answer, Scan
  <2>3. /\ query.paths \in Generations /\ Published \in Generations
        /\ query.paths \subseteq query.table /\ query.table \subseteq query.postings
        /\ query.postings \subseteq Published
    BY <1>3, <2>1 DEF ReadsForward
  <2>4. query.paths = Published
    BY <1>3, <2>1, <2>3, SameCount
  <2>5. found
    BY <1>4, <2>2, <2>3, <2>4, SameGenerationFinds
  <2>6. query'.pc = "answered" /\ query'.found
    BY <1>4, <2>2, <2>5 DEF TypeOK
  <2> QED BY <2>6 DEF ReadsForward, AnswersHaveTheMatch
<1> QED BY <1>5, <1>6, <1>7, <1>8, <1>9, <1>10, <1>11, <1>12 DEF Query

\* No step of another actor overtakes a query, and its own follow the order.
LEMMA AnswerStep ==
    ASSUME CountsRepeat = FALSE, SweepMeetsBuild = FALSE, SweepFindsNoHome = FALSE
    PROVE  AnswerInvariant /\ [Next]_vars => AnswerInvariant'
<1> SUFFICES ASSUME AnswerInvariant, [Next]_vars PROVE AnswerInvariant'
  OBVIOUS
<1>1. SwapInvariant'
  BY SwapStep DEF AnswerInvariant
<1>2. HolderIsNewest'
  BY <1>1, HoldersStayNewest DEF AnswerInvariant
<1>3. ComparedIsThere'
  BY ComparedStaysThere DEF AnswerInvariant
<1>4. ReadsForward' /\ AnswersHaveTheMatch'
  <2>1. CASE Query
    BY <1>1, <2>1, ReadingGoesForward DEF AnswerInvariant, SwapInvariant
  <2>2. CASE UNCHANGED query
    <3>1. Exists(Newest) => Exists(Newest)' /\ Published \subseteq Published'
      BY PublishedGrows DEF AnswerInvariant
    <3> QED BY <2>2, <3>1 DEF AnswerInvariant, ReadsForward, AnswersHaveTheMatch
  <2>3. Query \/ UNCHANGED query
    BY DEF Next, vars, Corpus, BuildStep, Walk, CompareManifest, CompareFiles,
           Acquire, Recover, Clear, Create, WriteFile, Sync, MoveHome, Install,
           Verify, Stop, Sweep, Probe, OpenLeftover, Unlink, RemoveLeftover, StopSweep
  <2> QED BY <2>1, <2>2, <2>3
<1> QED BY <1>1, <1>2, <1>3, <1>4 DEF AnswerInvariant

\* Nothing is published, compared or read.
LEMMA AnswerInit == Init => AnswerInvariant
BY SwapInit DEF Init, AnswerInvariant, HolderIsNewest, ComparedIsThere, ReadsForward,
    AnswersHaveTheMatch, Locked, NoBuild, NoQuery, At

\* An answer from the index has the match, whatever is published while it reads
\* (index_answered): a walk that is older than what is published does not get
\* published (CountsRepeat), or else the counts a query compares repeat.
THEOREM AnswersAreRight ==
    ASSUME CountsRepeat = FALSE, SweepMeetsBuild = FALSE, SweepFindsNoHome = FALSE
    PROVE  Spec => []AnswersHaveTheMatch
<1>1. AnswerInvariant /\ [Next]_vars => AnswerInvariant'
  BY AnswerStep
<1>2. AnswerInvariant => AnswersHaveTheMatch
  BY DEF AnswerInvariant
<1> QED BY <1>1, <1>2, AnswerInit, PTL DEF Spec

\* Both ways to end a build well leave its walk published.
LEMMA EndsPublished ==
    ASSUME AnswerInvariant, [Next]_vars, NEW b \in Builders,
           ~At(b, "done"), At(b, "done")'
    PROVE  Holds("home", builder[b].walk)
<1>1. TypeOK
  BY DEF AnswerInvariant, SwapInvariant
<1>2. PICK c \in Builders : BuildStep(c)
  BY DEF Next, vars, At, Corpus, Sweep, Probe, OpenLeftover, Unlink, RemoveLeftover,
         StopSweep, Query, Plan, ReadManifest, ReadPaths, ReadWholeManifest, OpenTable,
         OpenPostings, Answer
<1>3. c = b
  <2>1. c # b => builder'[b] = builder[b]
    BY <1>1, <1>2, GotoOneBuilder, EndOneBuilder
       DEF BuildStep, Walk, CompareManifest, CompareFiles, Acquire, Recover, Clear,
           Create, WriteFile, Sync, MoveHome, Install, Verify, Stop, Goto, Ends, TypeOK
  <2> QED BY <2>1 DEF At
<1>4. CASE Verify(b)
  BY <1>4 DEF AnswerInvariant, SwapInvariant, InOrder, Verify, At
<1>5. CASE CompareFiles(b)
  <2>1. At(b, "comparing") /\ Opens(builder[b].walk)
    BY <1>1, <1>5, GotoOneBuilder DEF CompareFiles, At
  <2>2. Exists("home") /\ Exists(Newest) /\ Newest = "home"
    BY <2>1 DEF Opens, Has, Newest
  <2>3. Published \in Generations /\ Holds("home", Published)
    BY <2>2, PublishedIsWhole DEF AnswerInvariant
  <2>4. Cardinality(Published) = Cardinality(builder[b].walk)
    BY <2>1, <2>3 DEF Opens, Holds, Files
  <2>5. builder[b].walk \in Generations /\ builder[b].walk \subseteq Published
    BY <1>1, <2>1 DEF AnswerInvariant, ComparedIsThere, TypeOK
  <2> QED BY <2>3, <2>4, <2>5, SameCount
<1>6. CASE ~Verify(b) /\ ~CompareFiles(b)
  <2>1. CASE Walk(b) \/ Create(b)
    <3>1. builder'[b].pc \in {"walked", "filling"}
      <4>1. CASE Walk(b)
        BY <1>1, <4>1 DEF Walk, TypeOK
      <4>2. CASE Create(b)
        BY <1>1, <4>2 DEF Create, TypeOK
      <4> QED BY <2>1, <4>1, <4>2
    <3> QED BY <3>1 DEF At
  <2>2. CASE CompareManifest(b)
    <3>1. Goto(b, "comparing") \/ Goto(b, "waiting")
      BY <2>2 DEF CompareManifest
    <3> QED BY <1>1, <3>1, GotoOneBuilder DEF At
  <2>3. CASE Acquire(b) \/ Recover(b) \/ Sync(b) \/ MoveHome(b) \/ Install(b)
    BY <1>1, <2>3, GotoOneBuilder DEF Acquire, Recover, Sync, MoveHome, Install, At
  <2>4. CASE Clear(b)
    <3>1. Cleared(builder[b].pc) # "done"
      BY <2>4 DEF Clear, Cleared
    <3>2. UNCHANGED builder \/ Goto(b, Cleared(builder[b].pc))
      BY <2>4 DEF Clear
    <3> QED BY <1>1, <3>1, <3>2, GotoOneBuilder DEF At
  <2>5. CASE \E f \in Files : WriteFile(b, f)
    <3>1. PICK f \in Files : WriteFile(b, f)
      BY <2>5
    <3> DEFINE pc == IF builder[b].left = {f} THEN "syncing" ELSE "filling"
    <3>2. builder' = [builder EXCEPT ![b] =
                         [builder[b] EXCEPT !.left = builder[b].left \ {f}, !.pc = pc]]
      BY <3>1 DEF WriteFile
    <3>3. pc # "done"
      OBVIOUS
    <3> HIDE DEF pc
    <3> QED BY <1>1, <3>2, <3>3 DEF At, TypeOK
  <2>6. CASE Stop(b)
    BY <1>1, <2>6, EndOneBuilder DEF Stop, At
  <2> QED BY <1>2, <1>3, <1>6, <2>1, <2>2, <2>3, <2>4, <2>5, <2>6 DEF BuildStep
<1> QED BY <1>4, <1>5, <1>6

\* A build that ends well leaves what it walked published, swapped in or found
\* there (refresh_index), on the same conditions.
THEOREM SuccessMeansPublished ==
    ASSUME CountsRepeat = FALSE, SweepMeetsBuild = FALSE, SweepFindsNoHome = FALSE
    PROVE  Spec => SuccessIsPublished
<1>1. AnswerInvariant /\ [Next]_vars => AnswerInvariant'
  BY AnswerStep
<1>2. AnswerInvariant /\ [Next]_vars =>
          [\A b \in Builders : ~At(b, "done") /\ At(b, "done")' =>
               Holds("home", builder[b].walk)]_vars
  BY EndsPublished
<1> QED BY <1>1, <1>2, AnswerInit, PTL DEF Spec, SuccessIsPublished
=============================================================================
