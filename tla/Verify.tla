------------------------------- MODULE Verify -------------------------------
(* How a query reports on the files it has to look at: the workers that      *)
(* search the candidates of the index (crates/eg/src/index/verify.rs) and    *)
(* the drivers of the plain search and of --files (crates/eg/src/main.rs),   *)
(* to which a query falls back when the index cannot answer                  *)
(* (readiness.rs, scan_instead).  They must agree on the exit status and on  *)
(* what is printed, and the indexed one keeps the order of the paths.        *)
(*                                                                           *)
(* A file is its position in path order, and its search an outcome:          *)
(*   "match"   has_match(), and something to print unless the run is quiet;  *)
(*   "plain"   nothing found and nothing to print;                           *)
(*   "fails"   an I/O error after some output, reported by err_message!;     *)
(*   "gone"    the snapshot has no such file (a path table that shrank), or  *)
(*             a binary file the index skipped;                              *)
(*   "panics"  the worker's thread dies.                                     *)
(* The buffers of the workers never meet a broken pipe, so a search fails    *)
(* with one only where it prints by itself (drivers "serial", "corpus").     *)
EXTENDS Integers, Sequences, FiniteSets

CONSTANTS
  Count,      \* files to report on
  Threads,    \* args.threads()
  PerWorker   \* FILES_PER_VERIFY_WORKER (24)

ASSUME VerifyAssumption ==
  Count \in Nat /\ Threads \in Nat /\ PerWorker \in Nat \ {0}

Files == 1..Count
Budget == IF Threads = 0 THEN 1 ELSE Threads
Threaded == 1..Budget

Drivers == {"buffered", "corpus", "serial", "parallel", "files", "listing"}
Sequential == {"corpus", "serial", "files"}   \* drivers of one thread
Walking == {"parallel", "listing"}            \* driven by the parallel walk
Outcomes == {"match", "plain", "fails", "gone", "panics"}

VARIABLES
  driver,     \* which of the drivers answers
  what,       \* the outcome of searching each file
  quiet,      \* --quiet
  withStats,  \* --stats
  pc,         \* where each thread stands
  at,         \* the file each thread has in hand; 0 for none
  next,       \* next_pos: files taken so far, in order
  todo,       \* files the parallel walk has not handed out
  quitting,   \* a visitor returned WalkState::Quit
  lock,       \* holder of the reorder mutex; 0 for none
  slots,      \* Reorder::slots: positions whose buffer waits
  nextEmit,   \* Reorder::next_emit: positions printed so far
  printed,    \* files whose text went out, in order
  sink,       \* standard output: "open", "broken" pipe, or "full"
  matched, errored, counted,
  channel,    \* paths sent to the printing thread of --files
  printer,    \* that thread: "on", "done", or its error
  exit        \* "none" while running, then the status of the process

flow == <<driver, what, quiet, withStats>>
walk == <<next, todo, quitting>>
reorder == <<lock, slots, nextEmit>>
facts == <<matched, errored, counted>>
list == <<channel, printer>>
vars == <<flow, pc, at, walk, reorder, printed, sink, facts, list, exit>>

-----------------------------------------------------------------------------
\* args.quit_after_match(), and the same without the condition on --quiet
QuitAfterMatchAloud == ~withStats
QuitAfterMatch == quiet /\ ~withStats

\* verify_worker_count: one worker per chunk of candidates, within the budget
WorkerCount ==
  LET wanted == Count \div PerWorker
  IN  IF wanted <= 1 THEN 1 ELSE IF wanted > Budget THEN Budget ELSE wanted

Running(d) ==
  IF d \in Sequential THEN {1}
  ELSE IF d = "buffered" THEN 1..WorkerCount ELSE Threaded

\* The search of f leaves something in the buffer
Says(f) ==
  /\ ~quiet
  /\ driver \in {"files", "listing"} \/ what[f] \in {"match", "fails"}

\* bufwtr.print and path_printer.write: an empty buffer is never written
Prints(f) == sink = "open" \/ ~Says(f)

Searched(f) == what[f] \in {"match", "plain"}

\* main: the status of a run that ended without an error of its own
Status(found) ==
  IF found /\ (quiet \/ ~errored) THEN "0" ELSE IF errored THEN "2" ELSE "1"

Init ==
  /\ driver \in Drivers
  /\ what \in [Files -> Outcomes]
  /\ \A f \in Files :
       /\ what[f] = "gone" => driver \in {"buffered", "corpus"}
       /\ what[f] = "panics" => driver = "buffered"
       /\ driver \in {"files", "listing"} => what[f] = "match"
  /\ quiet \in BOOLEAN /\ withStats \in BOOLEAN
  /\ pc = [w \in Threaded |-> IF w \in Running(driver) THEN "look" ELSE "ended"]
  /\ at = [w \in Threaded |-> 0]
  /\ next = 0 /\ todo = Files /\ quitting = FALSE
  /\ lock = 0 /\ slots = {} /\ nextEmit = 0
  /\ printed = <<>> /\ sink = "open"
  /\ matched = FALSE /\ errored = FALSE /\ counted = 0
  /\ channel = <<>> /\ printer = "on" /\ exit = "none"

\* The reader of standard output goes away, or its disk is full
SinkFails ==
  /\ exit = "none" /\ sink = "open"
  /\ sink' \in {"broken", "full"}
  /\ UNCHANGED <<flow, pc, at, walk, reorder, printed, facts, list, exit>>

Goes(w, to) == pc' = [pc EXCEPT ![w] = to]

-----------------------------------------------------------------------------
(* verify_worker: take a position, search it, hand its buffer over in order. *)

Look(w) ==
  /\ driver = "buffered" /\ pc[w] = "look"
  /\ Goes(w, IF matched /\ QuitAfterMatch THEN "ended" ELSE "take")
  /\ UNCHANGED <<flow, at, walk, reorder, printed, sink, facts, list, exit>>

\* next_pos.fetch_add
Take(w) ==
  /\ pc[w] = "take"
  /\ next' = next + 1
  /\ IF next < Count
     THEN Goes(w, "search") /\ at' = [at EXCEPT ![w] = next + 1]
     ELSE Goes(w, "ended") /\ UNCHANGED at
  /\ UNCHANGED <<flow, todo, quitting, reorder, printed, sink, facts, list, exit>>

\* verify_one
VerifyOne(w) ==
  LET f == at[w] IN
  /\ driver = "buffered" /\ pc[w] = "search"
  /\ Goes(w, IF what[f] = "panics" THEN "panicked" ELSE "record")
  /\ matched' = (matched \/ what[f] = "match")
  /\ errored' = (errored \/ what[f] = "fails")
  /\ counted' = counted + IF withStats /\ Searched(f) THEN 1 ELSE 0
  /\ UNCHANGED <<flow, at, walk, reorder, printed, sink, list, exit>>

\* Reorder::record_and_flush, the store under the mutex
Record(w) ==
  /\ pc[w] = "record" /\ lock = 0
  /\ lock' = w
  /\ slots' = slots \cup {at[w]}
  /\ Goes(w, "flush")
  /\ UNCHANGED <<flow, at, walk, nextEmit, printed, sink, facts, list, exit>>

\* The slot the flush takes next, and any slot that is filled
DueAnything == IF slots = {} THEN 0 ELSE CHOOSE f \in slots : TRUE
Due == nextEmit + 1

\* One turn of its loop: the buffer is taken from its slot before it is
\* printed, and next_emit advances only when that succeeds
Flush(w) ==
  /\ pc[w] = "flush" /\ Due \in slots
  /\ slots' = slots \ {Due}
  /\ IF Prints(Due)
     THEN /\ printed' = Append(printed, Due)
          /\ nextEmit' = nextEmit + 1
          /\ UNCHANGED <<pc, lock>>
     ELSE /\ Goes(w, sink) /\ lock' = 0
          /\ UNCHANGED <<printed, nextEmit>>
  /\ UNCHANGED <<flow, at, walk, sink, facts, list, exit>>

Flushed(w) ==
  /\ pc[w] = "flush" /\ Due \notin slots
  /\ lock' = 0
  /\ Goes(w, "look")
  /\ UNCHANGED <<flow, at, walk, slots, nextEmit, printed, sink, facts, list, exit>>

\* A thread that is through: by itself, by an error of the sink, or dead
Over == {"ended", "broken", "full", "panicked"}

\* join_verify_workers: a broken pipe is a graceful end, the rest are errors
FailureOfAThread == \E w \in Threaded : pc[w] = "panicked"
Failure == \E w \in Threaded : pc[w] \in {"full", "panicked"}

Join ==
  /\ driver = "buffered" /\ exit = "none"
  /\ \A w \in Threaded : pc[w] \in Over
  /\ exit' = IF Failure THEN "2" ELSE Status(matched)
  /\ UNCHANGED <<flow, pc, at, walk, reorder, printed, sink, facts, list>>

-----------------------------------------------------------------------------
(* search, and verify_full_corpus: one thread that prints as it searches.    *)

\* The end of the files, or a break out of the loop
Sequence(f) ==
  /\ next' = f
  /\ matched' = (matched \/ (what[f] = "match" /\ Prints(f)))
  /\ errored' = (errored \/ what[f] = "fails" \/ (Says(f) /\ sink = "full"))
  /\ counted' = counted + IF withStats /\ Searched(f) /\ Prints(f) THEN 1 ELSE 0
  /\ printed' = IF Prints(f) THEN Append(printed, f) ELSE printed

\* Leave the loop: a pipe that broke, or, in search alone, a first match
Breaks(f) ==
  \/ Says(f) /\ sink = "broken"
  \/ driver = "serial" /\ matched' /\ QuitAfterMatch

SearchNext ==
  LET f == next + 1 IN
  /\ driver \in {"serial", "corpus"} /\ pc[1] = "look" /\ next < Count
  /\ IF Says(f) /\ sink = "broken"
     THEN next' = f /\ UNCHANGED <<facts, printed>>
     ELSE Sequence(f)
  /\ IF Breaks(f) THEN Goes(1, "ended") ELSE UNCHANGED pc
  /\ UNCHANGED <<flow, at, todo, quitting, reorder, sink, list, exit>>

SearchEnds ==
  /\ driver \in {"serial", "corpus"} /\ exit = "none"
  /\ pc[1] = "ended" \/ next = Count
  /\ exit' = Status(matched)
  /\ UNCHANGED <<flow, pc, at, walk, reorder, printed, sink, facts, list>>

-----------------------------------------------------------------------------
(* search_parallel: the walk hands files to visitors in any order, and each  *)
(* prints what it found at once.                                             *)

Visit(w, f) ==
  /\ driver = "parallel" /\ pc[w] = "look" /\ ~quitting /\ f \in todo
  /\ todo' = todo \ {f}
  /\ at' = [at EXCEPT ![w] = f]
  /\ matched' = (matched \/ what[f] = "match")
  /\ errored' = (errored \/ what[f] = "fails")
  /\ counted' = counted + IF withStats /\ Searched(f) THEN 1 ELSE 0
  /\ Goes(w, IF what[f] = "fails" THEN "look" ELSE "print")
  /\ UNCHANGED <<flow, next, quitting, reorder, printed, sink, list, exit>>

PrintFound(w) ==
  LET f == at[w] IN
  /\ pc[w] = "print"
  /\ printed' = IF Prints(f) THEN Append(printed, f) ELSE printed
  /\ errored' = (errored \/ (Says(f) /\ sink = "full"))
  /\ quitting' = (quitting \/ (Says(f) /\ sink = "broken") \/ (matched /\ QuitAfterMatch))
  /\ Goes(w, "look")
  /\ UNCHANGED <<flow, at, next, todo, reorder, sink, matched, counted, list, exit>>

\* A thread of the walk finds nothing left, or is told to stop
VisitsEnd(w) ==
  /\ driver \in Walking /\ pc[w] = "look"
  /\ quitting \/ todo = {}
  /\ Goes(w, "ended")
  /\ UNCHANGED <<flow, at, walk, reorder, printed, sink, facts, list, exit>>

WalkEnds ==
  /\ driver = "parallel" /\ exit = "none"
  /\ \A w \in Threaded : pc[w] = "ended"
  /\ exit' = Status(matched)
  /\ UNCHANGED <<flow, pc, at, walk, reorder, printed, sink, facts, list>>

-----------------------------------------------------------------------------
(* files and files_parallel: paths are listed, not searched.                 *)

ListNext ==
  LET f == next + 1 IN
  /\ driver = "files" /\ exit = "none" /\ pc[1] = "look" /\ next < Count
  /\ matched' = TRUE
  /\ next' = f
  /\ IF ~QuitAfterMatch /\ Prints(f)
     THEN printed' = Append(printed, f) /\ UNCHANGED <<pc, exit>>
     ELSE /\ Goes(1, "ended")
          /\ exit' = IF ~QuitAfterMatch /\ sink = "full" THEN "2" ELSE exit
          /\ UNCHANGED printed
  /\ UNCHANGED <<flow, at, todo, quitting, reorder, sink, errored, counted, list>>

ListEnds ==
  /\ driver = "files" /\ exit = "none"
  /\ pc[1] = "ended" \/ next = Count
  /\ exit' = Status(matched)
  /\ UNCHANGED <<flow, pc, at, walk, reorder, printed, sink, facts, list>>

\* A visitor sends the path, unless the printing thread has hung up
Send(w, f) ==
  /\ driver = "listing" /\ pc[w] = "look" /\ ~quitting /\ f \in todo
  /\ todo' = todo \ {f}
  /\ matched' = TRUE
  /\ IF QuitAfterMatch \/ printer # "on"
     THEN quitting' = TRUE /\ UNCHANGED channel
     ELSE channel' = Append(channel, f) /\ UNCHANGED quitting
  /\ UNCHANGED <<flow, pc, at, next, reorder, printed, sink, errored, counted, printer, exit>>

PrintPath ==
  /\ driver = "listing" /\ printer = "on" /\ channel # <<>>
  /\ channel' = Tail(channel)
  /\ IF Prints(Head(channel))
     THEN printed' = Append(printed, Head(channel)) /\ UNCHANGED printer
     ELSE printer' = sink /\ UNCHANGED printed
  /\ UNCHANGED <<flow, pc, at, walk, reorder, sink, facts, exit>>

\* rx.iter() ends once every sender is dropped: those of the visitors with
\* the walk, and the first one, which no visitor has, by drop(tx)
SendersGoneButTheFirst == FALSE
SendersGone == \A w \in Threaded : pc[w] = "ended"

PrinterEnds ==
  /\ driver = "listing" /\ printer = "on" /\ channel = <<>> /\ SendersGone
  /\ printer' = "done"
  /\ UNCHANGED <<flow, pc, at, walk, reorder, printed, sink, facts, channel, exit>>

ListingEnds ==
  /\ driver = "listing" /\ exit = "none" /\ printer # "on"
  /\ \A w \in Threaded : pc[w] = "ended"
  /\ exit' = IF printer = "full" THEN "2" ELSE Status(matched)
  /\ UNCHANGED <<flow, pc, at, walk, reorder, printed, sink, facts, list>>

-----------------------------------------------------------------------------
Worker(w) ==
  \/ Look(w) \/ Take(w) \/ VerifyOne(w)
  \/ Record(w) \/ Flush(w) \/ Flushed(w)
  \/ \E f \in Files : Visit(w, f) \/ Send(w, f)
  \/ PrintFound(w) \/ VisitsEnd(w)

Main ==
  \/ Join \/ SearchNext \/ SearchEnds \/ WalkEnds
  \/ ListNext \/ ListEnds \/ ListingEnds

Printer == PrintPath \/ PrinterEnds

Next == SinkFails \/ Main \/ Printer \/ \E w \in Threaded : Worker(w)

\* Every thread that can go on does.  The mutex needs no more than that: each
\* worker asks for it once per file, so those before one that waits run out.
Fairness ==
  /\ WF_vars(Main) /\ WF_vars(Printer)
  /\ \A w \in Threaded : WF_vars(Worker(w))

Spec == Init /\ [][Next]_vars
FairSpec == Spec /\ Fairness

-----------------------------------------------------------------------------
PlacesOfThreads ==
  Over \cup {"look", "take", "search", "record", "flush", "print"}

TypeOK ==
  /\ driver \in Drivers
  /\ what \in [Files -> Outcomes]
  /\ quiet \in BOOLEAN /\ withStats \in BOOLEAN
  /\ pc \in [Threaded -> PlacesOfThreads]
  /\ at \in [Threaded -> 0..Count]
  /\ next \in Nat /\ todo \subseteq Files /\ quitting \in BOOLEAN
  /\ lock \in 0..Budget /\ slots \subseteq Files /\ nextEmit \in 0..Count
  /\ printed \in Seq(Files) /\ sink \in {"open", "broken", "full"}
  /\ matched \in BOOLEAN /\ errored \in BOOLEAN /\ counted \in Nat
  /\ channel \in Seq(Files) /\ printer \in {"on", "done", "broken", "full"}
  /\ exit \in {"none", "0", "1", "2"}

\* Whatever the workers' speeds, the failures of the sink and the threads that
\* die: no file is printed twice, the drivers that promise path order print in
\* it, and the indexed one prints no file before all those in front of it
\* (verify.rs, Reorder: "releases per-file output strictly in path order").
OutputInOrder ==
  /\ \A i, j \in DOMAIN printed : i # j => printed[i] # printed[j]
  /\ driver \in Sequential =>
       \A i, j \in DOMAIN printed : i < j => printed[i] < printed[j]
  /\ driver = "buffered" => \A i \in DOMAIN printed : printed[i] = i

\* What every driver should exit with, from the files alone: the index may
\* answer a query or hand it to a scan, and a script must not see which.
Expected ==
  LET found == \E f \in Files : what[f] = "match"
      failed == \E f \in Files : what[f] = "fails"
  IN  IF found /\ (quiet \/ ~failed) THEN "0" ELSE IF failed THEN "2" ELSE "1"

\* A run whose output went somewhere and whose threads lived exits with the
\* same status whichever driver answered it, however its threads were
\* scheduled and however early it stopped; and its statistics count every
\* file it searched once.
AnswerIsTheSame ==
  (exit # "none" /\ sink = "open" /\ \A f \in Files : what[f] # "panics") =>
    /\ exit = Expected
    /\ withStats /\ driver \notin {"files", "listing"} =>
         counted = Cardinality({f \in Files : Searched(f)})

\* A run that does not report an error has printed all there was to print,
\* unless the reader of its output hung up.
NothingIsLostSilently ==
  (exit \in {"0", "1"} /\ sink # "broken") =>
    \A f \in Files : Says(f) => \E i \in DOMAIN printed : printed[i] = f

\* Every run ends: a failed print, a dead thread or a closed channel leaves
\* nobody waiting.
RunsEnd == <>(exit # "none")
=============================================================================
