---------------------------- MODULE VerifyProofs ----------------------------
(* What holds of Verify for any number of files and threads: its types, the  *)
(* order of what is printed, and that a run which ends without reporting an  *)
(* error has printed all it had.  Each driver has an invariant of its own,   *)
(* on top of the types and of the places its threads can be in.              *)
EXTENDS Verify, TLAPS, FiniteSetTheorems

\* Every thread is where its driver can bring it
InPlace == \A w \in Threaded :
  /\ driver = "buffered" => pc[w] \in Over \cup {"look", "take", "search", "record", "flush"}
  /\ driver = "parallel" => pc[w] \in {"look", "print", "ended"}
  /\ driver \in Sequential \cup {"listing"} => pc[w] \in {"look", "ended"}
  /\ pc[w] \in {"search", "record", "print"} => at[w] \in Files

HasPrinted(f) == \E i \in DOMAIN printed : printed[i] = f

\* Once the process has its status nothing moves any more
Settled == exit # "none" =>
  /\ driver \in Sequential => pc[1] = "ended" \/ next >= Count
  /\ driver \notin Sequential => \A w \in Threaded : pc[w] \in Over
  /\ driver = "listing" => printer # "on"

\* The indexed driver: a position taken is printed, in its slot, in some
\* worker's hands, or lost with a worker that failed; and a buffer whose turn
\* it is waits only for a worker that is flushing.
PrintedSoFar == Len(printed) = nextEmit /\ \A i \in 1..nextEmit : printed[i] = i
FailedBySink == \A w \in Threaded : pc[w] \in {"broken", "full"} => pc[w] = sink
DueIsFlushed == Due \in slots => \E w \in Threaded : pc[w] = "flush"
InHand(f) == \E w \in Threaded : at[w] = f /\ pc[w] \in {"search", "record"}
SomeFailed == \E w \in Threaded : pc[w] \in {"broken", "full", "panicked"}
TakenIsKnown == \A f \in Files :
  f <= next => f <= nextEmit \/ f \in slots \/ InHand(f) \/ SomeFailed
FirstIsLast == pc[1] = "ended" => QuitAfterMatch \/ next >= Count

BufferedInv ==
  PrintedSoFar /\ FailedBySink /\ DueIsFlushed /\ TakenIsKnown /\ FirstIsLast

\* The drivers of one thread: what lies behind is printed, or its loss known
SequentialInv ==
  /\ next <= Count
  /\ \A i \in DOMAIN printed : printed[i] <= next
  /\ \A i, j \in DOMAIN printed : i < j => printed[i] < printed[j]
  /\ \A f \in Files : f <= next /\ Says(f) =>
       HasPrinted(f) \/ errored \/ sink = "broken" \/ exit = "2"
  /\ pc[1] = "ended" => QuitAfterMatch \/ sink = "broken" \/ exit = "2"

\* The parallel scan: a file is still to do, in a visitor's hands, printed,
\* or its loss known
Visited == \A i \in DOMAIN printed : printed[i] \notin todo
Distinct == \A i, j \in DOMAIN printed : i # j => printed[i] # printed[j]
InOneHand == \A v, w \in Threaded : pc[w] = "print" =>
  /\ at[w] \notin todo /\ ~HasPrinted(at[w])
  /\ v # w /\ pc[v] = "print" => at[v] # at[w]
VisitedIsKnown == \A f \in Files \ todo : Says(f) =>
  \/ HasPrinted(f) \/ errored \/ sink = "broken"
  \/ \E w \in Threaded : pc[w] = "print" /\ at[w] = f
StopsForAReason ==
  /\ quitting => QuitAfterMatch \/ sink = "broken"
  /\ pc[1] = "ended" => quitting \/ todo = {}

ParallelInv == Visited /\ Distinct /\ InOneHand /\ VisitedIsKnown /\ StopsForAReason

\* The listing: the same, with a channel between the visitors and the printer
SentOnce == \A i \in DOMAIN channel :
  /\ channel[i] \notin todo /\ ~HasPrinted(channel[i])
  /\ \A j \in DOMAIN channel : i # j => channel[i] # channel[j]
SentIsKnown == \A f \in Files \ todo : Says(f) =>
  \/ HasPrinted(f) \/ printer \in {"broken", "full"}
  \/ \E i \in DOMAIN channel : channel[i] = f
PrinterStands ==
  /\ printer \in {"broken", "full"} => printer = sink
  /\ printer = "done" => channel = <<>> /\ \A w \in Threaded : pc[w] = "ended"
SendersStop ==
  /\ quitting => QuitAfterMatch \/ printer \in {"broken", "full"}
  /\ pc[1] = "ended" => quitting \/ todo = {}

ListingInv ==
  Visited /\ Distinct /\ SentOnce /\ SentIsKnown /\ PrinterStands /\ SendersStop

ReportInv ==
  /\ TypeOK
  /\ InPlace
  /\ Settled
  /\ driver = "buffered" => BufferedInv
  /\ driver \in Sequential => SequentialInv
  /\ driver = "parallel" => ParallelInv
  /\ driver = "listing" => ListingInv
  /\ NothingIsLostSilently
-----------------------------------------------------------------------------
\* What the proofs use of sequences.
LEMMA AppendFacts ==
  ASSUME NEW S, NEW s \in Seq(S), NEW e \in S
  PROVE  /\ Append(s, e) \in Seq(S)
         /\ Len(Append(s, e)) = Len(s) + 1
         /\ DOMAIN Append(s, e) = 1..(Len(s) + 1)
         /\ \A i \in 1..Len(s) : Append(s, e)[i] = s[i]
         /\ Append(s, e)[Len(s) + 1] = e
         /\ Len(s) \in Nat /\ DOMAIN s = 1..Len(s)
OBVIOUS

LEMMA AppendIsTyped ==
  ASSUME NEW S, NEW s \in Seq(S), NEW e \in S, NEW t, t = Append(s, e) \/ t = s
  PROVE  t \in Seq(S)
OBVIOUS

LEMMA TailFacts ==
  ASSUME NEW S, NEW s \in Seq(S), s # <<>>
  PROVE  /\ Head(s) \in S /\ Head(s) = s[1] /\ 1 \in DOMAIN s
         /\ Tail(s) \in Seq(S)
         /\ Len(s) \in Nat \ {0} /\ DOMAIN s = 1..Len(s)
         /\ DOMAIN Tail(s) = 1..(Len(s) - 1)
         /\ \A i \in 1..(Len(s) - 1) : Tail(s)[i] = s[i + 1]
OBVIOUS

\* There is a first thread, and it runs under every driver.
LEMMA FirstThread ==
  /\ Budget \in Nat \ {0} /\ 1 \in Threaded
  /\ WorkerCount \in Nat \ {0}
  /\ \A d \in Drivers : 1 \in Running(d)
<1>1. Budget \in Nat \ {0}
  BY VerifyAssumption DEF Budget
<1>2. (Count \div PerWorker) \in Int
  BY VerifyAssumption
<1>3. WorkerCount \in Nat \ {0}
  BY <1>1, <1>2 DEF WorkerCount
<1>4. QED
  BY <1>1, <1>3 DEF Threaded, Running

-----------------------------------------------------------------------------
\* A thread that goes elsewhere keeps its type.
LEMMA GoesIsTyped ==
  ASSUME TypeOK, NEW w \in Threaded, NEW to \in PlacesOfThreads, Goes(w, to)
  PROVE  pc' \in [Threaded -> PlacesOfThreads]
BY DEF TypeOK, Goes, PlacesOfThreads

\* What a step learns of matches and errors is still a truth value, and what
\* it counts a number.
LEMMA FactsAreTyped ==
  ASSUME TypeOK, NEW P, NEW Q, NEW R,
         matched' = (matched \/ P), errored' = (errored \/ Q),
         counted' = counted + IF R THEN 1 ELSE 0
  PROVE  matched' \in BOOLEAN /\ errored' \in BOOLEAN /\ counted' \in Nat
<1>1. matched' \in BOOLEAN /\ errored' \in BOOLEAN
  BY Zenon
<1>2. counted \in Nat
  BY DEF TypeOK
<1>3. counted' \in Nat
  BY <1>2
<1> QED BY <1>1, <1>3

\* Types: one case per step.
LEMMA TypesAreKept ==
  ASSUME TypeOK, InPlace, [Next]_vars
  PROVE  TypeOK'
<1> USE VerifyAssumption, FirstThread DEF TypeOK, flow, walk, reorder, facts, list
<1>1. CASE UNCHANGED vars
  BY <1>1 DEF vars
<1>2. CASE SinkFails
  BY <1>2 DEF SinkFails
<1>3. CASE Join \/ SearchEnds \/ WalkEnds \/ ListEnds \/ ListingEnds
  BY <1>3 DEF Join, SearchEnds, WalkEnds, ListEnds, ListingEnds, Status
<1>4. CASE SearchNext
  <2> DEFINE f == next + 1
  <2>1. f \in Files
    BY <1>4 DEF SearchNext, Files
  <2>2. pc' \in [Threaded -> PlacesOfThreads]
    BY <1>4 DEF SearchNext, Goes, PlacesOfThreads, Over
  <2>3. CASE Says(f) /\ sink = "broken"
    BY <1>4, <2>2, <2>3 DEF SearchNext
  <2>4. CASE ~(Says(f) /\ sink = "broken")
    <3>1. Sequence(f)
      BY <1>4, <2>4 DEF SearchNext
    <3>2. printed' \in Seq(Files)
      BY <3>1, <2>1, AppendFacts DEF Sequence
    <3>3. matched' \in BOOLEAN /\ errored' \in BOOLEAN /\ counted' \in Nat
      BY <3>1, FactsAreTyped DEF Sequence
    <3> QED
      BY <1>4, <2>1, <2>2, <3>1, <3>2, <3>3 DEF SearchNext, Sequence
  <2> QED
    BY <2>3, <2>4
<1>5. CASE ListNext
  <2> DEFINE f == next + 1
  <2>1. f \in Files
    BY <1>5 DEF ListNext, Files
  <2>2. printed' \in Seq(Files)
    <3>1. printed' = Append(printed, f) \/ printed' = printed
      BY <1>5, Zenon DEF ListNext
    <3> QED
      BY <2>1, <3>1, AppendIsTyped
  <2>3. pc' \in [Threaded -> PlacesOfThreads] /\ exit' \in {"none", "0", "1", "2"}
    BY <1>5 DEF ListNext, Goes, PlacesOfThreads, Over
  <2> QED
    BY <1>5, <2>2, <2>3 DEF ListNext
<1>6. CASE PrintPath
  <2>1. Head(channel) \in Files /\ Tail(channel) \in Seq(Files)
    BY <1>6, TailFacts DEF PrintPath
  <2>2. printed' \in Seq(Files)
    <3>1. printed' = Append(printed, Head(channel)) \/ printed' = printed
      BY <1>6, Zenon DEF PrintPath
    <3> QED
      BY <2>1, <3>1, AppendIsTyped
  <2>3. printer' \in {"on", "done", "broken", "full"}
    BY <1>6 DEF PrintPath, Prints
  <2> QED
    BY <1>6, <2>1, <2>2, <2>3 DEF PrintPath
<1>7. CASE PrinterEnds
  BY <1>7 DEF PrinterEnds
<1>8. ASSUME NEW w \in Threaded, Worker(w) PROVE TypeOK'
  <2>1. CASE Look(w)
    BY <2>1 DEF Look, Goes, PlacesOfThreads, Over
  <2>2. CASE Take(w)
    <3>1. pc' \in [Threaded -> PlacesOfThreads]
      BY <2>2 DEF Take, Goes, PlacesOfThreads, Over
    <3>2. next' \in Nat /\ at' \in [Threaded -> 0..Count]
      BY <2>2 DEF Take
    <3> QED
      BY <2>2, <3>1, <3>2 DEF Take
  <2>3. CASE VerifyOne(w)
    <3>1. matched' \in BOOLEAN /\ errored' \in BOOLEAN /\ counted' \in Nat
      BY <2>3, FactsAreTyped DEF VerifyOne
    <3>2. pc' \in [Threaded -> PlacesOfThreads]
      BY <2>3 DEF VerifyOne, Goes, PlacesOfThreads, Over
    <3> QED
      BY <2>3, <3>1, <3>2 DEF VerifyOne
  <2>4. CASE Record(w)
    BY <2>4 DEF Record, InPlace, Goes, PlacesOfThreads, Threaded
  <2>5. CASE Flush(w)
    <3>1. Due \in Files /\ nextEmit + 1 \in 0..Count
      BY <2>5 DEF Flush, Due, Files
    <3>2. printed' \in Seq(Files)
      <4>1. printed' = Append(printed, Due) \/ printed' = printed
        BY <2>5, Zenon DEF Flush
      <4> QED
        BY <3>1, <4>1, AppendIsTyped
    <3>3. pc' \in [Threaded -> PlacesOfThreads] /\ lock' \in 0..Budget
      BY <2>5 DEF Flush, Goes, Prints, PlacesOfThreads, Over
    <3>4. nextEmit' \in 0..Count
      BY <2>5, <3>1 DEF Flush
    <3> QED
      BY <2>5, <3>2, <3>3, <3>4 DEF Flush
  <2>6. CASE Flushed(w)
    BY <2>6 DEF Flushed, Goes, PlacesOfThreads
  <2>7. ASSUME NEW f \in Files, Visit(w, f) PROVE TypeOK'
    <3>1. matched' \in BOOLEAN /\ errored' \in BOOLEAN /\ counted' \in Nat
      BY <2>7, FactsAreTyped DEF Visit
    <3>2. pc' \in [Threaded -> PlacesOfThreads]
      BY <2>7 DEF Visit, Goes, PlacesOfThreads
    <3>3. at' \in [Threaded -> 0..Count]
      BY <2>7 DEF Visit, Files
    <3> QED
      BY <2>7, <3>1, <3>2, <3>3 DEF Visit
  <2>8. ASSUME NEW f \in Files, Send(w, f) PROVE TypeOK'
    <3>1. channel' \in Seq(Files)
      <4>1. channel' = Append(channel, f) \/ channel' = channel
        BY <2>8, Zenon DEF Send
      <4> QED
        BY <4>1, AppendIsTyped
    <3> QED
      BY <2>8, <3>1 DEF Send
  <2>9. CASE PrintFound(w)
    <3>1. at[w] \in Files
      BY <2>9 DEF PrintFound, InPlace
    <3>2. printed' \in Seq(Files)
      BY <2>9, <3>1, AppendFacts DEF PrintFound
    <3>3. errored' \in BOOLEAN /\ quitting' \in BOOLEAN
      BY <2>9, Zenon DEF PrintFound
    <3>4. pc' \in [Threaded -> PlacesOfThreads]
      BY <2>9 DEF PrintFound, Goes, PlacesOfThreads
    <3> QED
      BY <2>9, <3>2, <3>3, <3>4 DEF PrintFound
  <2>10. CASE VisitsEnd(w)
    BY <2>10 DEF VisitsEnd, Goes, PlacesOfThreads, Over
  <2> QED
    BY <1>8, <2>1, <2>2, <2>3, <2>4, <2>5, <2>6, <2>7, <2>8, <2>9, <2>10 DEF Worker
<1> QED
  BY <1>1, <1>2, <1>3, <1>4, <1>5, <1>6, <1>7, <1>8 DEF Next, Main, Printer

-----------------------------------------------------------------------------
\* What each driver can do.
BufferedStep(w) ==
  Look(w) \/ Take(w) \/ VerifyOne(w) \/ Record(w) \/ Flush(w) \/ Flushed(w)

LEMMA StepsByDriver ==
  ASSUME TypeOK, InPlace, Next
  PROVE  /\ driver = "buffered" =>
              SinkFails \/ Join \/ \E w \in Threaded : BufferedStep(w)
         /\ driver \in Sequential =>
              SinkFails \/ SearchNext \/ SearchEnds \/ ListNext \/ ListEnds
         /\ driver = "parallel" =>
              \/ SinkFails \/ WalkEnds
              \/ \E w \in Threaded : PrintFound(w) \/ VisitsEnd(w) \/ \E f \in Files : Visit(w, f)
         /\ driver = "listing" =>
              \/ SinkFails \/ Printer \/ ListingEnds
              \/ \E w \in Threaded : VisitsEnd(w) \/ \E f \in Files : Send(w, f)
<1>1. CASE SinkFails
  BY <1>1
<1>2. CASE Main
  BY <1>2 DEF Main, Join, SearchNext, SearchEnds, WalkEnds, ListNext, ListEnds,
              ListingEnds, Sequential
<1>3. CASE Printer
  BY <1>3 DEF Printer, PrintPath, PrinterEnds, Sequential
<1>4. ASSUME NEW w \in Threaded, Worker(w)
      PROVE  /\ driver = "buffered" => BufferedStep(w)
             /\ driver \notin Sequential
             /\ driver = "parallel" =>
                  PrintFound(w) \/ VisitsEnd(w) \/ \E f \in Files : Visit(w, f)
             /\ driver = "listing" => VisitsEnd(w) \/ \E f \in Files : Send(w, f)
  <2>1. CASE \E f \in Files : Visit(w, f) \/ Send(w, f)
    BY <2>1 DEF Visit, Send, Sequential
  <2>2. CASE VisitsEnd(w)
    BY <2>2 DEF VisitsEnd, Walking, Sequential
  <2>3. CASE PrintFound(w)
    BY <2>3 DEF PrintFound, InPlace, Over, TypeOK, Drivers, Sequential
  <2>4. CASE BufferedStep(w)
    BY <2>4 DEF BufferedStep, Look, Take, VerifyOne, Record, Flush, Flushed, InPlace,
                TypeOK, Drivers, Sequential
  <2> QED
    BY <1>4, <2>1, <2>2, <2>3, <2>4 DEF Worker, BufferedStep
<1> QED
  BY <1>1, <1>2, <1>3, <1>4 DEF Next

\* No step changes the driver or what it is asked.
LEMMA TheQueryStays ==
  ASSUME [Next]_vars
  PROVE  UNCHANGED flow /\ \A f : Says(f)' = Says(f)
<1>1. UNCHANGED flow
  BY DEF vars, flow, Next, SinkFails, Main, Join, SearchNext, SearchEnds, WalkEnds,
         ListNext, ListEnds, ListingEnds, Printer, PrintPath, PrinterEnds, Worker, Look,
         Take, VerifyOne, Record, Flush, Flushed, Visit, PrintFound, Send, VisitsEnd
<1> QED
  BY <1>1 DEF flow, Says

\* Threads stay where their driver can bring them.
LEMMA PlacesAreKept ==
  ASSUME TypeOK, InPlace, [Next]_vars
  PROVE  InPlace'
<1>1. UNCHANGED driver
  BY TheQueryStays DEF flow
<1>2. CASE UNCHANGED <<pc, at>>
  BY <1>1, <1>2 DEF InPlace
<1>3. CASE SearchNext \/ ListNext
  BY <1>1, <1>3 DEF SearchNext, ListNext, InPlace, Goes, TypeOK, Over, Sequential
<1>4. ASSUME NEW w \in Threaded, Worker(w)
      PROVE  InPlace'
  <2>1. CASE \E f \in Files : Visit(w, f) \/ Send(w, f)
    BY <1>1, <2>1 DEF Visit, Send, InPlace, Goes, TypeOK, Sequential
  <2>2. CASE VisitsEnd(w)
    BY <1>1, <2>2 DEF VisitsEnd, InPlace, Goes, TypeOK, Walking, Sequential
  <2>3. CASE PrintFound(w)
    BY <1>1, <2>3 DEF PrintFound, InPlace, Goes, TypeOK, Over, Sequential, Drivers
  <2>4. CASE BufferedStep(w)
    <3>1. driver = "buffered"
      BY <2>4 DEF BufferedStep, Look, Take, VerifyOne, Record, Flush, Flushed, InPlace,
                  TypeOK, Drivers, Sequential
    <3>2. CASE Take(w)
      <4>1. CASE next < Count
        <5>1. pc' = [pc EXCEPT ![w] = "search"] /\ at' = [at EXCEPT ![w] = next + 1]
          BY <3>2, <4>1 DEF Take, Goes
        <5>2. next + 1 \in Files
          BY <4>1, VerifyAssumption DEF TypeOK, Files
        <5> QED
          BY <1>1, <3>1, <5>1, <5>2 DEF InPlace, TypeOK, Sequential
      <4>2. CASE ~(next < Count)
        <5>1. pc' = [pc EXCEPT ![w] = "ended"] /\ at' = at
          BY <3>2, <4>2 DEF Take, Goes
        <5> QED
          BY <1>1, <3>1, <5>1 DEF InPlace, TypeOK, Sequential, Over
      <4> QED
        BY <4>1, <4>2
    <3>3. CASE Look(w)
      BY <1>1, <3>1, <3>3 DEF Look, InPlace, Goes, TypeOK, Over, Sequential
    <3>4. CASE VerifyOne(w)
      BY <1>1, <3>1, <3>4 DEF VerifyOne, InPlace, Goes, TypeOK, Over, Sequential
    <3>5. CASE Record(w)
      <4>1. pc' = [pc EXCEPT ![w] = "flush"] /\ at' = at
        BY <3>5 DEF Record, Goes
      <4> QED
        BY <1>1, <3>1, <4>1 DEF InPlace, TypeOK, Sequential
    <3>7. CASE Flushed(w)
      <4>1. pc' = [pc EXCEPT ![w] = "look"] /\ at' = at
        BY <3>7 DEF Flushed, Goes
      <4> QED
        BY <1>1, <3>1, <4>1 DEF InPlace, TypeOK, Sequential
    <3>6. CASE Flush(w)
      BY <1>1, <3>1, <3>6 DEF Flush, InPlace, Goes, TypeOK, Over, Sequential, Prints
    <3> QED
      BY <2>4, <3>2, <3>3, <3>4, <3>5, <3>6, <3>7 DEF BufferedStep
  <2> QED
    BY <1>4, <2>1, <2>2, <2>3, <2>4 DEF Worker, BufferedStep
<1>5. CASE SinkFails \/ Join \/ SearchEnds \/ WalkEnds \/ ListEnds \/ ListingEnds \/ Printer
  BY <1>2, <1>5 DEF SinkFails, Join, SearchEnds, WalkEnds, ListEnds, ListingEnds, Printer,
                    PrintPath, PrinterEnds
<1>6. CASE UNCHANGED vars
  BY <1>2, <1>6 DEF vars
<1> QED
  BY <1>3, <1>4, <1>5, <1>6 DEF Next, Main

\* A process that has its status does nothing more.
LEMMA DoneIsDone ==
  ASSUME TypeOK, InPlace, Settled, Next
  PROVE  exit = "none"
<1> SUFFICES ASSUME exit # "none" PROVE FALSE
  OBVIOUS
<1>1. CASE driver = "buffered"
  <2>1. \A w \in Threaded : pc[w] \in Over
    BY <1>1 DEF Settled, Sequential
  <2> QED
    BY <1>1, <2>1, StepsByDriver DEF SinkFails, Join, BufferedStep, Look, Take, VerifyOne,
       Record, Flush, Flushed, Over
<1>2. CASE driver \in Sequential
  <2>1. pc[1] = "ended" \/ next >= Count
    BY <1>2 DEF Settled
  <2>2. next \in Nat /\ Count \in Nat
    BY VerifyAssumption DEF TypeOK
  <2> QED
    <3>1. ~SinkFails /\ ~SearchEnds /\ ~ListEnds /\ ~ListNext
      BY DEF SinkFails, SearchEnds, ListNext, ListEnds
    <3>2. ~SearchNext
      BY <2>1, <2>2 DEF SearchNext
    <3> QED
      BY <1>2, <3>1, <3>2, StepsByDriver
<1>3. CASE driver = "parallel"
  <2>1. \A w \in Threaded : pc[w] \in Over
    BY <1>3 DEF Settled, Sequential
  <2> QED
    BY <1>3, <2>1, StepsByDriver DEF SinkFails, WalkEnds, PrintFound, VisitsEnd, Visit, Over
<1>4. CASE driver = "listing"
  <2>1. (\A w \in Threaded : pc[w] \in Over) /\ printer # "on"
    BY <1>4 DEF Settled, Sequential
  <2> QED
    BY <1>4, <2>1, StepsByDriver DEF SinkFails, ListingEnds, Printer, PrintPath, PrinterEnds,
       VisitsEnd, Send, Over
<1> QED
  BY <1>1, <1>2, <1>3, <1>4, VerifyAssumption DEF TypeOK, Drivers, Sequential

\* Only what ends a run gives it a status.
LEMMA StatusComesLast ==
  ASSUME TypeOK, InPlace, Settled, Next, exit' # "none"
  PROVE  Join \/ SearchEnds \/ WalkEnds \/ ListNext \/ ListEnds \/ ListingEnds
<1>1. exit = "none"
  BY DoneIsDone
<1> QED
  BY <1>1 DEF Next, SinkFails, Main, SearchNext, Printer, PrintPath, PrinterEnds, Worker, Look,
         Take, VerifyOne, Record, Flush, Flushed, Visit, PrintFound, Send, VisitsEnd

LEMMA SettledIsKept ==
  ASSUME TypeOK, InPlace, Settled, Next
  PROVE  Settled'
<1> SUFFICES ASSUME exit' # "none" PROVE Settled'
  BY DEF Settled
<1>1. CASE Join
  BY <1>1 DEF Join, Settled, Sequential, flow, list
<1>2. CASE SearchEnds \/ ListEnds
  BY <1>2 DEF SearchEnds, ListEnds, Settled, Sequential, flow, list, walk, TypeOK
<1>3. CASE WalkEnds
  BY <1>3 DEF WalkEnds, Settled, Sequential, flow, list, Over
<1>4. CASE ListingEnds
  BY <1>4 DEF ListingEnds, Settled, Sequential, flow, list, Over
<1>5. CASE ListNext
  <2>1. exit = "none"
    BY DoneIsDone
  <2>2. pc' = [pc EXCEPT ![1] = "ended"] /\ driver' = driver /\ driver = "files"
    BY <1>5, <2>1 DEF ListNext, Goes, flow
  <2> QED
    BY <2>2, FirstThread DEF Settled, Sequential, TypeOK
<1> QED
  BY <1>1, <1>2, <1>3, <1>4, <1>5, StatusComesLast

-----------------------------------------------------------------------------
\* The indexed driver.
LEMMA BufferedIsKept ==
  ASSUME TypeOK, InPlace, BufferedInv, driver = "buffered", Next
  PROVE  BufferedInv'
<1>q. QuitAfterMatch' = QuitAfterMatch
  BY TheQueryStays DEF flow, QuitAfterMatch
<1>n. /\ next \in Nat /\ nextEmit \in 0..Count /\ Count \in Nat /\ 1 \in Threaded
      /\ slots \subseteq Files
      /\ printed \in Seq(Files)
      /\ pc \in [Threaded -> PlacesOfThreads] /\ at \in [Threaded -> 0..Count]
  BY VerifyAssumption, FirstThread DEF TypeOK
<1> USE DEF BufferedInv, walk, reorder
<1>1. CASE SinkFails
  BY <1>1, <1>q DEF SinkFails, PrintedSoFar, FailedBySink, DueIsFlushed, TakenIsKnown,
     FirstIsLast, InHand, SomeFailed, Due
<1>2. CASE Join
  BY <1>2, <1>q DEF Join, PrintedSoFar, FailedBySink, DueIsFlushed, TakenIsKnown,
     FirstIsLast, InHand, SomeFailed, Due
<1>3. ASSUME NEW w \in Threaded, BufferedStep(w)
      PROVE  BufferedInv'
  <2>1. CASE Look(w)
    <3>1. /\ pc[w] = "look"
          /\ \/ pc' = [pc EXCEPT ![w] = "take"]
             \/ pc' = [pc EXCEPT ![w] = "ended"] /\ QuitAfterMatch
          /\ UNCHANGED <<at, next, slots, nextEmit, printed, sink>>
      BY <2>1 DEF Look, Goes
    <3>2. FailedBySink' /\ FirstIsLast' /\ PrintedSoFar'
      BY <3>1, <1>n, <1>q DEF FailedBySink, FirstIsLast, PrintedSoFar
    <3>3. DueIsFlushed'
      BY <3>1, <1>n DEF DueIsFlushed, Due
    <3>4. TakenIsKnown'
      BY <3>1, <1>n DEF TakenIsKnown, InHand, SomeFailed
    <3> QED
      BY <3>2, <3>3, <3>4
  <2>2. CASE Take(w)
    <3>1. /\ pc[w] = "take" /\ next' = next + 1
          /\ \/ /\ next < Count
                /\ pc' = [pc EXCEPT ![w] = "search"] /\ at' = [at EXCEPT ![w] = next + 1]
             \/ next >= Count /\ pc' = [pc EXCEPT ![w] = "ended"] /\ at' = at
          /\ UNCHANGED <<slots, nextEmit, printed, sink>>
      BY <2>2, <1>n DEF Take, Goes
    <3>2. FailedBySink' /\ PrintedSoFar'
      BY <3>1, <1>n DEF FailedBySink, PrintedSoFar
    <3>3. FirstIsLast'
      BY <3>1, <1>n, <1>q DEF FirstIsLast
    <3>4. DueIsFlushed'
      BY <3>1, <1>n DEF DueIsFlushed, Due
    <3>5. SomeFailed => SomeFailed'
      BY <3>1, <1>n DEF SomeFailed
    <3>6. ASSUME NEW f \in Files, f <= next'
          PROVE  f <= nextEmit' \/ f \in slots' \/ InHand(f)' \/ SomeFailed'
      <4>1. CASE f <= next
        <5>1. InHand(f) => InHand(f)'
          BY <3>1, <1>n DEF InHand
        <5>2. f <= nextEmit \/ f \in slots \/ InHand(f) \/ SomeFailed
          BY <4>1 DEF TakenIsKnown
        <5>3. UNCHANGED <<slots, nextEmit>>
          BY <3>1
        <5> QED
          BY <5>1, <5>2, <5>3, <3>5
      <4>2. CASE ~(f <= next)
        <5>1. f = next + 1 /\ next < Count
          BY <4>2, <3>1, <3>6, <1>n DEF Files
        <5>2. at'[w] = f /\ pc'[w] = "search"
          BY <5>1, <3>1, <1>n
        <5> QED
          BY <5>2 DEF InHand
      <4> QED
        BY <4>1, <4>2
    <3>7. TakenIsKnown'
      BY <3>6 DEF TakenIsKnown, Files
    <3> QED
      BY <3>2, <3>3, <3>4, <3>7
  <2>3. CASE VerifyOne(w)
    <3>1. /\ pc[w] = "search"
          /\ \/ pc' = [pc EXCEPT ![w] = "panicked"]
             \/ pc' = [pc EXCEPT ![w] = "record"]
          /\ UNCHANGED <<at, next, slots, nextEmit, printed, sink>>
      BY <2>3 DEF VerifyOne, Goes
    <3>2. FailedBySink' /\ FirstIsLast' /\ PrintedSoFar'
      BY <3>1, <1>n, <1>q DEF FailedBySink, FirstIsLast, PrintedSoFar
    <3>3. DueIsFlushed'
      BY <3>1, <1>n DEF DueIsFlushed, Due
    <3>4. TakenIsKnown'
      BY <3>1, <1>n DEF TakenIsKnown, InHand, SomeFailed
    <3> QED
      BY <3>2, <3>3, <3>4
  <2>4. CASE Record(w)
    <3>1. /\ pc[w] = "record" /\ pc' = [pc EXCEPT ![w] = "flush"]
          /\ slots' = slots \cup {at[w]}
          /\ UNCHANGED <<at, next, nextEmit, printed, sink>>
      BY <2>4 DEF Record, Goes
    <3>2. FailedBySink' /\ FirstIsLast' /\ PrintedSoFar'
      BY <3>1, <1>n, <1>q DEF FailedBySink, FirstIsLast, PrintedSoFar
    <3>3. DueIsFlushed'
      BY <3>1, <1>n DEF DueIsFlushed, Due
    <3>4. TakenIsKnown'
      BY <3>1, <1>n DEF TakenIsKnown, InHand, SomeFailed
    <3> QED
      BY <3>2, <3>3, <3>4
  <2>5. CASE Flush(w)
    <3>1. /\ pc[w] = "flush" /\ Due \in slots /\ slots' = slots \ {Due}
          /\ UNCHANGED <<at, next, sink>>
      BY <2>5 DEF Flush
    <3>2. Due = nextEmit + 1 /\ Due \in Files
      BY <3>1, <1>n DEF Due
    <3>3. CASE Prints(Due)
      <4>1. printed' = Append(printed, Due) /\ nextEmit' = nextEmit + 1 /\ pc' = pc
        BY <2>5, <3>3 DEF Flush
      <4>2. PrintedSoFar'
        <5>1. /\ Len(printed') = Len(printed) + 1
              /\ \A i \in 1..Len(printed) : printed'[i] = printed[i]
              /\ printed'[Len(printed) + 1] = Due
          BY <4>1, <3>2, <1>n, AppendFacts
        <5> QED
          BY <5>1, <4>1, <3>2, <1>n DEF PrintedSoFar
      <4>3. FailedBySink' /\ FirstIsLast' /\ DueIsFlushed'
        BY <3>1, <4>1, <1>q DEF FailedBySink, FirstIsLast, DueIsFlushed
      <4>4. TakenIsKnown'
        BY <3>1, <3>2, <4>1, <1>n DEF TakenIsKnown, InHand, SomeFailed, Files
      <4> QED
        BY <4>2, <4>3, <4>4
    <3>4. CASE ~Prints(Due)
      <4>1. /\ pc' = [pc EXCEPT ![w] = sink] /\ printed' = printed /\ nextEmit' = nextEmit
            /\ sink \in {"broken", "full"}
        BY <2>5, <3>4 DEF Flush, Goes, Prints, TypeOK
      <4>2. PrintedSoFar' /\ FirstIsLast' /\ FailedBySink'
        BY <3>1, <4>1, <1>n, <1>q DEF PrintedSoFar, FirstIsLast, FailedBySink
      <4>3. DueIsFlushed'
        BY <3>1, <4>1 DEF DueIsFlushed, Due
      <4>4. TakenIsKnown'
        BY <3>1, <4>1, <1>n DEF TakenIsKnown, SomeFailed
      <4> QED
        BY <4>2, <4>3, <4>4
    <3> QED
      BY <3>3, <3>4
  <2>6. CASE Flushed(w)
    <3>1. /\ pc[w] = "flush" /\ pc' = [pc EXCEPT ![w] = "look"] /\ Due \notin slots
          /\ UNCHANGED <<at, next, slots, nextEmit, printed, sink>>
      BY <2>6 DEF Flushed, Goes
    <3>2. FailedBySink' /\ FirstIsLast' /\ PrintedSoFar'
      BY <3>1, <1>n, <1>q DEF FailedBySink, FirstIsLast, PrintedSoFar
    <3>3. DueIsFlushed'
      BY <3>1, <1>n DEF DueIsFlushed, Due
    <3>4. TakenIsKnown'
      BY <3>1, <1>n DEF TakenIsKnown, InHand, SomeFailed
    <3> QED
      BY <3>2, <3>3, <3>4
  <2> QED
    BY <1>3, <2>1, <2>2, <2>3, <2>4, <2>5, <2>6 DEF BufferedStep
<1> QED
  BY <1>1, <1>2, <1>3, StepsByDriver

-----------------------------------------------------------------------------
\* What a print adds to the files that have been printed.
LEMMA PrintedGrows ==
  ASSUME printed \in Seq(Files), NEW f \in Files, printed' = Append(printed, f)
  PROVE  /\ HasPrinted(f)'
         /\ \A g : HasPrinted(g)' <=> HasPrinted(g) \/ g = f
         /\ Len(printed) \in Nat
         /\ DOMAIN printed = 1..Len(printed) /\ DOMAIN printed' = 1..(Len(printed) + 1)
         /\ \A i \in 1..Len(printed) : printed'[i] = printed[i]
         /\ printed'[Len(printed) + 1] = f
<1>1. /\ Len(printed) \in Nat
      /\ DOMAIN printed = 1..Len(printed) /\ DOMAIN printed' = 1..(Len(printed) + 1)
      /\ \A i \in 1..Len(printed) : printed'[i] = printed[i]
      /\ printed'[Len(printed) + 1] = f
  BY AppendFacts
<1>2. \A g : HasPrinted(g)' <=> HasPrinted(g) \/ g = f
  BY <1>1 DEF HasPrinted
<1> QED
  BY <1>1, <1>2

\* The drivers of one thread.
LEMMA SequentialIsKept ==
  ASSUME TypeOK, InPlace, SequentialInv, driver \in Sequential, Next
  PROVE  SequentialInv'
<1>q. QuitAfterMatch' = QuitAfterMatch /\ \A f : Says(f)' = Says(f)
  BY TheQueryStays DEF flow, QuitAfterMatch
<1>n. /\ next \in Nat /\ Count \in Nat /\ 1 \in Threaded
      /\ printed \in Seq(Files)
      /\ DOMAIN printed \subseteq Int /\ \A i \in DOMAIN printed : printed[i] \in Int
      /\ pc \in [Threaded -> PlacesOfThreads]
  BY VerifyAssumption, FirstThread DEF TypeOK, Files
<1> USE DEF SequentialInv
<1>1. CASE SinkFails
  BY <1>1, <1>q DEF SinkFails, walk, facts, HasPrinted
<1>2. CASE SearchEnds \/ ListEnds
  BY <1>2, <1>q DEF SearchEnds, ListEnds, walk, facts, HasPrinted
<1>3. ASSUME NEW f \in Files, f = next + 1, next' = f, UNCHANGED sink,
             \/ printed' = Append(printed, f)
             \/ printed' = printed /\ (~Says(f) \/ errored' \/ sink = "broken" \/ exit' = "2"),
             errored => errored', exit = "2" => exit' = "2",
             \/ UNCHANGED pc
             \/ /\ pc' = [pc EXCEPT ![1] = "ended"]
                /\ QuitAfterMatch \/ sink = "broken" \/ exit' = "2"
      PROVE  SequentialInv'
  <2>1. next' <= Count
    BY <1>3, <1>n DEF Files
  <2>2. pc'[1] = "ended" => QuitAfterMatch' \/ sink' = "broken" \/ exit' = "2"
    BY <1>3, <1>n, <1>q
  <2>3. CASE printed' = Append(printed, f)
    BY <2>1, <2>2, <2>3, <1>3, <1>n, <1>q, PrintedGrows
  <2>4. CASE printed' = printed /\ (~Says(f) \/ errored' \/ sink = "broken" \/ exit' = "2")
    BY <2>1, <2>2, <2>4, <1>3, <1>n, <1>q DEF HasPrinted
  <2> QED
    BY <1>3, <2>3, <2>4
<1>4. CASE SearchNext
  <2> DEFINE f == next + 1
  <2>1. f \in Files /\ next' = f /\ UNCHANGED <<sink, exit>>
    BY <1>4, <1>n DEF SearchNext, Sequence, Files
  <2>2. \/ printed' = Append(printed, f)
        \/ printed' = printed /\ (~Says(f) \/ errored' \/ sink = "broken" \/ exit' = "2")
    BY <1>4 DEF SearchNext, Sequence, Prints, TypeOK
  <2>3. errored => errored'
    BY <1>4 DEF SearchNext, Sequence, facts
  <2>4. \/ UNCHANGED pc
        \/ /\ pc' = [pc EXCEPT ![1] = "ended"]
           /\ QuitAfterMatch \/ sink = "broken" \/ exit' = "2"
    BY <1>4 DEF SearchNext, Breaks, Goes
  <2> QED
    BY <2>1, <2>2, <2>3, <2>4, <1>3
<1>5. CASE ListNext
  <2> DEFINE f == next + 1
  <2>1. f \in Files /\ next' = f /\ UNCHANGED <<sink, errored>> /\ exit = "none"
    BY <1>5, <1>n DEF ListNext, Files
  <2>2. CASE ~QuitAfterMatch /\ Prints(f)
    BY <1>5, <2>1, <2>2, <1>3 DEF ListNext
  <2>3. CASE QuitAfterMatch
    <3>1. ~Says(f)
      BY <2>3 DEF QuitAfterMatch, Says
    <3> QED
      BY <1>5, <2>1, <2>3, <3>1, <1>3 DEF ListNext, Goes
  <2>4. CASE ~QuitAfterMatch /\ ~Prints(f)
    <3>1. sink = "broken" \/ exit' = "2"
      BY <1>5, <2>4 DEF ListNext, Prints, TypeOK
    <3> QED
      BY <1>5, <2>1, <2>4, <3>1, <1>3 DEF ListNext, Goes
  <2> QED
    BY <2>2, <2>3, <2>4
<1> QED
  BY <1>1, <1>2, <1>4, <1>5, StepsByDriver

-----------------------------------------------------------------------------
\* The parallel scan.
LEMMA ParallelIsKept ==
  ASSUME TypeOK, InPlace, ParallelInv, driver = "parallel", Next
  PROVE  ParallelInv'
<1>q. QuitAfterMatch' = QuitAfterMatch /\ \A f : Says(f)' = Says(f)
  BY TheQueryStays DEF flow, QuitAfterMatch
<1>n. /\ 1 \in Threaded /\ printed \in Seq(Files)
      /\ pc \in [Threaded -> PlacesOfThreads] /\ at \in [Threaded -> 0..Count]
  BY FirstThread DEF TypeOK
<1> USE DEF ParallelInv
<1>1. CASE SinkFails
  BY <1>1, <1>q DEF SinkFails, walk, facts, HasPrinted, Visited, Distinct,
     InOneHand, VisitedIsKnown, StopsForAReason
<1>2. CASE WalkEnds
  BY <1>2, <1>q DEF WalkEnds, walk, facts, HasPrinted, Visited, Distinct,
     InOneHand, VisitedIsKnown, StopsForAReason
<1>3. ASSUME NEW w \in Threaded, VisitsEnd(w)
      PROVE  ParallelInv'
  <2>1. /\ pc[w] = "look" /\ pc' = [pc EXCEPT ![w] = "ended"] /\ (quitting \/ todo = {})
        /\ UNCHANGED <<at, todo, quitting, printed, sink, errored>>
    BY <1>3 DEF VisitsEnd, Goes, walk, facts
  <2>2. Visited' /\ Distinct' /\ StopsForAReason'
    BY <2>1, <1>n, <1>q DEF Visited, Distinct, StopsForAReason
  <2>3. InOneHand' /\ VisitedIsKnown'
    BY <2>1, <1>n, <1>q DEF InOneHand, VisitedIsKnown, HasPrinted
  <2> QED
    BY <2>2, <2>3
<1>4. ASSUME NEW w \in Threaded, NEW f \in Files, Visit(w, f)
      PROVE  ParallelInv'
  <2>1. /\ pc[w] = "look" /\ f \in todo /\ todo' = todo \ {f} /\ ~quitting
        /\ at' = [at EXCEPT ![w] = f]
        /\ errored => errored'
        /\ \/ pc' = [pc EXCEPT ![w] = "print"]
           \/ pc' = [pc EXCEPT ![w] = "look"] /\ errored'
        /\ UNCHANGED <<quitting, printed, sink>>
    BY <1>4 DEF Visit, Goes
  <2>2. ~HasPrinted(f)
    BY <2>1 DEF HasPrinted, Visited
  <2>3. Visited' /\ Distinct' /\ StopsForAReason'
    BY <2>1, <1>n, <1>q DEF Visited, Distinct, StopsForAReason
  <2>4. InOneHand'
    BY <2>1, <2>2, <1>n DEF InOneHand, HasPrinted
  <2>5. VisitedIsKnown'
    BY <2>1, <1>n, <1>q DEF VisitedIsKnown, HasPrinted
  <2> QED
    BY <2>3, <2>4, <2>5
<1>5. ASSUME NEW w \in Threaded, PrintFound(w)
      PROVE  ParallelInv'
  <2> DEFINE f == at[w]
  <2>1. /\ pc[w] = "print" /\ pc' = [pc EXCEPT ![w] = "look"]
        /\ errored => errored'
        /\ quitting' => quitting \/ sink = "broken" \/ QuitAfterMatch
        /\ quitting => quitting'
        /\ UNCHANGED <<at, todo, sink>>
    BY <1>5 DEF PrintFound, Goes
  <2>2. f \in Files
    BY <2>1 DEF InPlace
  <2>3. CASE Prints(f)
    <3>1. printed' = Append(printed, f)
      BY <1>5, <2>3 DEF PrintFound
    <3>2. /\ \A g : HasPrinted(g)' <=> HasPrinted(g) \/ g = f
          /\ Len(printed) \in Nat
          /\ DOMAIN printed = 1..Len(printed) /\ DOMAIN printed' = 1..(Len(printed) + 1)
          /\ \A i \in 1..Len(printed) : printed'[i] = printed[i]
          /\ printed'[Len(printed) + 1] = f
      BY <2>2, <3>1, <1>n, PrintedGrows
    <3>3. f \notin todo /\ ~HasPrinted(f)
      BY <2>1 DEF InOneHand
    <3>4. Visited' /\ Distinct'
      BY <2>1, <3>2, <3>3 DEF Visited, Distinct, HasPrinted
    <3>5. InOneHand'
      BY <2>1, <3>2, <3>3, <1>n DEF InOneHand
    <3>6. VisitedIsKnown'
      BY <2>1, <3>2, <1>n, <1>q DEF VisitedIsKnown
    <3>7. StopsForAReason'
      BY <2>1, <1>n, <1>q DEF StopsForAReason
    <3> QED
      BY <3>4, <3>5, <3>6, <3>7
  <2>4. CASE ~Prints(f)
    <3>1. printed' = printed /\ (errored' \/ sink = "broken")
      BY <1>5, <2>4 DEF PrintFound, Prints, TypeOK
    <3>2. Visited' /\ Distinct' /\ StopsForAReason'
      BY <2>1, <3>1, <1>n, <1>q DEF Visited, Distinct, StopsForAReason
    <3>3. InOneHand'
      BY <2>1, <3>1, <1>n DEF InOneHand, HasPrinted
    <3>4. VisitedIsKnown'
      BY <2>1, <3>1, <1>n, <1>q DEF VisitedIsKnown, HasPrinted
    <3> QED
      BY <3>2, <3>3, <3>4
  <2> QED
    BY <2>3, <2>4
<1> QED
  BY <1>1, <1>2, <1>3, <1>4, <1>5, StepsByDriver

-----------------------------------------------------------------------------
\* The parallel listing.
LEMMA ListingIsKept ==
  ASSUME TypeOK, InPlace, ListingInv, driver = "listing", Next
  PROVE  ListingInv'
<1>q. QuitAfterMatch' = QuitAfterMatch /\ \A f : Says(f)' = Says(f)
  BY TheQueryStays DEF flow, QuitAfterMatch
<1>n. /\ 1 \in Threaded /\ printed \in Seq(Files) /\ channel \in Seq(Files)
      /\ pc \in [Threaded -> PlacesOfThreads]
      /\ printer \in {"on", "done", "broken", "full"}
      /\ sink \in {"open", "broken", "full"}
  BY FirstThread DEF TypeOK
<1> USE DEF ListingInv, walk, list
<1>1. CASE SinkFails
  BY <1>1, <1>q, <1>n DEF SinkFails, HasPrinted, Visited, Distinct, SentOnce, SentIsKnown,
     PrinterStands, SendersStop
<1>2. CASE ListingEnds
  BY <1>2, <1>q DEF ListingEnds, HasPrinted, Visited, Distinct, SentOnce, SentIsKnown,
     PrinterStands, SendersStop
<1>3. CASE PrinterEnds
  BY <1>3, <1>q DEF PrinterEnds, SendersGone, HasPrinted, Visited, Distinct, SentOnce,
     SentIsKnown, PrinterStands, SendersStop
<1>4. ASSUME NEW w \in Threaded, VisitsEnd(w)
      PROVE  ListingInv'
  <2>1. /\ pc[w] = "look" /\ pc' = [pc EXCEPT ![w] = "ended"] /\ (quitting \/ todo = {})
        /\ UNCHANGED <<todo, quitting, printed, sink, channel, printer>>
    BY <1>4 DEF VisitsEnd, Goes
  <2>2. Visited' /\ Distinct' /\ PrinterStands' /\ SendersStop'
    BY <2>1, <1>n, <1>q DEF Visited, Distinct, PrinterStands, SendersStop
  <2>3. SentOnce' /\ SentIsKnown'
    BY <2>1, <1>q DEF SentOnce, SentIsKnown, HasPrinted
  <2> QED
    BY <2>2, <2>3
<1>5. ASSUME NEW w \in Threaded, NEW f \in Files, Send(w, f)
      PROVE  ListingInv'
  <2>1. /\ pc[w] = "look" /\ f \in todo /\ todo' = todo \ {f}
        /\ UNCHANGED <<pc, printed, sink, printer>>
    BY <1>5 DEF Send
  <2>2. ~HasPrinted(f) /\ \A i \in DOMAIN channel : channel[i] # f
    BY <2>1 DEF HasPrinted, Visited, SentOnce
  <2>3. printer # "done"
    BY <2>1 DEF PrinterStands
  <2>4. Visited' /\ Distinct'
    BY <2>1 DEF Visited, Distinct
  <2>5. CASE QuitAfterMatch \/ printer # "on"
    <3>1. quitting' = TRUE /\ channel' = channel
      BY <1>5, <2>5 DEF Send
    <3>2. QuitAfterMatch => ~Says(f)
      BY DEF QuitAfterMatch, Says
    <3>3. SentOnce' /\ PrinterStands' /\ SendersStop'
      BY <2>1, <2>3, <2>5, <3>1, <1>n, <1>q DEF SentOnce, PrinterStands, SendersStop, HasPrinted
    <3>4. SentIsKnown'
      BY <2>1, <2>3, <2>5, <3>1, <3>2, <1>n, <1>q DEF SentIsKnown, HasPrinted
    <3> QED
      BY <2>4, <3>3, <3>4
  <2>6. CASE ~(QuitAfterMatch \/ printer # "on")
    <3>1. quitting' = quitting /\ channel' = Append(channel, f)
      BY <1>5, <2>6 DEF Send
    <3>2. /\ Len(channel) \in Nat
          /\ DOMAIN channel = 1..Len(channel) /\ DOMAIN channel' = 1..(Len(channel) + 1)
          /\ \A i \in 1..Len(channel) : channel'[i] = channel[i]
          /\ channel'[Len(channel) + 1] = f
      BY <3>1, <1>n, AppendFacts
    <3>3. SentOnce'
      BY <2>1, <2>2, <3>2 DEF SentOnce, HasPrinted
    <3>4. PrinterStands' /\ SendersStop'
      BY <2>1, <2>6, <3>1, <1>n, <1>q DEF PrinterStands, SendersStop
    <3>5. SentIsKnown'
      BY <2>1, <3>2, <1>q DEF SentIsKnown, HasPrinted
    <3> QED
      BY <2>4, <3>3, <3>4, <3>5
  <2> QED
    BY <2>5, <2>6
<1>6. CASE PrintPath
  <2> DEFINE f == Head(channel)
  <2>1. /\ channel # <<>> /\ channel' = Tail(channel) /\ printer = "on"
        /\ UNCHANGED <<pc, todo, quitting, sink>>
    BY <1>6 DEF PrintPath
  <2>2. /\ f \in Files /\ f = channel[1] /\ 1 \in DOMAIN channel
        /\ Len(channel) \in Nat \ {0} /\ DOMAIN channel = 1..Len(channel)
        /\ DOMAIN channel' = 1..(Len(channel) - 1)
        /\ \A i \in 1..(Len(channel) - 1) : channel'[i] = channel[i + 1]
    BY <2>1, <1>n, TailFacts
  <2>3. f \notin todo /\ ~HasPrinted(f)
    BY <2>2 DEF SentOnce
  <2>4. CASE Prints(f)
    <3>1. printed' = Append(printed, f) /\ printer' = printer
      BY <1>6, <2>4 DEF PrintPath
    <3>2. /\ \A g : HasPrinted(g)' <=> HasPrinted(g) \/ g = f
          /\ Len(printed) \in Nat
          /\ DOMAIN printed = 1..Len(printed) /\ DOMAIN printed' = 1..(Len(printed) + 1)
          /\ \A i \in 1..Len(printed) : printed'[i] = printed[i]
          /\ printed'[Len(printed) + 1] = f
      BY <2>2, <3>1, <1>n, PrintedGrows
    <3>3. Visited' /\ Distinct'
      BY <2>1, <2>3, <3>2 DEF Visited, Distinct, HasPrinted
    <3>4. SentOnce'
      BY <2>1, <2>2, <3>2 DEF SentOnce
    <3>5. SentIsKnown'
      <4> SUFFICES ASSUME NEW g \in Files \ todo, Says(g), ~HasPrinted(g)', g # f
                   PROVE  \E i \in DOMAIN channel' : channel'[i] = g
        BY <2>1, <3>1, <3>2, <1>q DEF SentIsKnown
      <4>1. PICK i \in DOMAIN channel : channel[i] = g
        BY <2>1, <3>2 DEF SentIsKnown
      <4>2. i - 1 \in DOMAIN channel' /\ channel'[i - 1] = g
        BY <4>1, <2>2
      <4> QED
        BY <4>2
    <3>6. PrinterStands' /\ SendersStop'
      BY <2>1, <3>1, <1>n, <1>q DEF PrinterStands, SendersStop
    <3> QED
      BY <3>3, <3>4, <3>5, <3>6
  <2>5. CASE ~Prints(f)
    <3>1. printed' = printed /\ printer' = sink /\ sink \in {"broken", "full"}
      BY <1>6, <2>5, <1>n DEF PrintPath, Prints
    <3>2. Visited' /\ Distinct'
      BY <2>1, <3>1 DEF Visited, Distinct
    <3>3. SentOnce'
      BY <2>1, <2>2, <3>1 DEF SentOnce, HasPrinted
    <3>4. SentIsKnown' /\ PrinterStands' /\ SendersStop'
      BY <2>1, <3>1, <1>q DEF SentIsKnown, PrinterStands, SendersStop
    <3> QED
      BY <3>2, <3>3, <3>4
  <2> QED
    BY <2>4, <2>5
<1> QED
  BY <1>1, <1>2, <1>3, <1>4, <1>5, <1>6, StepsByDriver DEF Printer

-----------------------------------------------------------------------------
\* A status that is no error finds everything printed.
LEMMA NothingGetsLost ==
  ASSUME ReportInv, Next
  PROVE  NothingIsLostSilently'
<1> SUFFICES ASSUME exit' \in {"0", "1"}, sink' # "broken", NEW f \in Files, Says(f)'
             PROVE  HasPrinted(f)'
  BY DEF NothingIsLostSilently, HasPrinted
<1> USE DEF ReportInv
<1>1. exit = "none"
  BY DoneIsDone
<1>2. Says(f) /\ ~quiet /\ ~QuitAfterMatch
  BY TheQueryStays DEF Says, QuitAfterMatch
<1>3. 1 \in Threaded /\ next \in Nat /\ Count \in Nat
  BY FirstThread, VerifyAssumption DEF TypeOK
<1>4. CASE Join
  <2>1. /\ BufferedInv /\ \A w \in Threaded : pc[w] \in Over
        /\ ~Failure /\ sink # "broken" /\ printed' = printed
    BY <1>4 DEF Join
  <2>2. \A w \in Threaded : pc[w] = "ended"
    BY <2>1 DEF BufferedInv, FailedBySink, Failure, Over
  <2>3. next >= Count
    BY <1>2, <1>3, <2>1, <2>2 DEF BufferedInv, FirstIsLast
  <2>4. ~SomeFailed /\ ~(\E g \in Files : InHand(g)) /\ Due \notin slots
    BY <2>1, <2>2 DEF SomeFailed, InHand, BufferedInv, DueIsFlushed
  <2>5. \A g \in Files : g <= nextEmit \/ g \in slots
    BY <1>3, <2>1, <2>3, <2>4 DEF BufferedInv, TakenIsKnown, Files
  <2>6. nextEmit = Count
    BY <1>3, <2>4, <2>5 DEF Due, Files, TypeOK
  <2>7. /\ Len(printed) = nextEmit /\ \A i \in 1..nextEmit : printed[i] = i
        /\ DOMAIN printed = 1..Len(printed)
    BY <2>1 DEF BufferedInv, PrintedSoFar, TypeOK
  <2> QED
    BY <2>1, <2>6, <2>7 DEF HasPrinted, Files
<1>5. CASE SearchEnds \/ ListEnds
  <2>1. /\ driver \in Sequential /\ (pc[1] = "ended" \/ next = Count)
        /\ sink # "broken" /\ printed' = printed /\ ~errored
    BY <1>2, <1>5 DEF SearchEnds, ListEnds, Status, Sequential
  <2> QED
    BY <1>1, <1>2, <1>3, <2>1 DEF SequentialInv, HasPrinted, Files
<1>6. CASE WalkEnds
  <2>1. /\ ParallelInv /\ \A w \in Threaded : pc[w] = "ended"
        /\ sink # "broken" /\ printed' = printed /\ ~errored
    BY <1>2, <1>6 DEF WalkEnds, Status
  <2> QED
    BY <1>2, <1>3, <2>1 DEF ParallelInv, StopsForAReason, VisitedIsKnown, HasPrinted
<1>7. CASE ListingEnds
  <2>1. /\ ListingInv /\ \A w \in Threaded : pc[w] = "ended"
        /\ printer # "on" /\ printer # "full"
        /\ sink # "broken" /\ printed' = printed
    BY <1>7 DEF ListingEnds
  <2>2. printer = "done" /\ channel = <<>>
    BY <2>1 DEF ListingInv, PrinterStands, TypeOK
  <2> QED
    BY <1>2, <1>3, <2>1, <2>2 DEF ListingInv, SendersStop, SentIsKnown, HasPrinted
<1>8. CASE ListNext
  BY <1>1, <1>8 DEF ListNext
<1>9. exit' # "none"
  OBVIOUS
<1> QED
  BY <1>4, <1>5, <1>6, <1>7, <1>8, <1>9, StatusComesLast

-----------------------------------------------------------------------------
(* The invariant holds at the start, and every step keeps it.                *)
LEMMA ReportInvStarts ==
  ASSUME Init
  PROVE  ReportInv
<1> USE VerifyAssumption, FirstThread DEF Init
<1>1. TypeOK
  <2>1. pc \in [Threaded -> PlacesOfThreads]
    BY DEF PlacesOfThreads, Over
  <2>2. /\ at \in [Threaded -> 0..Count] /\ nextEmit \in 0..Count /\ lock \in 0..Budget
        /\ printed \in Seq(Files) /\ channel \in Seq(Files)
    OBVIOUS
  <2> QED
    BY <2>1, <2>2 DEF TypeOK
<1>2. \A w \in Threaded : pc[w] \in {"look", "ended"}
  OBVIOUS
<1>3. pc[1] = "look" /\ next = 0 /\ DOMAIN printed = {} /\ DOMAIN channel = {}
  OBVIOUS
<1>4. InPlace
  BY <1>2 DEF InPlace, Over
<1>5. Settled /\ NothingIsLostSilently
  BY DEF Settled, NothingIsLostSilently
<1>6. BufferedInv
  <2>1. PrintedSoFar /\ FailedBySink /\ FirstIsLast
    BY <1>2, <1>3 DEF PrintedSoFar, FailedBySink, FirstIsLast
  <2>2. DueIsFlushed /\ TakenIsKnown
    BY DEF DueIsFlushed, TakenIsKnown, Files
  <2> QED
    BY <2>1, <2>2 DEF BufferedInv
<1>7. SequentialInv
  BY <1>3 DEF SequentialInv, Files
<1>8. ParallelInv
  BY <1>2, <1>3 DEF ParallelInv, Visited, Distinct, InOneHand, VisitedIsKnown, StopsForAReason
<1>9. ListingInv
  BY <1>2, <1>3 DEF ListingInv, Visited, Distinct, SentOnce, SentIsKnown, PrinterStands,
     SendersStop
<1> QED
  BY <1>1, <1>4, <1>5, <1>6, <1>7, <1>8, <1>9 DEF ReportInv

LEMMA ReportInvIsKept ==
  ASSUME ReportInv, [Next]_vars
  PROVE  ReportInv'
<1>1. TypeOK' /\ InPlace'
  BY TypesAreKept, PlacesAreKept DEF ReportInv
<1>2. CASE Next
  <2>1. driver' = driver
    BY TheQueryStays DEF flow
  <2> QED
    BY <1>1, <1>2, <2>1, SettledIsKept, BufferedIsKept, SequentialIsKept, ParallelIsKept,
       ListingIsKept, NothingGetsLost DEF ReportInv
<1>3. CASE UNCHANGED vars
  <2> USE <1>3 DEF ReportInv, vars, flow, walk, reorder, facts, list
  <2>1. Settled' /\ NothingIsLostSilently'
    BY DEF Settled, NothingIsLostSilently, Says
  <2>2. driver = "buffered" => BufferedInv'
    BY DEF BufferedInv, PrintedSoFar, FailedBySink, DueIsFlushed, TakenIsKnown, FirstIsLast,
       InHand, SomeFailed, Due, QuitAfterMatch
  <2>3. driver \in Sequential => SequentialInv'
    BY DEF SequentialInv, HasPrinted, Says, QuitAfterMatch
  <2>4. driver = "parallel" => ParallelInv'
    BY DEF ParallelInv, Visited, Distinct, InOneHand, VisitedIsKnown, StopsForAReason,
       HasPrinted, Says, QuitAfterMatch
  <2>5. driver = "listing" => ListingInv'
    BY DEF ListingInv, Visited, Distinct, SentOnce, SentIsKnown, PrinterStands, SendersStop,
       HasPrinted, Says, QuitAfterMatch
  <2> QED
    BY <1>1, <2>1, <2>2, <2>3, <2>4, <2>5
<1> QED
  BY <1>2, <1>3

\* The order of the output follows from the invariant of each driver.
LEMMA OrderFollows ==
  ASSUME ReportInv
  PROVE  OutputInOrder
<1> USE DEF ReportInv
<1>1. DOMAIN printed = 1..Len(printed) /\ Len(printed) \in Nat
      /\ \A i \in DOMAIN printed : printed[i] \in Int
  <2>1. printed \in Seq(Files)
    BY DEF TypeOK
  <2>2. Files \subseteq Int
    BY VerifyAssumption DEF Files
  <2>3. /\ DOMAIN printed = 1..Len(printed) /\ Len(printed) \in Nat
        /\ \A i \in DOMAIN printed : printed[i] \in Files
    BY <2>1
  <2> QED
    BY <2>2, <2>3
<1>2. CASE driver = "buffered"
  BY <1>1, <1>2 DEF OutputInOrder, BufferedInv, PrintedSoFar, Sequential
<1>3. CASE driver \in Sequential
  <2>1. \A i, j \in DOMAIN printed : i < j => printed[i] < printed[j]
    BY <1>3 DEF SequentialInv
  <2>2. \A i, j \in DOMAIN printed : i # j => printed[i] # printed[j]
    BY <2>1, <1>1
  <2> QED
    BY <1>3, <2>1, <2>2 DEF OutputInOrder, Sequential
<1>4. CASE driver \in {"parallel", "listing"}
  BY <1>4 DEF OutputInOrder, ParallelInv, ListingInv, Distinct, Sequential
<1> QED
  BY <1>2, <1>3, <1>4 DEF TypeOK, Drivers, Sequential

-----------------------------------------------------------------------------
\* For any number of files and threads, under any scheduling, with threads
\* that die and outputs that fail, the invariant of the drivers holds.
THEOREM ReportInvHolds == Spec => []ReportInv
<1>1. Init => ReportInv
  BY ReportInvStarts
<1>2. ReportInv /\ [Next]_vars => ReportInv'
  BY ReportInvIsKept
<1> QED
  BY <1>1, <1>2, PTL DEF Spec

\* No file is printed twice, and the drivers that promise the order of the
\* paths print in it: the reorder buffer of the indexed workers releases a
\* prefix of the candidates whatever becomes of the workers.
THEOREM OutputStaysInOrder == Spec => []OutputInOrder
BY ReportInvHolds, OrderFollows, PTL

\* A run that exits without reporting an error has printed all it had to say,
\* unless the reader of its output hung up.
THEOREM LossIsReported == Spec => []NothingIsLostSilently
<1>1. ReportInv => NothingIsLostSilently
  BY DEF ReportInv
<1> QED
  BY <1>1, ReportInvHolds, PTL

-----------------------------------------------------------------------------
(* The answer: what a run has learnt is the truth about the files it has     *)
(* behind it, and it stops early only when that is enough.                   *)

\* The files whose outcome the facts tell of
Behind ==
  IF driver = "buffered"
  THEN {f \in Files : f <= next /\ \A w \in Threaded : ~(pc[w] = "search" /\ at[w] = f)}
  ELSE IF driver \in Sequential THEN {f \in Files : f <= next} ELSE Files \ todo

\* What m, e and c should say of a set of files
Tells(S, m, e, c) ==
  /\ m <=> \E f \in S : what[f] = "match"
  /\ e <=> \E f \in S : what[f] = "fails"
  /\ withStats /\ driver \notin {"files", "listing"} =>
       c = Cardinality({f \in S : Searched(f)})

\* A search that ends at its first match has one
Enough == matched /\ QuitAfterMatch

\* Workers search different files, all of them taken
EachItsOwn == \A v, w \in Threaded : pc[w] = "search" =>
  /\ at[w] <= next
  /\ v # w /\ pc[v] = "search" => at[v] # at[w]

\* With no failure of the output and no dead thread
Smooth == sink = "open" /\ \A f \in Files : what[f] # "panics"

SmoothlyTrue ==
  /\ Tells(Behind, matched, errored, counted)
  /\ \A w \in Threaded : pc[w] # "panicked"
  /\ driver \notin Walking /\ pc[1] = "ended" => Enough \/ next >= Count
  /\ driver \in Walking /\ quitting => Enough

TruthInv ==
  /\ ReportInv
  /\ driver \in {"files", "listing"} => \A f \in Files : what[f] = "match"
  /\ driver = "buffered" => EachItsOwn
  /\ Smooth => SmoothlyTrue
  /\ AnswerIsTheSame

LEMMA FilesAreFinite ==
  /\ IsFiniteSet(Files)
  /\ \A S \in SUBSET Files : IsFiniteSet(S) /\ Cardinality(S) \in Nat
<1>1. IsFiniteSet(Files)
  BY VerifyAssumption, FS_Interval DEF Files
<1> QED
  BY <1>1, FS_Subset, FS_CardinalityType

\* One file more, and what its search found.
LEMMA TellsOfOneMore ==
  ASSUME NEW S \in SUBSET Files, NEW f \in Files \ S, NEW m, NEW e, NEW c, Tells(S, m, e, c)
  PROVE  Tells(S \cup {f}, m \/ what[f] = "match", e \/ what[f] = "fails",
               c + IF withStats /\ Searched(f) THEN 1 ELSE 0)
<1> DEFINE D == {g \in S : Searched(g)}
           E == {g \in S \cup {f} : Searched(g)}
<1>1. withStats /\ driver \notin {"files", "listing"} =>
        c + (IF withStats /\ Searched(f) THEN 1 ELSE 0) = Cardinality(E)
  <2> SUFFICES ASSUME withStats, driver \notin {"files", "listing"}
               PROVE  c + (IF Searched(f) THEN 1 ELSE 0) = Cardinality(E)
    OBVIOUS
  <2>1. c = Cardinality(D) /\ IsFiniteSet(D) /\ Cardinality(D) \in Nat
    BY FilesAreFinite DEF Tells
  <2>2. CASE Searched(f)
    <3>1. E = D \cup {f} /\ f \notin D
      BY <2>2
    <3>2. Cardinality(D \cup {f}) = Cardinality(D) + 1
      BY <2>1, <3>1, FS_AddElement
    <3> QED
      BY <2>1, <2>2, <3>1, <3>2
  <2>3. CASE ~Searched(f)
    <3>1. E = D
      BY <2>3
    <3> QED
      BY <2>1, <2>3, <3>1
  <2> QED
    BY <2>2, <2>3
<1>2. /\ (m \/ what[f] = "match") <=> \E g \in S \cup {f} : what[g] = "match"
      /\ (e \/ what[f] = "fails") <=> \E g \in S \cup {f} : what[g] = "fails"
  BY DEF Tells
<1> QED
  BY <1>1, <1>2 DEF Tells

\* A step that searches nothing, and one that searches a file.
LEMMA TruthStays ==
  ASSUME Tells(Behind, matched, errored, counted), UNCHANGED flow, UNCHANGED facts,
         Behind' = Behind
  PROVE  Tells(Behind, matched, errored, counted)'
BY DEF Tells, Searched, flow, facts

LEMMA TruthGrows ==
  ASSUME Tells(Behind, matched, errored, counted), UNCHANGED flow,
         NEW f \in Files \ Behind, Behind' = Behind \cup {f},
         matched' = (matched \/ what[f] = "match"),
         errored' = (errored \/ what[f] = "fails"),
         counted' = counted + IF withStats /\ Searched(f) THEN 1 ELSE 0
  PROVE  Tells(Behind, matched, errored, counted)'
<1>1. Behind \in SUBSET Files
  BY DEF Behind
<1>2. Tells(Behind \cup {f}, matched \/ what[f] = "match", errored \/ what[f] = "fails",
            counted + IF withStats /\ Searched(f) THEN 1 ELSE 0)
  BY <1>1, TellsOfOneMore
<1> QED
  BY <1>2 DEF Tells, Searched, flow

\* The output does not mend, and nobody dies who was not to.
LEMMA SmoothBefore ==
  ASSUME TypeOK, InPlace, [Next]_vars, Smooth'
  PROVE  Smooth /\ ~SinkFails
<1>1. UNCHANGED what
  BY TheQueryStays DEF flow
<1>2. ~SinkFails
  BY DEF SinkFails, Smooth
<1>3. sink' = sink
  BY <1>2 DEF Next, vars, Main, Join, SearchNext, SearchEnds, WalkEnds, ListNext, ListEnds,
       ListingEnds, Printer, PrintPath, PrinterEnds, Worker, Look, Take, VerifyOne, Record,
       Flush, Flushed, Visit, PrintFound, Send, VisitsEnd
<1> QED
  BY <1>1, <1>2, <1>3 DEF Smooth

\* The indexed driver: workers keep to files of their own.
LEMMA EachKeepsItsOwn ==
  ASSUME TypeOK, InPlace, EachItsOwn, driver = "buffered", Next
  PROVE  EachItsOwn'
<1>n. /\ next \in Nat /\ Count \in Nat
      /\ pc \in [Threaded -> PlacesOfThreads] /\ at \in [Threaded -> 0..Count]
  BY VerifyAssumption DEF TypeOK
<1>1. CASE UNCHANGED <<pc, at, next>>
  BY <1>1 DEF EachItsOwn
<1>2. ASSUME NEW w \in Threaded, BufferedStep(w)
      PROVE  EachItsOwn'
  <2>1. CASE Take(w)
    <3>1. CASE next < Count
      <4>1. /\ pc' = [pc EXCEPT ![w] = "search"] /\ at' = [at EXCEPT ![w] = next + 1]
            /\ next' = next + 1
        BY <2>1, <3>1 DEF Take, Goes
      <4> QED
        BY <4>1, <1>n DEF EachItsOwn
    <3>2. CASE ~(next < Count)
      <4>1. pc' = [pc EXCEPT ![w] = "ended"] /\ at' = at /\ next' = next + 1
        BY <2>1, <3>2 DEF Take, Goes
      <4> QED
        BY <4>1, <1>n DEF EachItsOwn
    <3> QED
      BY <3>1, <3>2
  <2>2. CASE ~Take(w)
    <3>1. /\ at' = at /\ next' = next
          /\ \A v \in Threaded : pc'[v] = "search" => pc[v] = "search"
      BY <1>2, <2>2, <1>n DEF BufferedStep, Look, VerifyOne, Record, Flush, Flushed, Goes,
         walk, TypeOK
    <3> QED
      BY <3>1 DEF EachItsOwn
  <2> QED
    BY <2>1, <2>2
<1> QED
  BY <1>1, <1>2, StepsByDriver DEF SinkFails, Join, walk

LEMMA BufferedTruth ==
  ASSUME TypeOK, InPlace, BufferedInv, EachItsOwn, Smooth, SmoothlyTrue,
         driver = "buffered", Next, ~SinkFails
  PROVE  SmoothlyTrue'
<1>q. UNCHANGED flow /\ driver' = driver /\ QuitAfterMatch' = QuitAfterMatch
  BY TheQueryStays DEF flow, QuitAfterMatch
<1>n. /\ next \in Nat /\ Count \in Nat /\ 1 \in Threaded
      /\ pc \in [Threaded -> PlacesOfThreads] /\ at \in [Threaded -> 0..Count]
      /\ driver \notin Walking /\ sink = "open"
      /\ Tells(Behind, matched, errored, counted)
      /\ \A w \in Threaded : pc[w] # "panicked"
      /\ pc[1] = "ended" => Enough \/ next >= Count
  BY VerifyAssumption, FirstThread DEF TypeOK, Walking, Smooth, SmoothlyTrue
<1>h. /\ \A f : f \in Behind <=>
              /\ f \in Files /\ f <= next
              /\ \A w \in Threaded : ~(pc[w] = "search" /\ at[w] = f)
      /\ \A f : f \in Behind' <=>
              /\ f \in Files /\ f <= next'
              /\ \A w \in Threaded : ~(pc'[w] = "search" /\ at'[w] = f)
  BY <1>q DEF Behind
<1>1. ASSUME \A f \in Files : f \in Behind' <=> f \in Behind, UNCHANGED facts,
             \A w \in Threaded : pc'[w] # "panicked",
             pc'[1] = "ended" => Enough \/ next' >= Count
      PROVE  SmoothlyTrue'
  <2>1. Behind' = Behind
    BY <1>1, <1>h
  <2>2. Tells(Behind, matched, errored, counted)'
    BY <1>1, <1>q, <1>n, <2>1, TruthStays
  <2> QED
    BY <1>1, <1>q, <1>n, <2>2 DEF SmoothlyTrue, Enough, facts
<1>2. CASE Join
  <2>1. UNCHANGED <<pc, at, next>> /\ UNCHANGED facts
    BY <1>2 DEF Join, walk
  <2> QED
    BY <1>1, <1>h, <1>n, <2>1
<1>3. ASSUME NEW w \in Threaded, BufferedStep(w)
      PROVE  SmoothlyTrue'
  <2>1. CASE Look(w)
    <3>1. /\ pc[w] = "look" /\ UNCHANGED <<at, next>> /\ UNCHANGED facts
          /\ \/ pc' = [pc EXCEPT ![w] = "take"]
             \/ pc' = [pc EXCEPT ![w] = "ended"] /\ Enough
      BY <2>1 DEF Look, Goes, walk, Enough
    <3> QED
      BY <3>1, <1>1, <1>h, <1>n
  <2>2. CASE Take(w)
    <3>1. /\ pc[w] = "take" /\ next' = next + 1 /\ UNCHANGED facts
          /\ \/ /\ next < Count
                /\ pc' = [pc EXCEPT ![w] = "search"] /\ at' = [at EXCEPT ![w] = next + 1]
             \/ next >= Count /\ pc' = [pc EXCEPT ![w] = "ended"] /\ at' = at
      BY <2>2, <1>n DEF Take, Goes
    <3>2. \A f \in Files : f \in Behind' <=> f \in Behind
      <4> SUFFICES ASSUME NEW f \in Files PROVE f \in Behind' <=> f \in Behind
        OBVIOUS
      <4>1. CASE next < Count
        <5>1. pc' = [pc EXCEPT ![w] = "search"] /\ at' = [at EXCEPT ![w] = next + 1]
          BY <3>1, <4>1, <1>n
        <5>2. f <= next' <=> f <= next \/ f = next + 1
          BY <3>1, <1>n DEF Files
        <5>3. CASE f = next + 1
          <6>1. f \notin Behind
            BY <5>3, <1>h, <1>n
          <6>2. pc'[w] = "search" /\ at'[w] = f
            BY <5>1, <5>3, <1>n
          <6> QED
            BY <6>1, <6>2, <1>h
        <5>4. CASE f # next + 1
          <6>1. \A v \in Threaded : (pc'[v] = "search" /\ at'[v] = f)
                                      <=> (pc[v] = "search" /\ at[v] = f)
            BY <3>1, <5>1, <5>4, <1>n
          <6> QED
            BY <5>2, <5>4, <6>1, <1>h
        <5> QED
          BY <5>3, <5>4
      <4>2. CASE ~(next < Count)
        <5>1. pc' = [pc EXCEPT ![w] = "ended"] /\ at' = at
          BY <3>1, <4>2
        <5>2. f <= next' /\ f <= next
          BY <3>1, <4>2, <1>n DEF Files
        <5> QED
          BY <3>1, <5>1, <5>2, <1>h, <1>n
      <4> QED
        BY <4>1, <4>2
    <3>3. /\ \A v \in Threaded : pc'[v] # "panicked"
          /\ pc'[1] = "ended" => Enough \/ next' >= Count
      BY <3>1, <1>n
    <3> QED
      BY <3>1, <3>2, <3>3, <1>1
  <2>3. CASE VerifyOne(w)
    <3> DEFINE f == at[w]
    <3>1. f \in Files /\ pc[w] = "search" /\ what[f] # "panics"
      BY <2>3 DEF VerifyOne, InPlace, Smooth
    <3>2. /\ pc' = [pc EXCEPT ![w] = "record"] /\ UNCHANGED <<at, next>>
          /\ matched' = (matched \/ what[f] = "match")
          /\ errored' = (errored \/ what[f] = "fails")
          /\ counted' = counted + IF withStats /\ Searched(f) THEN 1 ELSE 0
      BY <2>3, <3>1 DEF VerifyOne, Goes, walk
    <3>3. f \notin Behind /\ f <= next
      BY <3>1, <1>h DEF EachItsOwn
    <3>4. ASSUME NEW g \in Files PROVE g \in Behind' <=> g \in Behind \/ g = f
      <4>1. CASE g = f
        <5>1. \A v \in Threaded : ~(pc'[v] = "search" /\ at'[v] = g)
          BY <3>1, <3>2, <4>1, <1>n DEF EachItsOwn
        <5> QED
          BY <5>1, <3>2, <3>3, <4>1, <1>h
      <4>2. CASE g # f
        <5>1. \A v \in Threaded : (pc'[v] = "search" /\ at'[v] = g)
                                    <=> (pc[v] = "search" /\ at[v] = g)
          BY <3>1, <3>2, <4>2, <1>n
        <5> QED
          BY <5>1, <3>2, <4>2, <1>h
      <4> QED
        BY <4>1, <4>2
    <3>5. Behind' = Behind \cup {f}
      BY <3>1, <3>4, <1>h
    <3>6. Tells(Behind, matched, errored, counted)'
      BY <3>1, <3>2, <3>3, <3>5, <1>q, <1>n, TruthGrows
    <3>7. /\ \A v \in Threaded : pc'[v] # "panicked"
          /\ pc'[1] = "ended" => Enough \/ next' >= Count
      BY <3>2, <1>n
    <3>8. Enough => Enough'
      BY <3>2, <1>q DEF Enough
    <3>9. Count' = Count /\ driver' \notin Walking
      BY <1>q, <1>n
    <3> QED
      BY <3>6, <3>7, <3>8, <3>9 DEF SmoothlyTrue
  <2>4. CASE Record(w) \/ Flushed(w)
    <3>1. /\ pc[w] \in {"record", "flush"} /\ UNCHANGED <<at, next>> /\ UNCHANGED facts
          /\ pc' = [pc EXCEPT ![w] = "flush"] \/ pc' = [pc EXCEPT ![w] = "look"]
      BY <2>4 DEF Record, Flushed, Goes, walk
    <3> QED
      BY <3>1, <1>1, <1>h, <1>n
  <2>5. CASE Flush(w)
    <3>1. UNCHANGED <<pc, at, next>> /\ UNCHANGED facts
      BY <2>5, <1>n DEF Flush, Prints, walk
    <3> QED
      BY <3>1, <1>1, <1>h, <1>n
  <2> QED
    BY <1>3, <2>1, <2>2, <2>3, <2>4, <2>5 DEF BufferedStep
<1> QED
  BY <1>2, <1>3, StepsByDriver

\* The drivers of one thread: the file after those behind it.
LEMMA SequentialTruth ==
  ASSUME TypeOK, InPlace, Smooth, SmoothlyTrue, driver \in Sequential, Next, ~SinkFails,
         driver \in {"files", "listing"} => \A f \in Files : what[f] = "match",
         next <= Count
  PROVE  SmoothlyTrue'
<1>q. UNCHANGED flow /\ driver' = driver /\ QuitAfterMatch' = QuitAfterMatch
  BY TheQueryStays DEF flow, QuitAfterMatch
<1>n. /\ next \in Nat /\ Count \in Nat /\ 1 \in Threaded
      /\ pc \in [Threaded -> PlacesOfThreads]
      /\ driver \notin Walking /\ sink = "open"
      /\ Tells(Behind, matched, errored, counted)
      /\ \A w \in Threaded : pc[w] # "panicked"
      /\ pc[1] = "ended" => Enough \/ next >= Count
  BY VerifyAssumption, FirstThread DEF TypeOK, Walking, Sequential, Smooth, SmoothlyTrue
<1>h. /\ Behind = {f \in Files : f <= next}
      /\ Behind' = {f \in Files : f <= next'}
  BY <1>q DEF Behind, Sequential
<1>1. CASE SearchEnds \/ ListEnds
  <2>1. UNCHANGED <<pc, next>> /\ UNCHANGED facts
    BY <1>1 DEF SearchEnds, ListEnds, walk
  <2>2. Tells(Behind, matched, errored, counted)'
    BY <2>1, <1>q, <1>n, <1>h, TruthStays
  <2> QED
    BY <2>1, <2>2, <1>q, <1>n DEF SmoothlyTrue, Enough, facts
<1>2. ASSUME NEW f \in Files, f = next + 1, next' = f,
             matched' = (matched \/ what[f] = "match"),
             errored' = (errored \/ what[f] = "fails"),
             \/ counted' = counted + IF withStats /\ Searched(f) THEN 1 ELSE 0
             \/ driver \in {"files", "listing"},
             \/ UNCHANGED pc /\ pc[1] # "ended"
             \/ pc' = [pc EXCEPT ![1] = "ended"] /\ Enough'
      PROVE  SmoothlyTrue'
  <2>1. f \notin Behind /\ Behind' = Behind \cup {f}
    BY <1>2, <1>h, <1>n DEF Files
  <2>2. Tells(Behind, matched, errored, counted)'
    <3>1. CASE counted' = counted + IF withStats /\ Searched(f) THEN 1 ELSE 0
      BY <3>1, <2>1, <1>2, <1>q, <1>n, TruthGrows
    <3>2. CASE driver \in {"files", "listing"}
      BY <3>2, <2>1, <1>2, <1>q, <1>n DEF Tells, flow
    <3> QED
      BY <3>1, <3>2, <1>2
  <2>3. (\A w \in Threaded : pc'[w] # "panicked") /\ (pc'[1] = "ended" => Enough')
    BY <1>2, <1>n
  <2> QED
    BY <2>2, <2>3, <1>q, <1>n DEF SmoothlyTrue
<1>3. CASE SearchNext
  <2> DEFINE f == next + 1
  <2>1. f \in Files /\ pc[1] = "look" /\ Sequence(f) /\ Prints(f)
    BY <1>3, <1>n DEF SearchNext, Prints, Files
  <2>2. /\ matched' = (matched \/ what[f] = "match")
        /\ errored' = (errored \/ what[f] = "fails")
        /\ counted' = counted + IF withStats /\ Searched(f) THEN 1 ELSE 0
        /\ next' = f
    BY <2>1, <1>n, Zenon DEF Sequence
  <2>3. \/ UNCHANGED pc
        \/ pc' = [pc EXCEPT ![1] = "ended"] /\ Enough'
    BY <1>3, <1>n, <1>q DEF SearchNext, Breaks, Goes, Enough
  <2> HIDE DEF f
  <2> QED
    BY <2>1, <2>2, <2>3, <1>2 DEF f
<1>4. CASE ListNext
  <2> DEFINE f == next + 1
  <2>1. f \in Files /\ pc[1] = "look" /\ Prints(f) /\ what[f] = "match" /\ driver = "files"
    BY <1>4, <1>n DEF ListNext, Prints, Files
  <2>2. matched' = TRUE /\ errored' = errored /\ next' = f
    BY <1>4 DEF ListNext
  <2>3. matched' = (matched \/ what[f] = "match") /\ errored' = (errored \/ what[f] = "fails")
    BY <2>1, <2>2 DEF TypeOK
  <2>4. \/ UNCHANGED pc
        \/ pc' = [pc EXCEPT ![1] = "ended"] /\ Enough'
    BY <1>4, <2>1, <2>2, <1>q DEF ListNext, Goes, Enough
  <2> HIDE DEF f
  <2> QED
    BY <2>1, <2>2, <2>3, <2>4, <1>2 DEF f
<1> QED
  BY <1>1, <1>3, <1>4, StepsByDriver

\* The parallel walk: what is not to do any more.
LEMMA WalkingTruth ==
  ASSUME TypeOK, InPlace, Smooth, SmoothlyTrue, driver \in Walking, Next, ~SinkFails,
         driver \in {"files", "listing"} => \A f \in Files : what[f] = "match",
         driver = "listing" => PrinterStands
  PROVE  SmoothlyTrue'
<1>q. UNCHANGED flow /\ driver' = driver /\ QuitAfterMatch' = QuitAfterMatch
  BY TheQueryStays DEF flow, QuitAfterMatch
<1>n. /\ pc \in [Threaded -> PlacesOfThreads] /\ sink = "open" /\ todo \subseteq Files
      /\ matched \in BOOLEAN /\ errored \in BOOLEAN
      /\ driver \notin Sequential /\ driver # "buffered"
      /\ Tells(Behind, matched, errored, counted)
      /\ \A w \in Threaded : pc[w] # "panicked"
      /\ quitting => Enough
  BY DEF TypeOK, Walking, Sequential, Smooth, SmoothlyTrue
<1>h. Behind = Files \ todo /\ Behind' = Files \ todo'
  BY <1>q, <1>n DEF Behind
<1>1. ASSUME UNCHANGED todo, UNCHANGED facts,
             \A w \in Threaded : pc'[w] # "panicked", quitting' => quitting \/ Enough
      PROVE  SmoothlyTrue'
  <2>1. Tells(Behind, matched, errored, counted)'
    BY <1>1, <1>q, <1>n, <1>h, TruthStays
  <2> QED
    BY <1>1, <2>1, <1>q, <1>n DEF SmoothlyTrue, Enough, facts
<1>2. ASSUME NEW f \in todo, todo' = todo \ {f},
             matched' = (matched \/ what[f] = "match"),
             errored' = (errored \/ what[f] = "fails"),
             \/ counted' = counted + IF withStats /\ Searched(f) THEN 1 ELSE 0
             \/ driver \in {"files", "listing"},
             \A w \in Threaded : pc'[w] # "panicked",
             quitting' => quitting \/ Enough'
      PROVE  SmoothlyTrue'
  <2>1. f \in Files \ Behind /\ Behind' = Behind \cup {f}
    BY <1>2, <1>h, <1>n
  <2>2. Tells(Behind, matched, errored, counted)'
    <3>1. CASE counted' = counted + IF withStats /\ Searched(f) THEN 1 ELSE 0
      BY <3>1, <2>1, <1>2, <1>q, <1>n, TruthGrows
    <3>2. CASE driver \in {"files", "listing"}
      BY <3>2, <2>1, <1>2, <1>q, <1>n DEF Tells, flow
    <3> QED
      BY <3>1, <3>2, <1>2
  <2>3. Enough => Enough'
    BY <1>2, <1>q DEF Enough
  <2> QED
    BY <1>2, <2>2, <2>3, <1>q, <1>n DEF SmoothlyTrue
<1>3. CASE WalkEnds \/ ListingEnds \/ Printer
  BY <1>3, <1>1, <1>n DEF WalkEnds, ListingEnds, Printer, PrintPath, PrinterEnds, walk, facts
<1>4. ASSUME NEW w \in Threaded, VisitsEnd(w)
      PROVE  SmoothlyTrue'
  BY <1>4, <1>1, <1>n DEF VisitsEnd, Goes, walk, facts
<1>5. ASSUME NEW w \in Threaded, PrintFound(w)
      PROVE  SmoothlyTrue'
  <2>1. /\ UNCHANGED <<todo, matched, counted>> /\ pc' = [pc EXCEPT ![w] = "look"]
        /\ errored' = errored /\ quitting' => quitting \/ Enough
    BY <1>5, <1>n DEF PrintFound, Goes, Enough
  <2> QED
    BY <2>1, <1>1, <1>n, <1>5 DEF facts, PrintFound, Goes, Enough
<1>6. ASSUME NEW w \in Threaded, NEW f \in Files, Visit(w, f)
      PROVE  SmoothlyTrue'
  BY <1>6, <1>2, <1>n DEF Visit, Goes
<1>7. ASSUME NEW w \in Threaded, NEW f \in Files, Send(w, f)
      PROVE  SmoothlyTrue'
  <2>1. /\ f \in todo /\ todo' = todo \ {f} /\ matched' = TRUE /\ driver = "listing"
        /\ UNCHANGED <<pc, errored>> /\ pc[w] = "look"
    BY <1>7 DEF Send
  <2>2. what[f] = "match"
    BY <2>1
  <2>3. printer = "on"
    BY <2>1, <1>n DEF PrinterStands, TypeOK
  <2>4. quitting' => quitting \/ Enough'
    BY <1>7, <2>1, <2>3, <1>q DEF Send, Enough
  <2>5. matched' = (matched \/ what[f] = "match") /\ errored' = (errored \/ what[f] = "fails")
    BY <2>1, <2>2, <1>n
  <2> QED
    BY <2>1, <2>4, <2>5, <1>2, <1>n
<1> QED
  BY <1>3, <1>4, <1>5, <1>6, <1>7, StepsByDriver DEF Walking

\* When all files are behind a run, or what it has found is enough, its status
\* is the one of the files.
LEMMA TruthAtTheEnd ==
  ASSUME Tells(Behind, matched, errored, counted), Enough \/ Behind = Files
  PROVE  /\ Status(matched) = Expected
         /\ withStats /\ driver \notin {"files", "listing"} =>
              counted = Cardinality({f \in Files : Searched(f)})
<1>1. CASE Enough
  <2>1. matched /\ quiet /\ ~withStats
    BY <1>1 DEF Enough, QuitAfterMatch
  <2>2. \E f \in Files : what[f] = "match"
    BY <2>1 DEF Tells, Behind
  <2> QED
    BY <2>1, <2>2 DEF Status, Expected
<1>2. CASE Behind = Files
  BY <1>2 DEF Tells, Status, Expected
<1> QED
  BY <1>1, <1>2

LEMMA AnswerFollows ==
  ASSUME TruthInv, Next
  PROVE  AnswerIsTheSame'
<1> SUFFICES ASSUME exit' # "none", Smooth'
             PROVE  /\ exit' = Expected'
                    /\ withStats' /\ driver' \notin {"files", "listing"} =>
                         counted' = Cardinality({f \in Files : Searched(f)})'
  BY DEF AnswerIsTheSame, Smooth
<1> USE DEF TruthInv, ReportInv
<1>1. Smooth /\ sink = "open" /\ SmoothlyTrue
  BY SmoothBefore DEF Smooth
<1>2. 1 \in Threaded /\ next \in Nat /\ Count \in Nat /\ exit = "none"
  BY FirstThread, VerifyAssumption, DoneIsDone DEF TypeOK
<1>3. Expected' = Expected /\ {f \in Files : Searched(f)}' = {f \in Files : Searched(f)}
      /\ withStats' = withStats /\ driver' = driver
  BY TheQueryStays DEF flow, Expected, Searched
<1>4. ASSUME exit' = Status(matched), UNCHANGED facts, Enough \/ Behind = Files
      PROVE  /\ exit' = Expected'
             /\ withStats' /\ driver' \notin {"files", "listing"} =>
                  counted' = Cardinality({f \in Files : Searched(f)})'
  BY <1>1, <1>3, <1>4, TruthAtTheEnd DEF SmoothlyTrue, facts
<1>5. CASE Join
  <2>1. /\ driver = "buffered" /\ UNCHANGED facts
        /\ \A w \in Threaded : pc[w] \in Over
    BY <1>5 DEF Join
  <2>2. \A w \in Threaded : pc[w] = "ended"
    BY <2>1, <1>1 DEF BufferedInv, FailedBySink, Over, SmoothlyTrue
  <2>3. exit' = Status(matched)
    BY <1>5, <2>2 DEF Join, Failure
  <2>4. Enough \/ next >= Count
    BY <1>1, <1>2, <2>1, <2>2 DEF SmoothlyTrue, Walking
  <2>5. next >= Count => Behind = Files
    BY <1>2, <2>1, <2>2 DEF Behind, Files
  <2> QED
    BY <1>4, <2>1, <2>3, <2>4, <2>5
<1>6. CASE SearchEnds \/ ListEnds
  <2>1. /\ driver \in Sequential /\ driver \notin Walking /\ driver # "buffered"
        /\ UNCHANGED facts /\ exit' = Status(matched)
        /\ pc[1] = "ended" \/ next = Count
    BY <1>6 DEF SearchEnds, ListEnds, Sequential, Walking
  <2>2. Enough \/ next >= Count
    BY <1>1, <1>2, <2>1 DEF SmoothlyTrue
  <2>3. next >= Count => Behind = Files
    BY <1>2, <2>1 DEF Behind, Files
  <2> QED
    BY <1>4, <2>1, <2>2, <2>3
<1>7. CASE WalkEnds \/ ListingEnds
  <2>1. /\ driver \in Walking /\ driver \notin Sequential /\ driver # "buffered"
        /\ UNCHANGED facts /\ pc[1] = "ended"
    BY <1>2, <1>7 DEF WalkEnds, ListingEnds, Sequential, Walking
  <2>2. exit' = Status(matched)
    BY <1>1, <1>7 DEF WalkEnds, ListingEnds, ListingInv, PrinterStands
  <2>3. quitting \/ todo = {}
    BY <2>1, <1>7 DEF WalkEnds, ListingEnds, ParallelInv, ListingInv, StopsForAReason,
       SendersStop
  <2>4. todo = {} => Behind = Files
    BY <2>1 DEF Behind
  <2> QED
    BY <1>1, <1>4, <2>1, <2>2, <2>3, <2>4 DEF SmoothlyTrue
<1>8. CASE ListNext
  BY <1>1, <1>2, <1>8 DEF ListNext, Prints
<1> QED
  BY <1>5, <1>6, <1>7, <1>8, StatusComesLast

LEMMA TruthInvStarts ==
  ASSUME Init
  PROVE  TruthInv
<1> USE VerifyAssumption, FirstThread DEF Init
<1>1. \A w \in Threaded : pc[w] \in {"look", "ended"}
  OBVIOUS
<1>2. pc[1] = "look" /\ next = 0 /\ todo = Files
  OBVIOUS
<1>3. Behind = {}
  BY <1>2 DEF Behind, Files
<1>4. Tells({}, matched, errored, counted)
  BY FS_EmptySet DEF Tells
<1>5. SmoothlyTrue
  BY <1>1, <1>2, <1>3, <1>4 DEF SmoothlyTrue
<1>6. EachItsOwn /\ AnswerIsTheSame
  BY <1>1 DEF EachItsOwn, AnswerIsTheSame
<1> QED
  BY <1>5, <1>6, ReportInvStarts DEF TruthInv

LEMMA TruthInvIsKept ==
  ASSUME TruthInv, [Next]_vars
  PROVE  TruthInv'
<1>1. ReportInv'
  BY ReportInvIsKept DEF TruthInv
<1>2. UNCHANGED <<driver, what>>
  BY TheQueryStays DEF flow
<1>3. CASE Next
  <2>1. driver' = "buffered" => EachItsOwn'
    BY <1>2, <1>3, EachKeepsItsOwn DEF TruthInv, ReportInv
  <2>2. Smooth' => SmoothlyTrue'
    <3> SUFFICES ASSUME Smooth' PROVE SmoothlyTrue'
      OBVIOUS
    <3>1. Smooth /\ SmoothlyTrue /\ ~SinkFails
      BY SmoothBefore DEF TruthInv, ReportInv
    <3>2. CASE driver = "buffered"
      BY <1>3, <3>1, <3>2, BufferedTruth DEF TruthInv, ReportInv
    <3>3. CASE driver \in Sequential
      BY <1>3, <3>1, <3>3, SequentialTruth DEF TruthInv, ReportInv, SequentialInv
    <3>4. CASE driver \in Walking
      BY <1>3, <3>1, <3>4, WalkingTruth DEF TruthInv, ReportInv, ListingInv
    <3> QED
      BY <3>2, <3>3, <3>4 DEF TruthInv, ReportInv, TypeOK, Drivers, Sequential, Walking
  <2> QED
    BY <1>1, <1>2, <1>3, <2>1, <2>2, AnswerFollows DEF TruthInv
<1>4. CASE UNCHANGED vars
  <2> USE <1>4 DEF vars, flow, walk, facts
  <2>1. Behind' = Behind
    BY DEF Behind
  <2>2. SmoothlyTrue' = SmoothlyTrue /\ Smooth' = Smooth
    BY <2>1 DEF SmoothlyTrue, Smooth, Tells, Searched, Enough, QuitAfterMatch
  <2>3. EachItsOwn' = EachItsOwn /\ AnswerIsTheSame' = AnswerIsTheSame
    BY DEF EachItsOwn, AnswerIsTheSame, Expected, Searched
  <2> QED
    BY <1>1, <1>2, <2>2, <2>3 DEF TruthInv
<1> QED
  BY <1>3, <1>4

\* Whichever of the drivers answers, for any number of files and threads and
\* under any scheduling: a run with a working output and no dead thread exits
\* with the status the files deserve, however early it stopped, and counts every
\* file it searched once (verify_worker, search, search_parallel, files).
THEOREM EveryDriverAnswersTheSame == Spec => []AnswerIsTheSame
<1>1. TruthInv => AnswerIsTheSame
  BY DEF TruthInv
<1> QED
  BY <1>1, TruthInvStarts, TruthInvIsKept, PTL DEF Spec
=============================================================================
