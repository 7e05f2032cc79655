------------------------------- MODULE Lookup -------------------------------
(***************************************************************************)
(* From files to the candidates of a search: each file of a corpus is      *)
(* scanned into the index (index/document.rs over the scanner of the       *)
(* library), then a pattern is planned, tuned and executed against it      *)
(* (index/planner.rs, index/executor, postings/fast.rs, query_index of     *)
(* postings/mod.rs).  The plain search of the same files, which the index  *)
(* must never undercut, is modelled beside it.                             *)
(*                                                                         *)
(* A posting list is a function from the ordinals it lists to masks: that  *)
(* the code keeps it sorted by ordinal, and gallops, is representation.    *)
(***************************************************************************)
EXTENDS Planner, Scanner

CONSTANTS
    Corpora,             \* sequences of files, in walk order
    Patterns,            \* [hir, fold, multiline]
    ScanFallbackPct,     \* SCAN_FALLBACK_PCT, 30
    MinCeiling,          \* MIN_SELECTIVITY_CEILING, 32
    RefineMultiplier     \* SELECTIVITY_REFINE_MULTIPLIER, 2

ASSUME LookupAssumption ==
    /\ ScanFallbackPct \in 0 .. 100
    /\ MinCeiling \in Nat /\ RefineMultiplier \in Nat \ {0}

VARIABLES
    disk,      \* the files, [bytes, explicit, oversized]
    docs,      \* what the index holds of the files scanned so far
    query      \* what became of the pattern asked for, NoQuery before

vars == <<disk, docs, scan, query>>

NoQuery == [kind |-> "Waiting"]

(***************************************************************************)
(* document::scan.                                                         *)
(***************************************************************************)
DecodingBoms == {<<254, 255>>, <<255, 254>>, <<0, 0, 254, 255>>}

HasDecodingBom(s) == \E bom \in DecodingBoms : IsPrefix(bom, s)

Document(status, forced, postings, summary) ==
    [status |-> status, forced |-> forced, postings |-> postings, summary |-> summary]

NoPostings == [key \in {} |-> FullMask]
ForcedDoc  == Document("UnknownText", TRUE, NoPostings, Summary(<<>>))
SkippedDoc == Document("Skipped", FALSE, NoPostings, Summary(<<>>))

Current == disk[Len(docs) + 1]
Content == SearchablePrefix(WithoutUtf8Bom(Current.bytes))

\* A file whose searched bytes are not the bytes on disk, or are too many.
IsForced(file) ==
    \/ file.oversized
    \/ HasDecodingBom(file.bytes)
    \/ file.explicit /\ NUL \in Range(file.bytes)

Idle == ~scan.on /\ Len(docs) < Len(disk)

ForceFile ==
    /\ Idle /\ IsForced(Current)
    /\ docs' = Append(docs, ForcedDoc)
    /\ UNCHANGED <<disk, scan, query>>

SkipFile ==
    /\ Idle /\ ~IsForced(Current) /\ Content = <<>>
    /\ docs' = Append(docs, SkippedDoc)
    /\ UNCHANGED <<disk, scan, query>>

BeginScan ==
    /\ Idle /\ ~IsForced(Current) /\ Content # <<>>
    /\ BeginDocument(Content)
    /\ UNCHANGED <<disk, docs, query>>

Push ==
    /\ PushContent
    /\ UNCHANGED <<disk, docs, query>>

\* The grams of bytes that look random are dropped, their summary is not.
FinishScan ==
    LET postings == Collapse(scan.grams, scan.text)
        random   == IsHighEntropy(Len(scan.text), Cardinality(DOMAIN postings))
    IN  /\ FinishDocument
        /\ docs' = Append(docs, Document("Known", random, IF random THEN NoPostings ELSE postings,
                                         Summary(scan.text)))
        /\ UNCHANGED <<disk, query>>

(***************************************************************************)
(* index/executor.                                                         *)
(***************************************************************************)
IsText(ord)  == docs[ord].status # "Skipped"
TextOrds     == {ord \in DOMAIN docs : IsText(ord)}
TextCount    == Cardinality(TextOrds)
ForcedOrds   == {ord \in DOMAIN docs : docs[ord].forced}

\* SummaryStatus::satisfies.
Satisfies(ord, need) ==
    CASE docs[ord].status = "Known"       -> Meets(need, docs[ord].summary)
      [] docs[ord].status = "UnknownText" -> TRUE
      [] OTHER                            -> FALSE

MeetsAll(ord, needs) == \A need \in needs : Satisfies(ord, need)

FullPostings(ords) == [ord \in ords |-> FullMask]
Indexed            == UNION {DOMAIN docs[ord].postings : ord \in DOMAIN docs}
LookupGram(key)    ==
    [ord \in {o \in DOMAIN docs : key \in DOMAIN docs[o].postings} |-> docs[ord].postings[key]]

\* In Doc precision two grams need not share a line.
Widened(list, precision) ==
    IF precision = "Doc" THEN [ord \in DOMAIN list |-> [list[ord] EXCEPT !.blocks = BlockBits]] ELSE list

Restricted(list, Keep(_)) == [ord \in {o \in DOMAIN list : Keep(o)} |-> list[ord]]

UnionAll(lists) ==
    [ord \in UNION {DOMAIN list : list \in lists} |->
        MergeMasks({list[ord] : list \in {l \in lists : ord \in DOMAIN l}})]

CommonBlocks(lists, ord) == {b \in BlockBits : \A list \in lists : b \in list[ord].blocks}

\* intersect_all: an ordinal stays while the lists agree on a block.
IntersectAll(lists) ==
    IF lists = {} THEN FullPostings(TextOrds)
    ELSE [ord \in {o \in DOMAIN (CHOOSE list \in lists : TRUE) :
                       /\ \A list \in lists : o \in DOMAIN list
                       /\ CommonBlocks(lists, o) # {}} |->
             [blocks |-> CommonBlocks(lists, ord),
              edges  |-> {e \in EdgeBits : \A list \in lists : e \in list[ord].edges}]]

EvalNeedle(needle, precision) ==
    LET all == UnionAll({Widened(LookupGram(key), precision) : key \in needle.keys})
    IN  Restricted(all, LAMBDA ord : needle.edges \subseteq all[ord].edges)

RECURSIVE Eval(_, _)
Eval(plan, precision) ==
    LET lists == {EvalNeedle(plan.grams[i], precision) : i \in DOMAIN plan.grams}
                     \cup {Eval(plan.children[i], precision) : i \in DOMAIN plan.children}
    IN  CASE plan.kind = "All"   -> FullPostings(TextOrds)
          [] plan.kind = "None"  -> FullPostings({})
          [] plan.kind = "AllOf" -> Restricted(IntersectAll(lists), LAMBDA ord : MeetsAll(ord, plan.needs))
          [] OTHER -> UnionAll(lists \cup {FullPostings({o \in DOMAIN docs : Satisfies(o, need)}) :
                                               need \in plan.needs})

\* shape_may_satisfy; verdict_of only spares the reading of the summary.
RECURSIVE ShapeMaySatisfy(_, _)
ShapeMaySatisfy(plan, ord) ==
    LET child(i) == ShapeMaySatisfy(plan.children[i], ord)
    IN  CASE plan.kind = "All"   -> TRUE
          [] plan.kind = "None"  -> FALSE
          [] plan.kind = "AllOf" -> MeetsAll(ord, plan.needs) /\ \A i \in DOMAIN plan.children : child(i)
          [] OTHER -> \/ plan.grams # <<>>
                      \/ \E need \in plan.needs : Satisfies(ord, need)
                      \/ \E i \in DOMAIN plan.children : child(i)

Admits(plan, ord) == IsText(ord) /\ ShapeMaySatisfy(plan, ord)

ForcedCandidates(plan) ==
    IF plan.kind = "None" THEN {} ELSE {ord \in ForcedOrds : Admits(plan, ord)}

Execute(plan, precision) ==
    {ord \in DOMAIN Eval(plan, precision) \cup ForcedCandidates(plan) : Admits(plan, ord)}

(***************************************************************************)
(* Estimates.                                                              *)
(***************************************************************************)
Df == [key \in Indexed |-> Cardinality(DOMAIN LookupGram(key))]

CountNeed(need) == Cardinality({ord \in DOMAIN docs : Satisfies(ord, need)})

SumOver(S, f(_)) == FoldSet(LAMBDA x, n : f(x) + n, 0, S)

RECURSIVE Estimate(_)
Estimate(plan) ==
    LET gram(i)  == EstimateNeedle(plan.grams[i], Df, TextCount)
        child(i) == Estimate(plan.children[i])
        grams    == DOMAIN plan.grams
        children == DOMAIN plan.children
    IN  CASE plan.kind = "All"   -> TextCount
          [] plan.kind = "None"  -> 0
          [] plan.kind = "AllOf" ->
                IF grams = {} /\ children = {}
                THEN Min({CountNeed(need) : need \in plan.needs} \cup {TextCount})
                ELSE Min({TextCount} \cup {gram(i) : i \in grams} \cup {child(i) : i \in children})
          [] OTHER -> Min({TextCount, SumOver(grams, gram) + SumOver(plan.needs, CountNeed)
                                          + SumOver(children, child)})

(***************************************************************************)
(* FastAllOf: a root that only demands grams.  The edges are demanded of   *)
(* each list before the lists of a needle are joined.                      *)
(***************************************************************************)
IsFast(plan) == plan.kind = "AllOf" /\ plan.grams # <<>> /\ plan.children = <<>>

OpenNeedle(needle, precision) ==
    UnionAll({LET list == Widened(LookupGram(key), precision)
              IN  Restricted(list, LAMBDA ord : needle.edges \subseteq list[ord].edges) :
                  key \in needle.keys})

FastAllOfAnyLine(plan, precision) ==
    LET lists == {OpenNeedle(plan.grams[i], precision) : i \in DOMAIN plan.grams}
    IN  {ord \in TextOrds : /\ \A list \in lists : ord \in DOMAIN list
                            /\ MeetsAll(ord, plan.needs)}

FastAllOf(plan, precision) ==
    LET lists == {OpenNeedle(plan.grams[i], precision) : i \in DOMAIN plan.grams}
    IN  {ord \in TextOrds : /\ \A list \in lists : ord \in DOMAIN list
                            /\ CommonBlocks(lists, ord) # {}
                            /\ MeetsAll(ord, plan.needs)}

ExecutePlan(plan, precision) ==
    IF IsFast(plan) THEN FastAllOf(plan, precision) \cup ForcedCandidates(plan)
    ELSE Execute(plan, precision)

(***************************************************************************)
(* index/planner.rs.                                                       *)
(***************************************************************************)
LineScopedNeedKept(need) == need

\* The edge of the content becomes the edge of a line in a search by lines.
LineScopedNeed(need) ==
    CASE need.kind = "StartsWith" -> Need("LineStartsWithAnyByte", {Head(need.arg)})
      [] need.kind = "EndsWith"   -> Need("LineEndsWithAnyByte", {Last(need.arg)})
      [] OTHER                    -> need

RECURSIVE LineScoped(_)
LineScoped(plan) ==
    [plan EXCEPT !.needs    = {LineScopedNeed(need) : need \in @},
                 !.children = [i \in DOMAIN @ |-> LineScoped(@[i])]]

RECURSIVE GramCount(_)
GramCount(plan) == FoldLeft(LAMBDA n, child : n + GramCount(child), Len(plan.grams), plan.children)

\* query_plan.
IndexPlan(pattern) ==
    LET plan == PlanOf(pattern)
    IN  [pattern   |-> pattern,
         plan      |-> IF pattern.multiline THEN plan ELSE LineScoped(plan),
         precision |-> IF pattern.multiline THEN "Doc" ELSE "Block"]

Plans == {IndexPlan(pattern) : pattern \in Patterns}

Ready == ~scan.on /\ Len(docs) = Len(disk)

\* A pattern the index cannot narrow is searched for without it.
Fallback(index) ==
    /\ Ready /\ query = NoQuery
    /\ index.plan.kind \in {"All", "None"} \/ GramCount(index.plan) = 0
    /\ query' = [kind |-> IF index.plan.kind = "None" THEN "Impossible" ELSE "TooBroad", index |-> index]
    /\ UNCHANGED <<disk, docs, scan>>

(***************************************************************************)
(* query_index.                                                            *)
(***************************************************************************)
Ceiling      == Min({Max({(TextCount * ScanFallbackPct) \div 100, MinCeiling}), TextCount})
RefineLimit  == Min({Ceiling * RefineMultiplier, TextCount})

QueryIndex(index) ==
    LET tuned      == Tune(index.plan, Df, TextCount, Ceiling)
        estimate   == Min({TextCount, Estimate(tuned) + Cardinality(ForcedCandidates(tuned))})
        refuse     == estimate > (IF index.plan.grams = <<>> THEN Ceiling ELSE Max({Ceiling, RefineLimit}))
        candidates == ExecutePlan(tuned, index.precision)
    IN  /\ Ready /\ query = NoQuery
        /\ index.plan.kind \in {"AllOf", "AnyOf"} /\ GramCount(index.plan) > 0
        /\ query' = IF refuse \/ Cardinality(candidates) > Ceiling
                    THEN [kind |-> "Rejected", index |-> index]
                    ELSE [kind |-> "Candidates", index |-> index, tuned |-> tuned,
                          estimate |-> estimate, ords |-> candidates]
        /\ UNCHANGED <<disk, docs, scan>>

Init ==
    /\ disk \in Corpora
    /\ docs = <<>> /\ scan = NoScan /\ query = NoQuery

Ask == \E index \in Plans : Fallback(index) \/ QueryIndex(index)

Next == ForceFile \/ SkipFile \/ BeginScan \/ Push \/ FinishScan \/ Ask

Spec == Init /\ [][Next]_vars
=============================================================================
