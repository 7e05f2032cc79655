------------------------------ MODULE Analyze ------------------------------
(***************************************************************************)
(* The analysis of a regex into a query over grams: Analyzer of            *)
(* query/analyze, query/combine.rs, query/flush.rs and query/covers.rs.    *)
(*                                                                         *)
(* A regex is a tree of records with a field k:                            *)
(*   [k |-> "Empty"], [k |-> "Look", look |-> l], [k |-> "Lit", bytes],    *)
(*   [k |-> "Class", members], the encodings of its characters,            *)
(*   [k |-> "Cat", subs], [k |-> "Alt", subs], [k |-> "Cap", sub],         *)
(*   [k |-> "Rep", sub, min, max], with max -1 for an open repetition.     *)
(*                                                                         *)
(* The counter of grams the Analyzer shares between its calls is the field *)
(* spent of the summary each call returns.                                 *)
(***************************************************************************)
EXTENDS Strings

CONSTANTS
    MaxExact, MaxExactBytes,        \* 4096 strings, 64 KiB
    MaxSet,                         \* 128
    BoundaryGrow, BoundaryKeep,     \* 15, 8
    MaxFlushSet,                    \* 512
    MaxMaximalBranches,             \* MAX_MAXIMAL_COVER_BRANCHES, 8
    MaxConcatAlternatives,          \* 8
    MaxSeamCross,                   \* 2048
    GramBudget, MinFlushGrams,      \* PLAN_GRAM_BUDGET 4096, MIN_FLUSH_GRAMS 256
    MaxRepeatExpand,                \* 4
    MaxClass, MaxBoundaryBytes,     \* 100, 128
    SkeletalCount,                  \* SKELETAL_COUNT, 16
    WordScalars                     \* the encodings of the word characters

RegrowTarget == MaxSet \div 4
SkeletalKeep == BoundaryKeep \div 2
Open         == -1

ASSUME AnalyzeAssumption ==
    /\ {MaxExact, MaxExactBytes, MaxSet, MaxFlushSet, MaxMaximalBranches, MaxConcatAlternatives,
        MaxSeamCross, GramBudget, MinFlushGrams, MaxRepeatExpand, MaxClass, MaxBoundaryBytes,
        SkeletalCount} \subseteq Nat \ {0}
    /\ BoundaryKeep \in Nat \ {0} /\ BoundaryGrow \in Nat /\ BoundaryKeep <= BoundaryGrow
    /\ RegrowTarget > 0

(***************************************************************************)
(* RegexpInfo: what is known of the matches of a subexpression.  exact is  *)
(* all of them when known; else each starts with a member of prefix and    *)
(* ends with one of suffix, where the empty string stands for unknown.     *)
(***************************************************************************)
Blank(spent) ==
    [empty |-> FALSE, known |-> FALSE, exact |-> {}, prefix |-> {}, suffix |-> {},
     plus |-> {}, match |-> AllQuery, spent |-> spent, final |-> FALSE]

AnyMatch(spent)     == [Blank(spent) EXCEPT !.empty = TRUE, !.prefix = {<<>>}, !.suffix = {<<>>}]
NoMatch(spent)      == [Blank(spent) EXCEPT !.match = NoneQuery]
Exactly(spent, S)   == [Blank(spent) EXCEPT !.known = TRUE, !.exact = S]
EmptyString(spent)  == [Exactly(spent, {<<>>}) EXCEPT !.empty = TRUE]
Literal(spent, lit) == IF lit = <<>> THEN EmptyString(spent) ELSE Exactly(spent, {lit})

Starts(x) == IF x.known THEN x.exact ELSE x.prefix
Ends(x)   == IF x.known THEN x.exact ELSE x.suffix

\* Go on from where the shared counter stands.
From(x, spent) == [x EXCEPT !.spent = spent]
Spend(x, n)    == [x EXCEPT !.spent = @ + n]

BudgetLeft(x) == Max({0, GramBudget - x.spent})
MayFlush(x)   == x.spent < GramBudget \/ x.final
FlushCap(x)   == Max({BudgetLeft(x) \div 2, MinFlushGrams})

(***************************************************************************)
(* Covers: a set of strings, of which every match has one, as a clause.    *)
(***************************************************************************)
TotalGrams(covers) == Cardinality(UNION {{s} \X covers[s] : s \in DOMAIN covers})

\* gather_covers.
Fits(covers, cap) ==
    /\ Cardinality(DOMAIN covers) <= cap
    /\ \A s \in DOMAIN covers : covers[s] # {}
    /\ TotalGrams(covers) <= cap

Maximal(S) == [s \in S |-> GuaranteedCover(s)]
Minimal(S) == [s \in S |-> MinimalCover(s)]

Commit(x, q) == [x EXCEPT !.match = And(@, q)]

OrCovers(x, covers) ==
    LET any[S \in SUBSET DOMAIN covers] ==
            IF S = {} THEN NoneQuery
            ELSE LET s == CHOOSE s \in S : TRUE
                 IN  Or(any[S \ {s}], Query("And", covers[s]))
    IN  Commit(Spend(x, TotalGrams(covers)), any[DOMAIN covers])

AndOrGrams(x, grams) == Commit(Spend(x, Cardinality(grams)), Query("Or", grams))

SpansCenter(s, gram) ==
    \E at \in 0 .. Len(s) - Len(gram) :
        /\ Text(s, at, at + Len(gram)) = gram
        /\ at <= Len(s) \div 2 /\ Len(s) \div 2 < at + Len(gram)

\* single_cover: over the middle if there is one, then the longest.  Which of
\* two as long is taken, the greater in the code, tells no property apart.
SingleCover(s, cover) ==
    LET middle == {g \in cover : SpansCenter(s, g)}
        pool   == IF middle = {} THEN cover ELSE middle
    IN  CHOOSE g \in pool : \A h \in pool : Len(h) <= Len(g)

\* branch_single_covers of maximal covers, and whether every string has one.
HasSingles(covers, cap) ==
    Cardinality(DOMAIN covers) <= cap /\ \A s \in DOMAIN covers : covers[s] # {}
Singles(covers) == {SingleCover(s, covers[s]) : s \in DOMAIN covers}

\* distinct_edge, empty when no cut is long enough.
DistinctEdge(S, order) ==
    LET keep == LongestFit(S, order, MaxLen(S) - 1, MaxSet)
    IN  IF MinLen(S) < MinGramLen \/ keep < MinGramLen THEN {} ELSE Truncate(S, order, keep)

RECURSIVE AndGrams(_, _, _)

AndEdgeWindows(x, S) ==
    IF Cardinality(S) <= MaxSet THEN x
    ELSE AndGrams(AndGrams(x, DistinctEdge(S, "Prefix"), "Prefix"),
                  DistinctEdge(S, "Suffix"), "Suffix")

\* truncated_cover: the longest cut whose minimal covers fit.
TruncatedCover(x, covers, cap) ==
    LET cuts == {k \in DOMAIN covers : Fits(covers[k], cap)}
    IN  IF cuts = {} THEN x ELSE OrCovers(x, covers[Max(cuts)])

\* and_grams: the maximal covers of few strings or the minimal ones, as they
\* fit, else one gram of each string.
AndCovers(x, S, order, covers) ==
    LET fitting == {i \in DOMAIN covers : /\ i = 1 => Cardinality(S) <= MaxMaximalBranches
                                          /\ Fits(covers[i], FlushCap(x))}
    IN  IF fitting # {} THEN OrCovers(x, covers[Min(fitting)])
        ELSE IF HasSingles(covers[1], BudgetLeft(x))
        THEN AndOrGrams(AndEdgeWindows(x, S), Singles(covers[1]))
        ELSE TruncatedCover(x, [k \in MinGramLen .. MaxLen(S) - 1 |-> Minimal(Truncate(S, order, k))],
                            FlushCap(x))

AndGrams(x, S, order) ==
    IF S = {} \/ MinLen(S) < MinGramLen \/ ~MayFlush(x) THEN x
    ELSE AndCovers(x, S, order, <<Maximal(S), Minimal(S)>>)

(***************************************************************************)
(* Flushing: the sets of a summary are covered before they are cut.        *)
(***************************************************************************)
AddExact(x) == IF x.known THEN AndGrams(x, x.exact, "Prefix") ELSE x

\* spill_exact: the stubs the next windows start from.
Spill(x) ==
    [x EXCEPT !.known  = FALSE,
              !.exact  = {},
              !.prefix = @ \cup Truncate(x.exact, "Prefix", BoundaryKeep),
              !.suffix = @ \cup Truncate(x.exact, "Suffix", BoundaryKeep)]

FlushExact(x) == IF x.known THEN Spill(AddExact(x)) ELSE x

FlushSets(x) ==
    IF x.known THEN x
    ELSE AndGrams(AndGrams(x, x.prefix, "Prefix"), x.suffix, "Suffix")

SideOf(x, order) == IF order = "Prefix" THEN x.prefix ELSE x.suffix
WithSide(x, order, S) ==
    IF order = "Prefix" THEN [x EXCEPT !.prefix = S] ELSE [x EXCEPT !.suffix = S]

ReduceSide(S, order) ==
    DedupRedundant(CutToFit(S, order, Min({BoundaryKeep, MaxLen(S)}),
                            IF Cardinality(S) > MaxSet THEN RegrowTarget ELSE MaxSet), order)

ReduceSkeletal(S, order) ==
    CutToFit(S, order, Min({SkeletalKeep, MaxLen(S)}), SkeletalCount)

IsOversized(S) == Cardinality(S) > MaxSet \/ MaxLen(S) > BoundaryGrow

\* simplify_set; a set past MaxFlushSet is flushed by single grams and cut
\* before its size is looked at.
SimplifySetDropping(x, order, force) ==
    LET S == SideOf(x, order)
    IN  IF IsOversized(S) THEN WithSide(x, order, {CHOOSE s \in S : TRUE})
        ELSE IF force THEN AndGrams(x, S, order) ELSE x

\* The part after the cut of a large set, which says what it knows but once.
FlushSide(x, S, order, force, flushed) ==
    WithSide(IF force \/ (IsOversized(S) /\ ~flushed) THEN AndGrams(x, S, order) ELSE x,
             order, IF IsOversized(S) THEN ReduceSide(S, order) ELSE S)

SimplifyKnown(x, S, order, force, maximal) ==
    LET large   == Cardinality(S) > MaxFlushSet
        flushed == large /\ HasSingles(maximal, BudgetLeft(x))
    IN  FlushSide(IF flushed THEN AndOrGrams(x, Singles(maximal)) ELSE x,
                  IF large THEN ReduceSide(S, order) ELSE S, order, force, flushed)

SimplifySet(x, order, force) ==
    LET S == SideOf(x, order)
    IN  IF ~MayFlush(x) THEN WithSide(x, order, ReduceSkeletal(S, order))
        ELSE SimplifyKnown(x, S, order, force, Maximal(S))

ShouldFlushExact(x, force) ==
    /\ x.known
    /\ \/ Cardinality(x.exact) > MaxExact
       \/ ByteLen(x.exact) > MaxExactBytes
       \/ force /\ MinLen(x.exact) >= MinGramLen

SimplifySides(x, force) ==
    IF x.known THEN x ELSE SimplifySet(SimplifySet(x, "Prefix", force), "Suffix", force)

Simplify(x, force) ==
    SimplifySides(IF ShouldFlushExact(x, force) THEN FlushExact(x) ELSE x, force)

FlushSpill(x) == Simplify(FlushExact(x), FALSE)

(***************************************************************************)
(* Concatenation and alternation.                                          *)
(***************************************************************************)
Latest(x, y) == Max({x.spent, y.spent})

\* bound_crosses: which side is spilled before the sets are crossed.
SpillsLeft(x, y)  == x.known /\ Cardinality(x.exact) * Cardinality(Starts(y)) > MaxExact
SpillsRight(x, y) == ~x.known /\ y.known /\ Cardinality(x.suffix) * Cardinality(y.exact) > MaxExact

ConcatPrefix(x, y) ==
    IF x.known THEN Cross(x.exact, Starts(y)) \cup (IF y.empty THEN x.exact ELSE {})
    ELSE x.prefix \cup (IF x.empty THEN Starts(y) ELSE {})

ConcatSuffix(x, y) ==
    IF y.known THEN Cross(Ends(x), y.exact) \cup (IF x.empty THEN y.exact ELSE {})
    ELSE y.suffix \cup (IF y.empty THEN Ends(x) ELSE {})

\* apply_plus_hints: a run of E beside a neighbour ends, or starts, with two
\* members of E or with one and the neighbour.
PlusSuffix(x, y) ==
    (IF Ends(x) = {} THEN y.plus ELSE Cross(Ends(x) \cup y.plus, y.plus))
        \cup (IF y.empty THEN Ends(x) ELSE {})

PlusPrefix(x, y) ==
    (IF Starts(y) = {} THEN x.plus ELSE Cross(x.plus, x.plus \cup Starts(y)))
        \cup (IF x.empty THEN Starts(y) ELSE {})

SeamSide(S, order) ==
    LET keep == LongestFit(S, order, MaxLen(S) - 1, MaxSet)
    IN  CASE Cardinality(S) <= MaxSet -> S
          [] keep = 0                 -> {}
          [] OTHER                    -> Truncate(S, order, keep)

RECURSIVE ShrinkSeam(_, _)
ShrinkSeam(left, right) ==
    LET bigger == Cardinality(left) >= Cardinality(right)
        keep   == MaxLen(IF bigger THEN left ELSE right) - 1
    IN  CASE Cardinality(left) * Cardinality(right) <= MaxSeamCross -> <<left, right>>
          [] keep = 0 -> <<{}, {}>>
          [] OTHER    -> ShrinkSeam(IF bigger THEN Truncate(left, "Suffix", keep) ELSE left,
                                    IF bigger THEN right ELSE Truncate(right, "Prefix", keep))

\* seam: the strings across the boundary of two sides that are not exact.
SeamForgettingEmpty(x, y) ==
    IF x.known \/ y.known THEN {} ELSE Cross(SeamSide(x.suffix, "Suffix"), SeamSide(y.prefix, "Prefix"))

Seam(x, y) ==
    LET left  == SeamSide(x.suffix, "Suffix")
        right == SeamSide(y.prefix, "Prefix")
        cut   == ShrinkSeam(left, right)
    IN  IF x.empty \/ y.empty \/ x.known \/ y.known \/ MinLen(left) + MinLen(right) < MinGramLen
        THEN {} ELSE Cross(cut[1], cut[2])

\* concat of two bounded sides, its seam still to be demanded.
Joined(x, y) ==
    LET both == x.known /\ y.known
    IN  [Blank(Latest(x, y)) EXCEPT
            !.empty  = x.empty /\ y.empty,
            !.known  = both,
            !.exact  = IF both THEN Cross(x.exact, y.exact) ELSE {},
            !.prefix = CASE both         -> {}
                         [] x.plus # {}  -> PlusPrefix(x, y)
                         [] OTHER        -> ConcatPrefix(x, y),
            !.suffix = CASE both         -> {}
                         [] y.plus # {}  -> PlusSuffix(x, y)
                         [] OTHER        -> ConcatSuffix(x, y),
            !.match  = And(x.match, y.match)]

\* bound_crosses: the side that is spilled, if any, takes its place.
Bounded(x, y, spilled) ==
    <<IF SpillsLeft(x, y) THEN spilled ELSE x, IF SpillsRight(x, y) THEN spilled ELSE y>>

ConcatBounded(at) == Simplify(AndGrams(Joined(at[1], at[2]), Seam(at[1], at[2]), "Prefix"), FALSE)

Concat(x, y) ==
    ConcatBounded(Bounded(x, y, FlushSpill(From(IF SpillsLeft(x, y) THEN x ELSE y, Latest(x, y)))))

\* alternate: an exact side beside one that is not is demanded first.
Demanded(x, y, exact) ==
    <<IF x.known /\ ~y.known THEN exact ELSE x, IF y.known /\ ~x.known THEN exact ELSE y>>

Either(x, y) ==
    LET both == x.known /\ y.known
    IN  [Blank(Latest(x, y)) EXCEPT
            !.empty  = x.empty \/ y.empty,
            !.known  = both,
            !.exact  = IF both THEN x.exact \cup y.exact ELSE {},
            !.prefix = IF both THEN {} ELSE Starts(x) \cup Starts(y),
            !.suffix = IF both THEN {} ELSE Ends(x) \cup Ends(y),
            !.match  = Or(x.match, y.match)]

AlternateDemanded(at) == Simplify(Either(at[1], at[2]), FALSE)

Alternate(x, y) ==
    AlternateDemanded(Demanded(x, y, AddExact(From(IF x.known THEN x ELSE y, Latest(x, y)))))

\* Branches are <<>> before there is one, or <<info>>.
AlternateBranches(xs, ys) ==
    CASE xs = <<>> -> ys
      [] xs # <<>> /\ ys = <<>> -> xs
      [] OTHER -> <<Alternate(xs[1], ys[1])>>

SpentBy(xs, spent) == IF xs = <<>> THEN spent ELSE xs[1].spent

(***************************************************************************)
(* Look-around: an assertion between two parts drops the members whose     *)
(* byte beside it makes it fail, and proves the whole to match nothing     *)
(* when none is left.                                                      *)
(***************************************************************************)
Utf8Len(b) ==
    CASE b < 128        -> 1
      [] b \in 194 .. 223 -> 2
      [] b \in 224 .. 239 -> 3
      [] b \in 240 .. 244 -> 4
      [] OTHER          -> 0

IsContinuation(b) == b \in 128 .. 191

IsScalar(c) == /\ c # <<>> /\ Len(c) = Utf8Len(c[1])
               /\ \A i \in 2 .. Len(c) : IsContinuation(c[i])

FirstScalar(s) == SubSeq(s, 1, Min({Utf8Len(s[1]), Len(s)}))
LastScalar(s)  ==
    SubSeq(s, Max({1} \cup {i \in DOMAIN s : ~IsContinuation(s[i])}), Len(s))

\* Boundary: the byte beside a junction, and what it may be as a word
\* character; no byte is the edge of the pattern, or an unknown one.
Unknown == [bytes |-> {}, ascii |-> BOOLEAN, unicode |-> BOOLEAN]

BoundaryAt(byte, scalar) ==
    [bytes   |-> {byte},
     ascii   |-> {IsWordByte(byte)},
     unicode |-> IF IsScalar(scalar) THEN {scalar \in WordScalars} ELSE BOOLEAN]

FirstBoundary(s) == IF s = <<>> THEN Unknown ELSE BoundaryAt(s[1], FirstScalar(s))
LastBoundary(s)  == IF s = <<>> THEN Unknown ELSE BoundaryAt(s[Len(s)], LastScalar(s))

\* first_boundaries and last_boundaries, empty when they are not all known.
FirstBoundaries(x) ==
    IF x.empty \/ <<>> \in Starts(x) THEN {} ELSE {FirstBoundary(s) : s \in Starts(x)}
LastBoundaries(x) ==
    IF x.empty \/ <<>> \in Ends(x) THEN {} ELSE {LastBoundary(s) : s \in Ends(x)}

LookPossible(look, l, r) ==
    CASE look = "Start"               -> l.bytes = {}
      [] look = "End"                 -> r.bytes = {}
      [] look = "StartLF"             -> l.bytes \subseteq {LF}
      [] look = "EndLF"               -> r.bytes \subseteq {LF}
      [] look = "StartCRLF"           -> l.bytes \subseteq {LF, CR}
      [] look = "EndCRLF"             -> r.bytes \subseteq {LF, CR}
      [] look = "WordAscii"           -> \E a \in l.ascii, b \in r.ascii : a # b
      [] look = "WordAsciiNegate"     -> l.ascii \cap r.ascii # {}
      [] look = "WordUnicode"         -> \E a \in l.unicode, b \in r.unicode : a # b
      [] look = "WordUnicodeNegate"   -> l.unicode \cap r.unicode # {}
      [] OTHER                        -> TRUE

WithStarts(x, S) == IF x.known THEN [x EXCEPT !.exact = S] ELSE [x EXCEPT !.prefix = S]
WithEnds(x, S)   == IF x.known THEN [x EXCEPT !.exact = S] ELSE [x EXCEPT !.suffix = S]

\* filter_first_members and filter_last_members against the other side.
KeepStarts(look, L, x) ==
    IF L = {} THEN x
    ELSE WithStarts(x, {s \in Starts(x) : \E l \in L : LookPossible(look, l, FirstBoundary(s))})

KeepEnds(look, x, R) ==
    IF R = {} THEN x
    ELSE WithEnds(x, {s \in Ends(x) : \E r \in R : LookPossible(look, LastBoundary(s), r)})

\* One side of a junction is <<>>, the pattern's edge, or <<info>>.
IsEmptied(before, after, order) ==
    LET of(side) == IF order = "Prefix" THEN Starts(side[1]) ELSE Ends(side[1])
    IN  after # <<>> /\ of(after) = {} /\ of(before) # {}

OrUnknown(boundaries) == IF boundaries = {} THEN {Unknown} ELSE boundaries

CrossPossible(look, L, R) == \E l \in OrUnknown(L), r \in OrUnknown(R) : LookPossible(look, l, r)

\* junction_filters_empty and cross_possible, of the boundaries before either.
FilterJunction(junction, look, L, R) ==
    LET left  == [i \in DOMAIN junction.left |-> KeepEnds(look, junction.left[i], R)]
        right == [i \in DOMAIN junction.right |-> KeepStarts(look, L, junction.right[i])]
    IN  [left    |-> left,
         right   |-> right,
         blocked |-> \/ IsEmptied(junction.right, right, "Prefix")
                     \/ IsEmptied(junction.left, left, "Suffix")
                     \/ ~CrossPossible(look, L, R)]

LookOnce(junction, look) ==
    IF junction.blocked THEN junction
    ELSE FilterJunction(junction, look,
                        UNION {LastBoundaries(junction.left[i]) : i \in DOMAIN junction.left},
                        UNION {FirstBoundaries(junction.right[i]) : i \in DOMAIN junction.right})

\* looks_blocked.
Junction(pending, left, right) ==
    FoldLeft(LookOnce, [left |-> left, right |-> right, blocked |-> FALSE], pending)

StartTerminators(look) ==
    CASE look \in {"Start", "StartLF"} -> {<<LF>>}
      [] look = "StartCRLF"            -> {<<LF>>, <<CR>>}
      [] OTHER                         -> {}

EndTerminators(look) ==
    CASE look \in {"End", "EndLF"} -> {<<LF>>}
      [] look = "EndCRLF"          -> {<<LF>>, <<CR>>}
      [] OTHER                     -> {}

(***************************************************************************)
(* Classes: past MaxClass characters only their first and last bytes stay. *)
(***************************************************************************)
IntoBoundary(S) == IF S = {} \/ Cardinality(S) > MaxBoundaryBytes THEN {<<>>} ELSE S

ClassInfo(spent, members) ==
    CASE members = {} -> NoMatch(spent)
      [] Cardinality(members) <= MaxClass -> Exactly(spent, members)
      [] OTHER -> [Blank(spent) EXCEPT !.prefix = IntoBoundary(Truncate(members, "Prefix", 1)),
                                       !.suffix = IntoBoundary(Truncate(members, "Suffix", 1))]

\* split_mixed_class: the ASCII members apart from the wide rest.
Ascii(members) == {m \in members : Len(m) = 1}

IsMixed(members) ==
    /\ Cardinality(members) > MaxClass
    /\ Cardinality(Ascii(members)) \in 1 .. MaxClass
    /\ members # Ascii(members)

FoldInfo(x, fold) ==
    IF ~fold THEN x
    ELSE [x EXCEPT !.exact = FoldAscii(@), !.prefix = FoldAscii(@), !.suffix = FoldAscii(@)]

(***************************************************************************)
(* Repetition.                                                             *)
(***************************************************************************)
\* One or more: the ends survive, the whole is no longer finite.
DemotePlus(x) ==
    IF ~x.known THEN x
    ELSE [x EXCEPT !.known = FALSE, !.exact = {}, !.prefix = x.exact, !.suffix = x.exact,
                   !.plus = x.exact]

DemoteStar(x) ==
    LET E == x.exact \ {<<>>}
    IN  IF ~x.known \/ E = {} THEN AnyMatch(x.spent)
        ELSE [x EXCEPT !.empty = TRUE, !.known = FALSE, !.exact = {}, !.prefix = E, !.suffix = E,
                       !.plus = E]

\* affordable_copies: a copy repeats the query of the base.
Affordable(x, wanted) ==
    LET weight == QueryWeight(x.match)
    IN  IF weight = 0 THEN wanted ELSE Min({wanted, Max({1, BudgetLeft(x) \div weight})})

Powers(S, n) ==
    LET power[k \in 0 .. n] == IF k = 0 THEN {<<>>} ELSE Cross(power[k - 1], S)
    IN  power

\* bounded_power_union: the strings of all the counts, empty when too many.
BoundedPowerUnion(S, min, max) ==
    LET power  == Powers(S, max)
        held   == UNION {power[k] : k \in min .. max}
        fit(T) == Cardinality(T) <= MaxExact /\ ByteLen(T) <= MaxExactBytes
    IN  IF fit(held) /\ \A k \in 0 .. max : fit(power[k]) THEN held ELSE {}

Power(x, k) == FoldLeft(LAMBDA acc, i : Concat(acc, From(x, acc.spent)), EmptyString(x.spent),
                        [i \in 1 .. k |-> i])

\* concat_copies: the second copy, or the only one, stands for the open end.
ConcatCopies(x, copies, whole) ==
    LET demoteAt == IF copies = 1 THEN 1 ELSE 2
        part(i)  == IF i = demoteAt /\ ~whole THEN DemotePlus(x) ELSE x
    IN  FoldLeft(LAMBDA acc, i : Concat(acc, From(part(i), acc.spent)), part(1),
                 [i \in 1 .. copies - 1 |-> i + 1])

RECURSIVE ExpandFrom(_, _, _)

\* split_min_two: two copies, or three and more.
SplitMinTwo(x) ==
    LET two   == Power(x, 2)
        three == FlushSets(ExpandFrom(From(x, two.spent), 3, FALSE))
    IN  Alternate(two, three)

ExpandFrom(x, min, exactCount) ==
    LET copies == Affordable(x, Min({min, MaxRepeatExpand}))
        whole  == exactCount /\ copies = min
    IN  IF min = 2 /\ ~whole /\ copies = 2 THEN SplitMinTwo(x)
        ELSE Simplify(ConcatCopies(Spend(x, QueryWeight(x.match) * (copies - 1)), copies, whole), FALSE)

CountsOf(min, max) == Cardinality(UNION {{k} \X (1 .. k) : k \in min .. max})

\* enumerate_counts: the alternation of every allowed count.
EnumerateCounts(x, min, max) ==
    FoldLeft(LAMBDA acc, k : AlternateBranches(
                 acc, <<FlushSets(Power(From(x, SpentBy(acc, x.spent)), k))>>),
             <<>>, [i \in 1 .. max - min + 1 |-> min + i - 1])[1]

CanEnumerate(x, min, max) ==
    max \in min .. MaxRepeatExpand /\ Affordable(x, CountsOf(min, max)) = CountsOf(min, max)

Repetition(x, min, max) ==
    LET held == IF x.known /\ x.exact # {} /\ QueryWeight(x.match) = 0 /\ max # Open
                THEN BoundedPowerUnion(x.exact, min, max) ELSE {}
    IN  IF min = 0 /\ max = Open THEN DemoteStar(x)
        ELSE IF held # {} THEN Simplify([Exactly(x.spent, held) EXCEPT !.empty = <<>> \in held], FALSE)
        ELSE IF CanEnumerate(x, min, max)
        THEN EnumerateCounts(Spend(x, QueryWeight(x.match) * CountsOf(min, max)), min, max)
        ELSE IF min = 0 THEN AnyMatch(x.spent)
        ELSE ExpandFrom(x, min, max = min /\ max > MaxRepeatExpand)

(***************************************************************************)
(* The fold over the regex.                                                *)
(***************************************************************************)
\* merge_infos: from the last to the first, each flushed before it is joined.
MergeInfos(infos, spent) ==
    IF infos = <<>> THEN NoMatch(spent)
    ELSE FoldRight(LAMBDA branch, acc : AlternateBranches(
                       <<FlushSets(From(branch, SpentBy(acc, branch.spent)))>>, acc),
                   infos, <<>>)[1]

OrEmptyString(acc, spent) == IF acc = <<>> THEN EmptyString(spent) ELSE acc[1]

\* join_variant: one live alternative, crossed with one form of the child.
JoinAt(at) ==
    CASE at.blocked -> <<>>
      [] ~at.blocked /\ at.left = <<>> -> at.right
      [] OTHER -> <<Concat(at.left[1], at.right[1])>>

JoinVariant(acc, variant, pending) == JoinAt(Junction(pending, acc, <<variant>>))

Admit(state, joined) ==
    IF joined = <<>> THEN state
    ELSE [state EXCEPT !.accs = Append(@, joined), !.spent = Max({@, joined[1].spent})]

Pairs(accs, variants) ==
    [n \in 1 .. Len(accs) * Len(variants) |->
        <<accs[1 + ((n - 1) \div Len(variants))], variants[1 + ((n - 1) % Len(variants))]>>]

\* concat_variants: every live alternative with every form of the child, all
\* merged into one when they would be too many.
MergeAccs(state) ==
    <<<<MergeInfos([i \in DOMAIN state.accs |-> OrEmptyString(state.accs[i], state.spent)], state.spent)>>>>

ConcatVariants(state, variants) ==
    LET crowded == Len(state.accs) * Len(variants) > MaxConcatAlternatives
    IN  FoldLeft(LAMBDA done, pair :
                     Admit(done, JoinVariant(pair[1], From(pair[2], Max({done.spent, pair[2].spent})),
                                             state.pending)),
                 [accs |-> <<>>, pending |-> <<>>, spent |-> state.spent],
                 Pairs(IF crowded THEN MergeAccs(state) ELSE state.accs, variants))

\* note_look: a leading start anchor stands for the line break before it.
NoteLook(state, look) ==
    IF state.accs = <<<<>>>> /\ StartTerminators(look) # {}
    THEN [state EXCEPT !.accs = <<<<Exactly(state.spent, StartTerminators(look))>>>>]
    ELSE [state EXCEPT !.pending = Append(@, look)]

\* finish_concat_branch: the trailing anchor, then the assertions left over.
JoinTrailing(acc, trailing, spent) ==
    CASE trailing = {} -> OrEmptyString(acc, spent)
      [] trailing # {} /\ acc = <<>> -> Exactly(spent, trailing)
      [] OTHER -> Concat(acc[1], Exactly(spent, trailing))

Surviving(at) == IF at.blocked THEN <<>> ELSE at.left

FinishBranch(acc, trailing, pending, spent) ==
    Surviving(Junction(pending, <<JoinTrailing(acc, trailing, spent)>>, <<>>))

\* finish_concat.
Finish(state, trailing) ==
    MergeInfos(FoldLeft(LAMBDA infos, acc :
                            infos \o FinishBranch(acc, trailing, state.pending,
                                         Max({state.spent} \cup {infos[i].spent : i \in DOMAIN infos})),
                        <<>>, state.accs), state.spent)

RECURSIVE AnalyzeHir(_, _, _)

\* analyze_variants.
Variants(hir, fold, spent) ==
    IF hir.k = "Class" /\ IsMixed(hir.members)
    THEN <<FoldInfo(ClassInfo(spent, Ascii(hir.members)), fold),
           FoldInfo(ClassInfo(spent, hir.members \ Ascii(hir.members)), fold)>>
    ELSE <<AnalyzeHir(hir, fold, spent)>>

ConcatStep(state, sub, fold) ==
    CASE state.accs = <<>> -> state
      [] state.accs # <<>> /\ sub.k = "Look" -> NoteLook(state, sub.look)
      [] OTHER -> ConcatVariants(state, Variants(sub, fold, state.spent))

FoldConcat(subs, fold, spent) ==
    LET trailing == IF Last(subs).k = "Look" THEN EndTerminators(Last(subs).look) ELSE {}
    IN  Finish(FoldLeft(LAMBDA state, sub : ConcatStep(state, sub, fold),
                        [accs |-> <<<<>>>>, pending |-> <<>>, spent |-> spent],
                        IF trailing = {} THEN subs ELSE Front(subs)), trailing)

FoldAlternate(subs, fold, spent) ==
    FoldLeft(LAMBDA acc, sub : AlternateBranches(
                 acc, <<FlushSets(AnalyzeHir(sub, fold, SpentBy(acc, spent)))>>), <<>>, subs)[1]

AnalyzeHir(hir, fold, spent) ==
    CASE hir.k \in {"Empty", "Look"} -> EmptyString(spent)
      [] hir.k = "Cap" -> AnalyzeHir(hir.sub, fold, spent)
      [] hir.k = "Cat" -> FoldConcat(hir.subs, fold, spent)
      [] hir.k = "Alt" -> FoldAlternate(hir.subs, fold, spent)
      [] hir.k = "Rep" -> Repetition(AnalyzeHir(hir.sub, fold, spent), hir.min, hir.max)
      [] hir.k = "Lit" -> Simplify(Literal(spent, IF fold THEN Folded(hir.bytes) ELSE hir.bytes), FALSE)
      [] OTHER         -> Simplify(FoldInfo(ClassInfo(spent, hir.members), fold), FALSE)

\* Analyzer::plan: the edges of the whole pattern are flushed on any budget.
PlanQuery(hir, fold) ==
    AddExact(Simplify([AnalyzeHir(hir, fold, 0) EXCEPT !.final = TRUE], TRUE)).match
=============================================================================
