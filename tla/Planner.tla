------------------------------ MODULE Planner ------------------------------
(***************************************************************************)
(* From the query to the plan an index can answer: query/planner, the      *)
(* conditions on the summary of a document (query/needs, query/edges.rs)   *)
(* and the tuning of a plan to what an index holds (query/plan).           *)
(*                                                                         *)
(* A plan is a tree of [kind |-> All | None | AllOf | AnyOf, grams, needs, *)
(* children], its grams a sequence of needles, the rest sets and trees.    *)
(***************************************************************************)
EXTENDS Analyze

CONSTANTS
    Alphabet,          \* the bytes of patterns and documents
    MaxAllOfGrams,     \* MAX_ALL_OF_GRAMS, 32
    MaxAnyByteSets,    \* MAX_ANY_BYTE_SETS, 4
    MaxAnyByteSetLen   \* MAX_ANY_BYTE_SET_LEN, 128

ASSUME PlannerAssumption ==
    {MaxAllOfGrams, MaxAnyByteSets, MaxAnyByteSetLen} \subseteq Nat \ {0}

(***************************************************************************)
(* What every match needs of a document (needs/facts.rs).                  *)
(***************************************************************************)
\* Byte b, how often it must occur.  Counts saturate at 255.
RECURSIVE NeedCount(_, _)
NeedCount(hir, b) ==
    CASE hir.k = "Lit" -> Min({255, CountOf(hir.bytes, b)})
      [] hir.k = "Rep" -> Min({255, NeedCount(hir.sub, b) * hir.min})
      [] hir.k = "Cap" -> NeedCount(hir.sub, b)
      [] hir.k = "Cat" -> FoldLeft(LAMBDA n, sub : Min({255, n + NeedCount(sub, b)}), 0, hir.subs)
      [] hir.k = "Alt" -> Min({NeedCount(hir.subs[i], b) : i \in DOMAIN hir.subs})
      [] OTHER         -> 0

RECURSIVE CanMatchNewline(_)
CanMatchNewline(hir) ==
    CASE hir.k = "Lit"          -> \E i \in DOMAIN hir.bytes : hir.bytes[i] = LF
      [] hir.k = "Class"        -> <<LF>> \in hir.members
      [] hir.k = "Rep"          -> hir.max # 0 /\ CanMatchNewline(hir.sub)
      [] hir.k = "Cap"          -> CanMatchNewline(hir.sub)
      [] hir.k \in {"Cat", "Alt"} -> \E i \in DOMAIN hir.subs : CanMatchNewline(hir.subs[i])
      [] OTHER                  -> FALSE

RECURSIVE MinMatchLen(_)
MinMatchLen(hir) ==
    CASE hir.k = "Lit"   -> Len(hir.bytes)
      [] hir.k = "Class" -> 1
      [] hir.k = "Rep"   -> hir.min * MinMatchLen(hir.sub)
      [] hir.k = "Cap"   -> MinMatchLen(hir.sub)
      [] hir.k = "Cat"   -> FoldLeft(LAMBDA n, sub : n + MinMatchLen(sub), 0, hir.subs)
      [] hir.k = "Alt"   -> Min({MinMatchLen(hir.subs[i]) : i \in DOMAIN hir.subs})
      [] OTHER           -> 0

(***************************************************************************)
(* The bytes one must meet (needs/classes.rs) and the edges (edges.rs).    *)
(***************************************************************************)
\* class_edge_bytes: any continuation byte may end a character of several.
ClassBytes(members, edge) ==
    IF edge = "Start" THEN {m[1] : m \in members}
    ELSE {m[1] : m \in Ascii(members)}
             \cup (IF members = Ascii(members) THEN {} ELSE 128 .. 191)

BySize(sets) == SortSeq(sets, LAMBDA S, T : Cardinality(S) < Cardinality(T))

\* collect: one set for every class a match must pass through.
RECURSIVE RequiredSets(_)
RequiredSets(hir) ==
    CASE hir.k = "Class" -> <<ClassBytes(hir.members, "Start")>>
      [] hir.k = "Cap"   -> RequiredSets(hir.sub)
      [] hir.k = "Rep"   -> IF hir.min >= 1 THEN RequiredSets(hir.sub) ELSE <<>>
      [] hir.k = "Cat"   -> FlattenSeq([i \in DOMAIN hir.subs |-> RequiredSets(hir.subs[i])])
      [] hir.k = "Alt"   ->
            LET branches == [i \in DOMAIN hir.subs |-> BySize(RequiredSets(hir.subs[i]))]
            IN  [n \in 1 .. Min({Len(branches[i]) : i \in DOMAIN branches}) |->
                    UNION {branches[i][n] : i \in DOMAIN branches}]
      [] OTHER           -> <<>>

\* required: the smallest of them.
AnyByteSets(hir) ==
    LET sets == BySize(SelectSeq(RequiredSets(hir),
                                 LAMBDA S : S # {} /\ Cardinality(S) <= MaxAnyByteSetLen))
        fresh == {i \in DOMAIN sets : i = 1 \/ sets[i] # sets[i - 1]}
    IN  {sets[i] : i \in {j \in fresh : Cardinality({h \in fresh : h < j}) < MaxAnyByteSets}}

IsLineLook(hir, edge) ==
    /\ hir.k = "Look"
    /\ hir.look \in IF edge = "Start" THEN {"Start", "StartLF"} ELSE {"End", "EndLF"}

IsDocLook(hir, edge) == hir.k = "Look" /\ hir.look = edge

\* Edge::ordered: from the edge inwards.
Ordered(subs, edge) == IF edge = "Start" THEN subs ELSE Reverse(subs)

\* edge_bytes: what a match can begin, or end, with.
RECURSIVE EdgeBytesOf(_, _)

\* The bytes of a row of parts, up to the first that cannot be empty.
EdgeOfRow(subs, edge) ==
    FoldLeft(LAMBDA acc, sub :
                 IF ~acc.empty THEN acc
                 ELSE [set |-> acc.set \cup EdgeBytesOf(sub, edge).set, empty |-> EdgeBytesOf(sub, edge).empty],
             [set |-> {}, empty |-> TRUE], Ordered(subs, edge))

EdgeBytesOf(hir, edge) ==
    CASE hir.k \in {"Empty", "Look"} -> [set |-> {}, empty |-> TRUE]
      [] hir.k = "Lit"   -> [set   |-> {hir.bytes[IF edge = "Start" THEN 1 ELSE Len(hir.bytes)]},
                             empty |-> FALSE]
      [] hir.k = "Class" -> [set |-> ClassBytes(hir.members, edge), empty |-> FALSE]
      [] hir.k = "Cap"   -> EdgeBytesOf(hir.sub, edge)
      [] hir.k = "Rep"   -> [EdgeBytesOf(hir.sub, edge) EXCEPT !.empty = @ \/ hir.min = 0]
      [] hir.k = "Cat"   -> EdgeOfRow(hir.subs, edge)
      [] OTHER           -> [set   |-> UNION {EdgeBytesOf(hir.subs[i], edge).set : i \in DOMAIN hir.subs},
                             empty |-> \E i \in DOMAIN hir.subs : EdgeBytesOf(hir.subs[i], edge).empty]

\* anchored_edge_bytes: what stands beside a line anchor, empty when unknown.
RECURSIVE AnchoredBytes(_, _)
AnchoredBytes(hir, edge) ==
    CASE hir.k = "Cap" -> AnchoredBytes(hir.sub, edge)
      [] hir.k = "Rep" -> IF hir.min >= 1 THEN AnchoredBytes(hir.sub, edge) ELSE {}
      [] hir.k = "Alt" -> IF \E i \in DOMAIN hir.subs : AnchoredBytes(hir.subs[i], edge) = {} THEN {}
                          ELSE UNION {AnchoredBytes(hir.subs[i], edge) : i \in DOMAIN hir.subs}
      [] hir.k = "Cat" -> LET row == Ordered(hir.subs, edge)
                              at  == EdgeOfRow(Ordered(Tail(row), edge), edge)
                          IN  IF IsLineLook(row[1], edge) /\ ~at.empty THEN at.set ELSE {}
      [] OTHER         -> {}

LineAnchorBytes(hir, edge) ==
    IF LF \in AnchoredBytes(hir, edge) THEN {} ELSE AnchoredBytes(hir, edge)

\* doc_edge_literal, empty when there is none.
DocEdgeLiteral(hir, edge) ==
    LET row == IF hir.k = "Cat" THEN Ordered(hir.subs, edge) ELSE <<>>
    IN  IF Len(row) >= 2 /\ IsDocLook(row[1], edge) /\ row[2].k = "Lit"
        THEN Edge(row[2].bytes, IF edge = "Start" THEN "Prefix" ELSE "Suffix", EdgeCap)
        ELSE <<>>

(***************************************************************************)
(* RootNeeds::into_vec.                                                    *)
(***************************************************************************)
Need(kind, arg) == [kind |-> kind, arg |-> arg]

RootNeeds(hir) ==
    LET len    == MinMatchLen(hir)
        counts == [b \in {c \in Alphabet : NeedCount(hir, c) > 0} |-> NeedCount(hir, b)]
        edge(kind, set) == IF set = {} THEN {} ELSE {Need(kind, set)}
        text(kind, lit) == IF lit = <<>> THEN {} ELSE {Need(kind, lit)}
    IN  (IF len > 0 THEN {Need("MinByteLen", len)} ELSE {})
            \cup (IF len > 1 /\ ~CanMatchNewline(hir) THEN {Need("MinLongestLineLen", len)} ELSE {})
            \cup (IF DOMAIN counts # {} THEN {Need("MinByteCounts", counts)} ELSE {})
            \cup {Need("ContainsAnyByte", set) : set \in AnyByteSets(hir)}
            \cup edge("LineStartsWithAnyByte", LineAnchorBytes(hir, "Start"))
            \cup edge("LineEndsWithAnyByte", LineAnchorBytes(hir, "End"))
            \cup text("StartsWith", DocEdgeLiteral(hir, "Start"))
            \cup text("EndsWith", DocEdgeLiteral(hir, "End"))

StoredCount(summary, b) == IF b \in DOMAIN summary.counts THEN summary.counts[b] ELSE 0

\* A need's count is packed the way a summary's is.
Meets(need, summary) ==
    CASE need.kind = "MinByteLen"            -> summary.byteLen >= need.arg
      [] need.kind = "MinLongestLineLen"     -> summary.longestLineLen >= need.arg
      [] need.kind = "MinByteCounts"         ->
            \A b \in DOMAIN need.arg : StoredCount(summary, b) >= Min({need.arg[b], CountCap})
      [] need.kind = "ContainsAnyByte"       -> DOMAIN summary.counts \cap need.arg # {}
      [] need.kind = "LineStartsWithAnyByte" -> summary.lineStarts \cap need.arg # {}
      [] need.kind = "LineEndsWithAnyByte"   -> summary.lineEnds \cap need.arg # {}
      [] need.kind = "StartsWith"            -> IsPrefix(need.arg, summary.prefix)
      [] OTHER                               -> IsSuffix(need.arg, summary.suffix)

(***************************************************************************)
(* Lowering: a gram becomes a needle, pinned to the edges of words or      *)
(* lines where the whole pattern is one literal between them.              *)
(***************************************************************************)
RECURSIVE Uncaptured(_)
Uncaptured(hir) == IF hir.k = "Cap" THEN Uncaptured(hir.sub) ELSE hir

IsWordLook(hir) == hir.k = "Look" /\ hir.look \in {"WordAscii", "WordUnicode"}

NoEdges == [word |-> <<>>, line |-> <<>>, starts |-> FALSE, ends |-> FALSE]

\* word_edged_literal.
WordLiteral(hir) ==
    IF hir.k = "Cat" /\ Len(hir.subs) = 3 THEN
        LET mid == Uncaptured(hir.subs[2])
        IN  IF /\ IsWordLook(hir.subs[1]) /\ IsWordLook(hir.subs[3])
               /\ mid.k = "Lit" /\ IsWordByte(mid.bytes[1]) /\ IsWordByte(Last(mid.bytes))
            THEN mid.bytes ELSE <<>>
    ELSE <<>>

\* line_anchored_literal.
EdgeShapes(hir) ==
    LET subs   == IF hir.k = "Cat" THEN hir.subs ELSE <<>>
        starts == subs # <<>> /\ IsLineLook(Head(subs), "Start")
        ends   == subs # <<>> /\ IsLineLook(Last(subs), "End")
        mid    == SubSeq(subs, IF starts THEN 2 ELSE 1, IF ends THEN Len(subs) - 1 ELSE Len(subs))
        lit    == IF Len(mid) = 1 /\ (starts \/ ends) THEN Uncaptured(mid[1]) ELSE [k |-> "Empty"]
    IN  [word |-> WordLiteral(hir),
         line |-> IF lit.k = "Lit" THEN lit.bytes ELSE <<>>, starts |-> starts, ends |-> ends]

HasLetter(gram) == \E i \in DOMAIN gram : Lower(gram[i]) \in 97 .. 122

KeysOf(gram, fold) ==
    {Key("Raw", gram)} \cup IF fold /\ HasLetter(gram) THEN {Key("Folded", gram)} ELSE {}

\* A needle demands one of its keys, at an occurrence with these edge bits.
Needle(keys, edges) == [keys |-> keys, edges |-> edges]

Bits(starts, ends, start, end) ==
    (IF starts THEN {start} ELSE {}) \cup (IF ends THEN {end} ELSE {})

NeedleFor(gram, fold, edges) ==
    LET wordStarts == edges.word # <<>> /\ IsPrefix(gram, edges.word)
        wordEnds   == edges.word # <<>> /\ IsSuffix(gram, edges.word)
        lineStarts == edges.line # <<>> /\ edges.starts /\ IsPrefix(gram, edges.line)
        lineEnds   == edges.line # <<>> /\ edges.ends /\ IsSuffix(gram, edges.line)
    IN  Needle(KeysOf(gram, fold),
               CASE gram = edges.word      -> {"WordBoth"}
                 [] gram # edges.word /\ (wordStarts \/ wordEnds) ->
                        Bits(wordStarts, wordEnds, "WordStart", "WordEnd")
                 [] OTHER -> Bits(lineStarts, lineEnds, "LineStart", "LineEnd"))

Plan(kind, grams, needs, children) ==
    [kind |-> kind, grams |-> grams, needs |-> needs, children |-> children]

PlanAll  == Plan("All", <<>>, {}, <<>>)
PlanNone == Plan("None", <<>>, {}, <<>>)

\* into_public_expr.
RECURSIVE LowerQuery(_, _, _)
LowerQuery(q, fold, edges) ==
    CASE q.op = "All"  -> PlanAll
      [] q.op = "None" -> PlanNone
      [] OTHER -> Plan(IF q.op = "And" THEN "AllOf" ELSE "AnyOf",
                       FoldSet(LAMBDA gram, needles : Append(needles, NeedleFor(gram, fold, edges)),
                               <<>>, q.grams),
                       {},
                       [i \in DOMAIN q.sub |-> LowerQuery(q.sub[i], fold, edges)])

WithRootNeeds(plan, needs) ==
    CASE needs = {} \/ plan.kind = "None" -> plan
      [] plan.kind = "All"                -> Plan("AllOf", <<>>, needs, <<>>)
      [] plan.kind = "AllOf"              -> [plan EXCEPT !.needs = @ \cup needs]
      [] OTHER                            -> Plan("AllOf", <<>>, needs, <<plan>>)

\* QueryPlanner::plan, on a pattern [hir, fold].
PlanOf(pattern) ==
    WithRootNeeds(LowerQuery(PlanQuery(pattern.hir, pattern.fold), pattern.fold,
                             IF pattern.fold THEN NoEdges ELSE EdgeShapes(pattern.hir)),
                  RootNeeds(pattern.hir))

(***************************************************************************)
(* Tuning to an index, whose entries for a key df counts.                  *)
(***************************************************************************)
EstimateNeedleRarest(needle, df, total) ==
    Min({total} \cup {IF key \in DOMAIN df THEN df[key] ELSE 0 : key \in needle.keys})

EstimateNeedle(needle, df, total) ==
    Min({total, FoldSet(LAMBDA key, n : (IF key \in DOMAIN df THEN df[key] ELSE 0) + n, 0, needle.keys)})

SortGrams(grams, df, total) ==
    SortSeq(grams, LAMBDA g, h : EstimateNeedle(g, df, total) < EstimateNeedle(h, df, total))

\* retain_selective_grams, on sorted grams: too common ones go, but for the
\* first where no child is left to narrow the query.
RetainSelective(grams, keepFirst, df, total, stop) ==
    LET kept == {i \in DOMAIN grams : /\ i <= MaxAllOfGrams
                                      /\ \/ keepFirst /\ i = 1
                                         \/ EstimateNeedle(grams[i], df, total) < stop}
    IN  SubSeq(grams, 1, Cardinality(kept))

IsWeakBag(plan, df, total, stop) ==
    /\ plan.kind = "AnyOf" /\ plan.needs = {} /\ plan.children = <<>>
    /\ FoldLeft(LAMBDA n, g : n + EstimateNeedle(g, df, total), 0, plan.grams) >= stop

DropWeakBags(grams, children, df, total, stop) ==
    LET strong == SelectSeq(children, LAMBDA c : ~IsWeakBag(c, df, total, stop))
    IN  IF grams = <<>> /\ strong = <<>> THEN children ELSE strong

RECURSIVE Tune(_, _, _, _)
Tune(plan, df, total, stop) ==
    LET sorted   == SortGrams(plan.grams, df, total)
        children == [i \in DOMAIN plan.children |-> Tune(plan.children[i], df, total, stop)]
        grams    == RetainSelective(sorted, plan.children = <<>>, df, total, stop)
    IN  CASE plan.kind \in {"All", "None"} -> plan
          [] plan.kind = "AllOf" -> [plan EXCEPT !.grams = grams,
                                                 !.children = DropWeakBags(grams, children, df, total, stop)]
          [] OTHER               -> [plan EXCEPT !.grams = sorted, !.children = children]
=============================================================================
