------------------------------ MODULE Matching ------------------------------
(***************************************************************************)
(* What the index promises: Lookup beside the search it stands in for.     *)
(*                                                                         *)
(* The matcher is the regex crate's, a library: here it is the set of all  *)
(* the spans a regex may match, so that no choice between alternatives or  *)
(* of greediness matters.                                                  *)
(***************************************************************************)
EXTENDS Lookup

WordBefore(s, i) == i > 0 /\ LastScalar(SubSeq(s, 1, i)) \in WordScalars
WordAfter(s, i)  == i < Len(s) /\ FirstScalar(SubSeq(s, i + 1, Len(s))) \in WordScalars

AtWordEdge(s, i) == WordBefore(s, i) # WordAfter(s, i)

LookHolds(look, s, i) ==
    CASE look = "Start"   -> i = 0
      [] look = "End"     -> i = Len(s)
      [] look = "StartLF" -> i = 0 \/ s[i] = LF
      [] look = "EndLF"   -> i = Len(s) \/ s[i + 1] = LF
      [] look = "EndCRLF" -> \/ i = Len(s) \/ s[i + 1] = CR
                             \/ s[i + 1] = LF /\ (i = 0 \/ s[i] # CR)
      [] look \in {"WordAscii", "WordUnicode"}             -> AtWordEdge(s, i)
      [] look \in {"WordAsciiNegate", "WordUnicodeNegate"} -> ~AtWordEdge(s, i)

StartsAt(s, i, t) == i + Len(t) <= Len(s) /\ Text(s, i, i + Len(t)) = t

\* Where a match from offset i may end.
RECURSIVE MatchEnds(_, _, _)

RepeatEnds(hir, s, i) ==
    LET once(E) == UNION {MatchEnds(hir.sub, s, e) : e \in E}
        least   == FoldLeft(LAMBDA E, k : once(E), {i}, [k \in 1 .. hir.min |-> k])
        more    == IF hir.max = Open THEN Len(s) - i ELSE hir.max - hir.min
    IN  FoldLeft(LAMBDA E, k : E \cup once(E), least, [k \in 1 .. more |-> k])

MatchEnds(hir, s, i) ==
    CASE hir.k = "Empty" -> {i}
      [] hir.k = "Look"  -> IF LookHolds(hir.look, s, i) THEN {i} ELSE {}
      [] hir.k = "Lit"   -> IF StartsAt(s, i, hir.bytes) THEN {i + Len(hir.bytes)} ELSE {}
      [] hir.k = "Class" -> {i + Len(m) : m \in {c \in hir.members : StartsAt(s, i, c)}}
      [] hir.k = "Cap"   -> MatchEnds(hir.sub, s, i)
      [] hir.k = "Cat"   -> FoldLeft(LAMBDA E, sub : UNION {MatchEnds(sub, s, e) : e \in E}, {i}, hir.subs)
      [] hir.k = "Alt"   -> UNION {MatchEnds(hir.subs[n], s, i) : n \in DOMAIN hir.subs}
      [] hir.k = "Rep"   -> RepeatEnds(hir, s, i)

MatchesIn(hir, s) == \E i \in 0 .. Len(s) : MatchEnds(hir, s, i) # {}

\* The lines a search hands to the matcher; there is none after a last break.
SearchedLines(s) ==
    {SubSeq(s, line[1], line[2]) : line \in {l \in LinesOf(s) : l[1] <= Len(s)}}

Searched(file) == SearchablePrefix(WithoutUtf8Bom(file.bytes))

FileMatches(file, pattern) ==
    IF pattern.multiline THEN Searched(file) # <<>> /\ MatchesIn(pattern.hir, Searched(file))
    ELSE \E line \in SearchedLines(Searched(file)) : MatchesIn(pattern.hir, line)

Matching(pattern) == {ord \in DOMAIN disk : FileMatches(disk[ord], pattern)}

(***************************************************************************)
(* Properties.                                                             *)
(***************************************************************************)
\* A file the plain search finds a match in satisfies the plan as it was made:
\* grams, lines, edges of words and lines, and conditions on the summary.
PlanAdmitsMatches ==
    (Ready /\ query.kind \in {"Candidates", "Impossible"}) =>
        Matching(query.index.pattern) \subseteq
            Execute(query.index.plan, query.index.precision)

\* The bytes of every match in what is searched.
MatchTexts(hir, s) ==
    UNION {{Text(s, i, j) : j \in MatchEnds(hir, s, i)} : i \in 0 .. Len(s)}

RECURSIVE IsLookFree(_)
IsLookFree(hir) ==
    CASE hir.k = "Look"            -> FALSE
      [] hir.k \in {"Cap", "Rep"}  -> IsLookFree(hir.sub)
      [] hir.k \in {"Cat", "Alt"}  -> \A n \in DOMAIN hir.subs : IsLookFree(hir.subs[n])
      [] OTHER                     -> TRUE

Infos == [pattern \in Patterns |-> AnalyzeHir(pattern.hir, pattern.fold, 0)]

\* The sets of the analysis are exhaustive, when a pattern is asked for: a match
\* is a member of exact, or it starts with a member of prefix and ends with one
\* of suffix (info.rs), however the sets were cut to stay small.
IsCaught(m, info) ==
    CASE m = <<>>   -> info.empty
      [] info.known -> m \in info.exact
      [] OTHER      -> /\ \E p \in info.prefix : IsPrefix(p, m)
                       /\ \E t \in info.suffix : IsSuffix(t, m)

CatchesMatches(pattern) ==
    IsLookFree(pattern.hir) =>
        \A ord \in DOMAIN disk : \A text \in MatchTexts(pattern.hir, Searched(disk[ord])) :
            IsCaught(IF pattern.fold THEN Folded(text) ELSE text, Infos[pattern])

SetsAreExhaustive == [][query' # query => CatchesMatches(query'.index.pattern)]_vars

\* No file with a match is missing from the candidates, tuned and executed
\* either way: what is dropped to make a lookup cheap only widens it.
CandidatesComplete ==
    query.kind = "Candidates" => Matching(query.index.pattern) \subseteq query.ords

\* The fast path answers what the executor answers.
FastAgrees ==
    query.kind = "Candidates" => query.ords = Execute(query.tuned, query.index.precision)

\* A query is refused by its estimate: that must never be below what it selects.
EstimateIsABound ==
    query.kind = "Candidates" => Cardinality(query.ords) <= query.estimate
=============================================================================
