------------------------------- MODULE Scanner -------------------------------
(***************************************************************************)
(* A document on its way into the index: the scanner takes it byte by byte *)
(* through the raw space and, from the first uppercase byte on, through    *)
(* the folded one (scan/engine.rs).  Lookup runs it over every file.       *)
(***************************************************************************)
EXTENDS Scan

VARIABLE
    scan       \* the scan under way, NoScan between two

NoScan == [on |-> FALSE, text |-> <<>>, pushed |-> 0, raw |-> NewSpace, folded |-> <<>>, grams |-> {}]

\* push_to_spaces: the grams a byte ends, in the raw space and, from the first
\* uppercase byte on, in the folded one.
FoldedBefore(sc, b) ==
    IF sc.folded # <<>> THEN sc.folded
    ELSE IF IsUpper(b) THEN <<FoldedTwin(sc.raw)>> ELSE <<>>

\* The document is framed by two line breaks; spans count from the content.
Framed(s) == <<LF>> \o s \o <<LF>>

Gram(space, s, at) ==
    LET text == Text(Framed(s), at[1], at[2])
    IN  [key   |-> Key(space, IF space = "Folded" THEN Folded(text) ELSE text),
         start |-> Min({Max({0, at[1] - 1}), Len(s)}),
         end   |-> Min({at[2] - 1, Len(s)})]

PushByte(sc) ==
    LET b      == Framed(sc.text)[sc.pushed + 1]
        folded == FoldedBefore(sc, b)
    IN  [sc EXCEPT !.pushed = @ + 1,
                   !.raw    = StepByte(@, b),
                   !.folded = [i \in DOMAIN folded |-> StepByte(folded[i], b)],
                   !.grams  = @ \cup {Gram("Raw", sc.text, at) : at \in Emits(sc.raw, b)}
                                \cup UNION {{Gram("Folded", sc.text, at) : at \in Emits(folded[i], b)} :
                                                i \in DOMAIN folded}]

\* The leading break.
BeginDocument(text) ==
    /\ scan = NoScan
    /\ scan' = PushByte([NoScan EXCEPT !.on = TRUE, !.text = text])

Scanned == scan.on /\ scan.pushed = Len(Framed(scan.text))

PushContent ==
    /\ scan.on /\ ~Scanned
    /\ scan' = PushByte(scan)

FinishDocument ==
    /\ Scanned
    /\ scan' = NoScan

\* The documents of a build, whatever their bytes.
Scans ==
    /\ scan = NoScan
    /\ [][(\E text \in Seq(Byte) \ {<<>>} : BeginDocument(text)) \/ PushContent \/ FinishDocument]_scan

(***************************************************************************)
(* Properties.                                                             *)
(***************************************************************************)
\* The definition of a sparse gram: a span whose inner pairs are all lighter
\* than the pair at either end.
PairAt(s, i) == Weight(s[i], s[i + 1])

IsHull(s, start, end) ==
    /\ end - start \in MinGramLen .. MaxGramLen
    /\ \A i \in start + 2 .. end - 2 : PairAt(s, i) < PairAt(s, start + 1) /\ PairAt(s, i) < PairAt(s, end - 1)

Hulls(s) == {at \in (0 .. Len(s)) \X (0 .. Len(s)) : IsHull(s, at[1], at[2])}

Read(s, at) == Text(s, at[1], at[2])

\* A document is indexed under exactly its sparse grams, read in both cases:
\* neither the cap of the stack nor the late start of the folded space, at the
\* first uppercase byte, loses one or makes one up.
ScanFindsTheHulls ==
    Scanned =>
        LET s     == Framed(scan.text)
            lower == Folded(s)
        IN  {g.key : g \in scan.grams} =
                {Key("Raw", Read(s, at)) : at \in Hulls(s)}
                    \cup {Key("Folded", Read(lower, at)) :
                              at \in {p \in Hulls(lower) : Read(s, p) # Read(lower, p)}}

\* What the planner demands of a document for a literal is what the scanner
\* has indexed of every document with that literal, wherever it stands in it.
CoverIsIndexed ==
    Scanned => LET s == Framed(scan.text)
               IN  \A i, j \in 0 .. Len(s) : i < j =>
                       \A gram \in GuaranteedCover(Text(s, i, j)) :
                           \E g \in scan.grams : g.key = Key("Raw", gram)
=============================================================================
