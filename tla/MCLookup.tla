------------------------------ MODULE MCLookup ------------------------------
(***************************************************************************)
(* Lookup on short documents over a few bytes, with every limit scaled     *)
(* down so that it is reached, and patterns that put the parts of a regex  *)
(* beside each other in all the ways the analysis treats apart.            *)
(***************************************************************************)
EXTENDS Matching

a  == 97
b  == 98
up == 65
no == 45
accented == <<195, 169>>

MCAlphabet    == {a, b, up, no, LF, CR}
MCWordScalars == {<<x>> : x \in {a, b, up}} \cup {accented}

\* Light and heavy pairs of bytes, some as heavy as others; the pairs of the
\* longest files below grow lighter until the stack of a scanner is full.
MCWeight(x, y) == (x * 5 + y * 3 + ((x * y) % 7)) % 8

(***************************************************************************)
(* Corpora: two fixed files, with few grams or with many, and any third.   *)
(***************************************************************************)
Words(S, n) == UNION {[1 .. k -> S] : k \in 0 .. n}

File(s)     == [bytes |-> s, explicit |-> FALSE, oversized |-> FALSE]
Explicit(s) == [File(s) EXCEPT !.explicit = TRUE]

Plain == Words({a, b, LF}, 4) \cup Words({a, up, no}, 4)
            \cup {<<b, no, b, up, up, b, no, a, x>> : x \in {a, b, no, up}}
            \cup {<<a, b, a, b, a, b, b>>, <<a, a, b, a, LF, a, b, b>>, <<a, LF, b, LF, a, b, a, LF>>}

Wide == {<<a>> \o accented \o <<b>>, accented \o <<a, b>>, <<b, a>> \o accented, accented}

Odd == {Explicit(<<a, b, NUL, a>>), File(<<a, b, a, NUL, b, b>>), File(<<NUL, a>>),
        File(Utf8Bom \o <<a, b, a>>), File(<<255, 254, a, NUL, b, NUL>>),
        [File(<<a, b, a>>) EXCEPT !.oversized = TRUE],
        File(<<a, CR, LF, b, CR, LF>>), File(<<up, no, b, up, a, b, LF, b>>)}

MCCorpora ==
    {<<File(<<no, no>>), File(<<>>), File(s)>> : s \in Plain \cup Wide}
        \cup {<<File(<<a, b, a, b, b, a>>), File(<<b, b, a, a, LF, a, b, a>>), File(s)>> : s \in Words({a, b}, 4)}
        \cup {<<File(<<a, b, a>>), file>> : file \in Odd}

(***************************************************************************)
(* Patterns, in the form regex-syntax leaves them in.                      *)
(***************************************************************************)
Empty        == [k |-> "Empty"]
Look(l)      == [k |-> "Look", look |-> l]
Lit(s)       == [k |-> "Lit", bytes |-> s]
Class(S)     == [k |-> "Class", members |-> S]
Cap(h)       == [k |-> "Cap", sub |-> h]
Alt(s)       == [k |-> "Alt", subs |-> s]
Rep(h, m, n) == [k |-> "Rep", sub |-> h, min |-> m, max |-> n]
Star(h)      == Rep(h, 0, Open)
Plus(h)      == Rep(h, 1, Open)

\* Hir::concat: nested concatenations are flattened, adjacent literals merged.
Flat(parts) ==
    FlattenSeq([i \in DOMAIN parts |-> IF parts[i].k = "Cat" THEN parts[i].subs
                                       ELSE IF parts[i].k = "Empty" THEN <<>> ELSE <<parts[i]>>])

Cat(parts) ==
    LET merge(done, h) ==
            IF done # <<>> /\ Last(done).k = "Lit" /\ h.k = "Lit"
            THEN Append(Front(done), Lit(Last(done).bytes \o h.bytes)) ELSE Append(done, h)
        subs == FoldLeft(merge, <<>>, Flat(parts))
    IN  IF Len(subs) = 1 THEN subs[1] ELSE [k |-> "Cat", subs |-> subs]

AB    == Class({<<a>>, <<b>>})
NotLF == Class({<<a>>, <<b>>, <<up>>, <<no>>, accented})
Word  == Class(MCWordScalars)
AnyA  == Class({<<a>>, <<up>>})

Atoms == {Lit(<<a, b>>), Lit(<<b, a, b>>), AB, Star(NotLF), Plus(AB), Rep(Cap(Lit(<<b>>)), 0, 1),
          Rep(Cap(Lit(<<a, b>>)), 2, Open), Rep(AB, 2, 3), Plus(Word),
          Alt(<<Lit(<<a, a>>), Lit(<<b, a, b>>)>>),
          Alt(<<Lit(<<a, a>>), Cat(<<Lit(<<b>>), AB>>), Empty>>)}

Cores == {Lit(<<a, b, a>>), Cat(<<Lit(<<b, b>>), AB>>), Alt(<<Lit(<<a, a>>), Lit(<<b, a, b>>)>>), Lit(<<b>>)}

Runs == {Rep(Cap(Lit(<<a, b>>)), 2, Open), Rep(AB, 2, 3), AB}

Framings == {<<Look("StartLF"), Empty>>, <<Empty, Look("EndLF")>>, <<Look("StartLF"), Look("EndLF")>>,
             <<Look("WordUnicode"), Look("WordUnicode")>>, <<Look("WordAsciiNegate"), Empty>>,
             <<Empty, Look("WordUnicodeNegate")>>, <<Look("Start"), Empty>>, <<Empty, Look("End")>>}

Folds == {Cat(<<AnyA, Lit(<<no>>), AnyA>>), Cat(<<Lit(<<no>>), Plus(AnyA)>>), Cat(<<AnyA, AnyA, AnyA>>),
          Cat(<<Look("StartLF"), AnyA, AnyA>>)}

Multis == {Cat(<<Lit(<<a, LF>>), AB>>), Cat(<<Lit(<<a>>), Look("EndLF"), Lit(<<LF>>), Look("StartLF"), AB>>),
           Cat(<<AB, Star(NotLF), Lit(<<LF, b>>)>>), Cat(<<Look("Start"), Lit(<<a, LF>>)>>),
           Cat(<<Lit(<<a>>), Look("EndCRLF")>>)}

Pattern(h) == [hir |-> h, fold |-> FALSE, multiline |-> FALSE]

MCPatterns ==
    {Pattern(Cat(<<x, y>>)) : x, y \in Atoms}
        \cup {Pattern(Cat(<<x, Star(Lit(<<a>>)), y>>)) : x, y \in Runs}
        \cup {Pattern(Lit(<<a, a, b, b>>)), Pattern(Lit(<<b, a, b, b, a>>))}
        \cup {Pattern(Cat(<<f[1], h, f[2]>>)) : f \in Framings, h \in Cores}
        \cup {Pattern(Cat(<<x, Lit(<<a, b>>), y>>)) : x, y \in {AB, Plus(AB), Plus(Word)}}
        \cup {[Pattern(h) EXCEPT !.fold = TRUE] : h \in Folds}
        \cup {[Pattern(h) EXCEPT !.multiline = TRUE] : h \in Multis}
        \cup {Pattern(Cat(<<Lit(<<a, b>>), Look("WordUnicode"), Lit(<<a>>)>>))}

\* a*[ab]+a: a part that may be empty before a run.
PlusPatterns == {Pattern(Cat(<<Star(Lit(<<a>>)), Plus(AB), Lit(<<a>>)>>))}

\* -x -e '^ab' -e b, which is planned as ^(?:^ab|b)$.
AnchorPatterns ==
    {Pattern(Cat(<<Look("StartLF"), Cap(Alt(<<Cat(<<Look("StartLF"), Lit(<<a, b>>)>>), Lit(<<b>>)>>)),
                   Look("EndLF")>>))}

PairCorpora == {<<File(<<no, no>>), File(s)>> : s \in Words({a, b}, 3)}
=============================================================================
