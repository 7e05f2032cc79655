-------------------------------- MODULE Scan --------------------------------
(***************************************************************************)
(* The sparse grams of a byte string: which spans of a document the        *)
(* scanner emits as index keys, which spans of a literal every document    *)
(* that holds it is sure to have emitted, and what a document leaves in    *)
(* the index, its postings and its summary.                                *)
(*                                                                         *)
(* A gram key is the text it hashes with the space, raw or case folded, it *)
(* was read in: a collision of hashes only ever adds candidates.  Offsets  *)
(* of spans count from zero and exclude their end, as in the code.         *)
(***************************************************************************)
EXTENDS Integers, Sequences, FiniteSets, SequencesExt

CONSTANTS
    Weight(_, _),    \* the weight table, on pairs of bytes
    MaxGramLen,      \* MAX_GRAM_LEN, 16 in the code
    StackCap,        \* STACK_CAP, 128 in the code
    EdgeCap,         \* EdgeBytes::CAPACITY, 16 in the code
    CountCap,        \* where a stored byte count saturates, 15 in the code
    BucketCount,     \* BUCKET_COUNT, 5 in the code
    EntropyMin       \* ENTROPY_MIN_BYTES, 4096 in the code

MinGramLen == 3
Saturated  == 255

ASSUME ScanAssumption ==
    /\ MaxGramLen \in Nat /\ MinGramLen <= MaxGramLen
    /\ StackCap \in Nat /\ MaxGramLen - 1 <= StackCap
    /\ EdgeCap \in Nat \ {0} /\ CountCap \in Nat \ {0}
    /\ BucketCount \in Nat \ {0} /\ EntropyMin \in Nat

\* Bytes, and the weights of their pairs.
Byte == 0 .. 255

ASSUME WeightAssumption == \A x, y \in Byte : Weight(x, y) \in Nat

NUL == 0
LF  == 10
CR  == 13

Utf8Bom       == <<239, 187, 191>>
Lower(b)      == IF b \in 65 .. 90 THEN b + 32 ELSE b
Folded(s)     == [k \in DOMAIN s |-> Lower(s[k])]
IsUpper(b)    == b \in 65 .. 90
IsWordByte(b) == b \in (48 .. 57) \cup (65 .. 90) \cup (97 .. 122) \cup {95}

\* The bytes of a text between two offsets.
Text(s, start, end) == SubSeq(s, start + 1, end)

\* What the index knows a gram by.
Key(space, text) == [space |-> space, text |-> text]

(***************************************************************************)
(* SpaceScanner: a stack of the pairs of bytes still open to the left.     *)
(***************************************************************************)
NewSpace == [stack |-> <<>>, pos |-> 0, prev |-> 0, changed |-> 0, folded |-> FALSE]

\* The folded space mirrors the raw one until the first uppercase byte.
FoldedTwinFresh(s) == [NewSpace EXCEPT !.folded = TRUE, !.pos = s.pos, !.prev = s.prev]

FoldedTwin(s) == [s EXCEPT !.folded = TRUE, !.changed = 0]

Mapped(s, raw) == IF s.folded THEN Lower(raw) ELSE raw

CloseStackShort(stack, w) ==
    LET stops == {i \in DOMAIN stack : stack[i].weight >= w}
        last  == IF stops = {} THEN 0 ELSE Max(stops)
    IN  [starts |-> {stack[i].start : i \in (last + 1) .. Len(stack)},
         kept   |-> SubSeq(stack, 1, last)]

\* A pair of weight w closes every lighter pair on the stack and meets the
\* first that is not lighter, which leaves too when it is as heavy.
CloseStack(stack, w) ==
    LET stops == {i \in DOMAIN stack : stack[i].weight >= w}
        last  == IF stops = {} THEN 0 ELSE Max(stops)
    IN  [starts |-> {stack[i].start : i \in {k \in DOMAIN stack : k >= last}},
         kept   |-> SubSeq(stack, 1, IF last # 0 /\ stack[last].weight = w THEN last - 1 ELSE last)]

PushEntry(stack, entry) ==
    Append(IF Len(stack) = StackCap THEN Tail(stack) ELSE stack, entry)

ChangedEnd(s, raw) == IF Mapped(s, raw) # raw THEN s.pos + 1 ELSE s.changed

StepByte(s, raw) ==
    LET byte == Mapped(s, raw)
        w    == Weight(s.prev, byte)
    IN  [s EXCEPT !.stack   = IF s.pos = 0 THEN @
                              ELSE PushEntry(CloseStack(@, w).kept,
                                             [start |-> s.pos - 1, weight |-> w]),
                  !.pos     = @ + 1,
                  !.prev    = byte,
                  !.changed = ChangedEnd(s, raw)]

\* emit_hull: the spans that end with this byte.  A folded gram without a
\* changed byte is the raw gram, and is left to the raw space.
Emits(s, raw) ==
    {<<start, s.pos + 1>> : start \in
        {st \in IF s.pos = 0 THEN {}
                ELSE CloseStack(s.stack, Weight(s.prev, Mapped(s, raw))).starts :
            /\ s.pos + 1 - st <= MaxGramLen
            /\ s.folded => ChangedEnd(s, raw) > st}}

(***************************************************************************)
(* Cover: the spans of a literal that every document with the literal has. *)
(***************************************************************************)
EmitsLen(n) == n \in MinGramLen .. MaxGramLen

\* CoverStack::drain: chain what is left of the stack.
Drain(entries) ==
    {<<entries[i].start, entries[i + 1].start + 2>> : i \in 1 .. Len(entries) - 1}

EvictFront(c, start) ==
    IF Len(c.entries) <= 1 \/ start + MinGramLen - c.entries[1].start < MaxGramLen THEN c
    ELSE [entries |-> Tail(c.entries),
          spans   |-> c.spans \cup {<<c.entries[1].start, c.entries[2].start + 2>>}]

\* A pair pops the lighter ones off the back.  When none is as heavy it gets to
\* those of the weight of the front: the plateau is glued to it and drained.
PopLighter(c, start, w) ==
    LET heavy   == {i \in DOMAIN c.entries : c.entries[i].weight >= w}
        level   == {i \in DOMAIN c.entries : c.entries[i].weight = c.entries[1].weight}
        plateau == SubSeq(c.entries, 1, Max(level))
    IN  IF heavy # {} \/ c.entries = <<>>
        THEN [c EXCEPT !.entries = SubSeq(@, 1, IF heavy = {} THEN 0 ELSE Max(heavy))]
        ELSE [entries |-> <<>>,
              spans   |-> c.spans \cup {<<Last(plateau).start, start + 2>>} \cup Drain(plateau)]

Observe(c, start, w) ==
    LET popped == PopLighter(EvictFront(c, start), start, w)
    IN  [popped EXCEPT !.entries = Append(@, [start |-> start, weight |-> w])]

\* The stack of the cover, byte by byte.
CoverPass(lit) ==
    LET after[k \in 0 .. Len(lit)] ==
            IF k <= 1 THEN [entries |-> <<>>, spans |-> {}]
            ELSE Observe(after[k - 1], k - 2, Weight(lit[k - 1], lit[k]))
    IN  after

\* Cover::each_minimal_span: a chain of grams that covers the literal.
MinimalSpans(lit) ==
    LET done == CoverPass(lit)[Len(lit)]
    IN  {at \in done.spans \cup Drain(done.entries) : EmitsLen(at[2] - at[1])}

\* literal_scanner: a scan of the literal on its own, and the spans it emits.
LiteralPass(lit) ==
    LET after[k \in 0 .. Len(lit)] ==
            IF k = 0 THEN [space |-> NewSpace, spans |-> {}]
            ELSE LET a == after[k - 1]
                 IN  [space |-> StepByte(a.space, lit[k]), spans |-> a.spans \cup Emits(a.space, lit[k])]
    IN  after

LiteralSpans(lit) == LiteralPass(lit)[Len(lit)].spans

GramsAt(lit, spans) == {Text(lit, at[1], at[2]) : at \in spans}

MinimalCover(lit)    == GramsAt(lit, MinimalSpans(lit))
GuaranteedCover(lit) == GramsAt(lit, MinimalSpans(lit) \cup LiteralSpans(lit))

(***************************************************************************)
(* The summary of a document, as its record keeps it.                      *)
(***************************************************************************)
\* The first and last position of every line, last < first where it is empty.
LinesOf(s) ==
    LET breaks == {i \in DOMAIN s : s[i] = LF}
    IN  {<<a, Min({b \in breaks : b >= a} \cup {Len(s) + 1}) - 1>> :
            a \in {1} \cup {b + 1 : b \in breaks}}

Filled(s) == {line \in LinesOf(s) : line[1] <= line[2]}

\* Four bits keep a count; fifteen of them stand for any number.
Stored(n) == IF n >= CountCap THEN Saturated ELSE n

CountOf(s, b) == Cardinality({i \in DOMAIN s : s[i] = b})

Summary(s) ==
    [byteLen        |-> Len(s),
     longestLineLen |-> Max({line[2] - line[1] + 1 : line \in LinesOf(s)}),
     counts         |-> [b \in Range(s) |-> Stored(CountOf(s, b))],
     lineStarts     |-> {s[line[1]] : line \in Filled(s)},
     lineEnds       |-> {s[line[2]] : line \in Filled(s)},
     prefix         |-> SubSeq(s, 1, Min({EdgeCap, Len(s)})),
     suffix         |-> SubSeq(s, Max({0, Len(s) - EdgeCap}) + 1, Len(s))]

(***************************************************************************)
(* The mask of an occurrence: the buckets of the lines it touches, and the *)
(* edges of words and lines it sits at.                                    *)
(***************************************************************************)
EdgeBits  == {"LineStart", "LineEnd", "WordBoth", "WordStart", "WordEnd"}
BlockBits == 0 .. BucketCount - 1
FullMask  == [blocks |-> BlockBits, edges |-> EdgeBits]

\* The hash of a line number: any map into the buckets, with collisions.
BucketOf(line) == line % BucketCount

LineAt(s, offset) == Cardinality({i \in 1 .. Len(s) : s[i] = LF /\ i <= offset})

EdgeBitsOf(s, start, end) ==
    LET before    == IF start = 0 THEN {} ELSE {s[start]}
        after     == IF end = Len(s) THEN {} ELSE {s[end + 1]}
        wordStart == \A b \in before : ~IsWordByte(b)
        wordEnd   == \A b \in after : ~IsWordByte(b)
    IN  {bit \in EdgeBits :
            CASE bit = "WordStart" -> wordStart
              [] bit = "WordEnd"   -> wordEnd
              [] bit = "WordBoth"  -> wordStart /\ wordEnd
              [] bit = "LineStart" -> before \subseteq {LF}
              [] bit = "LineEnd"   -> \/ after \subseteq {LF}
                                      \/ after = {CR} /\ (end + 2 > Len(s) \/ s[end + 2] = LF)}

Mask(s, start, end) ==
    LET first == LineAt(s, start)
        last  == LineAt(s, Max({end - 1, start}))
    IN  [blocks |-> IF last - first >= BucketCount THEN BlockBits
                    ELSE {BucketOf(line) : line \in first .. last},
         edges  |-> EdgeBitsOf(s, start, end)]

MergeMasks(masks) ==
    [blocks |-> UNION {m.blocks : m \in masks}, edges |-> UNION {m.edges : m \in masks}]

\* collapse: one record of a key, with the masks of all its occurrences.
Collapse(grams, s) ==
    [key \in {g.key : g \in grams} |->
        MergeMasks({Mask(s, g.start, g.end) : g \in {h \in grams : h.key = key}})]

(***************************************************************************)
(* What becomes of a file before its bytes are scanned.                    *)
(***************************************************************************)
WithoutUtf8Bom(s)   == IF IsPrefix(Utf8Bom, s) THEN SubSeq(s, 4, Len(s)) ELSE s
SearchablePrefix(s) == SubSeq(s, 1, Min({i \in DOMAIN s : s[i] = NUL} \cup {Len(s) + 1}) - 1)
IsHighEntropy(len, unique) == len >= EntropyMin /\ 2 * unique > 3 * len
=============================================================================
