----------------------------- MODULE ScanProofs -----------------------------
(***************************************************************************)
(* Proofs about the scanner: that a document is indexed under its sparse   *)
(* grams, for every weight table and every sequence of bytes, and that the *)
(* cover of a literal is indexed of every document the literal stands in.  *)
(*                                                                         *)
(* The stack of a space holds the pairs that outweigh all the pairs after  *)
(* them.  The stack of a cover holds pairs that grow no heavier, with only *)
(* lighter ones between two neighbours.                                    *)
(***************************************************************************)
EXTENDS Scanner, TLAPS, WellFoundedInduction

-----------------------------------------------------------------------------
(***************************************************************************)
(* Numbers.                                                                *)
(***************************************************************************)

\* The numbers of a set have a least one.
LEMMA LeastNumber ==
    ASSUME NEW T, T \subseteq Nat, T # {}
    PROVE  \E n \in T : \A m \in T : n <= m
<1> DEFINE R == OpToRel(<, Nat)
<1>1. \E n \in T : \A m \in T : ~(<<m, n>> \in R)
  <2> HIDE DEF R
  <2> QED BY NatLessThanWellFounded, WFMin DEF R
<1>2. PICK n \in T : \A m \in T : ~(<<m, n>> \in R)
  BY <1>1
<1>3. \A m \in T : m \in Nat /\ n \in Nat
  OBVIOUS
<1>4. \A m \in T : ~(m < n)
  BY <1>2, <1>3 DEF OpToRel
<1> HIDE DEF R
<1> QED BY <1>3, <1>4

\* Numbers up to a bound have a greatest one, which is their Max.
LEMMA MaxOfNumbers ==
    ASSUME NEW n \in Nat, NEW S \in SUBSET (0 .. n), S # {}
    PROVE  Max(S) \in S /\ \A m \in S : m <= Max(S)
<1> DEFINE T == {k \in Nat : n - k \in S}
<1>1. T # {}
  <2>1. PICK m \in S : TRUE
    OBVIOUS
  <2>2. n - m \in Nat /\ n - (n - m) = m
    OBVIOUS
  <2> QED BY <2>1, <2>2
<1>2. PICK k \in T : \A m \in T : k <= m
  <2> HIDE DEF T
  <2> QED BY <1>1, LeastNumber DEF T
<1>3. n - k \in S
  BY <1>2
<1>4. \A m \in S : m <= n - k
  <2> TAKE m \in S
  <2>1. m \in 0 .. n /\ n - m \in Nat /\ n - (n - m) = m
    OBVIOUS
  <2>2. n - m \in T
    BY <2>1
  <2> QED BY <1>2, <2>1, <2>2
<1>5. \E x \in S : \A y \in S : x >= y
  BY <1>3, <1>4
<1>6. Max(S) \in S /\ \A y \in S : Max(S) >= y
  BY <1>5 DEF Max
<1> QED BY <1>6

\* The last position with a property, among numbers up to a bound.
LEMMA LastOfNumbers ==
    ASSUME NEW n \in Nat, NEW S \in SUBSET (0 .. n), S # {}
    PROVE  \E k \in S : \A m \in S : m <= k
BY MaxOfNumbers

-----------------------------------------------------------------------------
(***************************************************************************)
(* The stack of a space.                                                   *)
(***************************************************************************)
Entry == [start : Nat, weight : Nat]

\* Pair a outweighs the pairs after it, among the first n bytes.
StandsOut(t, a, n) == \A i \in a + 1 .. n - 1 : PairAt(t, i) < PairAt(t, a)

StartOf(stack, k)  == stack[k].start
WeightOf(stack, k) == stack[k].weight

\* The stack after n bytes: pairs that stand out, the last of them all there.
StackHolds(stack, t, n) ==
    /\ stack \in Seq(Entry)
    /\ Len(stack) <= StackCap
    /\ \A k \in 1 .. Len(stack) :
           /\ StartOf(stack, k) + 2 <= n
           /\ WeightOf(stack, k) = PairAt(t, StartOf(stack, k) + 1)
           /\ StandsOut(t, StartOf(stack, k) + 1, n)
    /\ \A k, l \in 1 .. Len(stack) : k < l => StartOf(stack, k) + (l - k) <= StartOf(stack, l)
    /\ \A a \in 1 .. n - 1 :
           StandsOut(t, a, n) /\ n <= a + StackCap
               => \E k \in 1 .. Len(stack) : StartOf(stack, k) = a - 1

LEMMA EntriesAreNumbers ==
    ASSUME NEW stack \in Seq(Entry), NEW k \in 1 .. Len(stack)
    PROVE  StartOf(stack, k) \in Nat /\ WeightOf(stack, k) \in Nat
<1>1. stack[k] \in Entry
  OBVIOUS
<1> QED BY <1>1 DEF Entry, StartOf, WeightOf

\* Pairs of bytes have weights.
LEMMA PairsHaveWeights ==
    ASSUME NEW t \in Seq(Byte), NEW i \in 1 .. Len(t) - 1
    PROVE  PairAt(t, i) \in Nat
<1>1. t[i] \in Byte /\ t[i + 1] \in Byte
  <2>1. i \in 1 .. Len(t) /\ i + 1 \in 1 .. Len(t)
    OBVIOUS
  <2> QED BY <2>1
<1> QED BY <1>1, WeightAssumption DEF PairAt

\* The weights of a stack fall from the bottom to the top.
LEMMA StackFalls ==
    ASSUME NEW t \in Seq(Byte), NEW n \in Nat, NEW stack, StackHolds(stack, t, n),
           NEW k \in 1 .. Len(stack), NEW l \in 1 .. Len(stack), k < l
    PROVE  WeightOf(stack, k) > WeightOf(stack, l)
<1> DEFINE a == StartOf(stack, k)
           b == StartOf(stack, l)
<1>1. /\ a \in Nat /\ b \in Nat /\ WeightOf(stack, k) \in Nat /\ WeightOf(stack, l) \in Nat
      /\ k \in Nat /\ l \in Nat
  BY EntriesAreNumbers DEF StackHolds
<1>2. a + (l - k) <= b /\ b + 2 <= n
  BY DEF StackHolds
<1>3. /\ WeightOf(stack, k) = PairAt(t, a + 1) /\ WeightOf(stack, l) = PairAt(t, b + 1)
      /\ StandsOut(t, a + 1, n)
  BY DEF StackHolds
<1> HIDE DEF a, b
<1>4. b + 1 \in a + 1 + 1 .. n - 1
  BY <1>1, <1>2
<1>5. PairAt(t, b + 1) < PairAt(t, a + 1)
  BY <1>3, <1>4 DEF StandsOut
<1> QED BY <1>1, <1>3, <1>5

\* The entries above which all are lighter than a pair.
Uncovered(stack, w) ==
    {StartOf(stack, k) : k \in {i \in 1 .. Len(stack) :
                                    \A l \in i + 1 .. Len(stack) : WeightOf(stack, l) < w}}

\* What CloseStack closes: the entries above which all are lighter; and what it
\* keeps: the heavier ones.
LEMMA CloseStackCuts ==
    ASSUME NEW t \in Seq(Byte), NEW n \in Nat, NEW stack, StackHolds(stack, t, n), NEW w \in Nat
    PROVE  /\ CloseStack(stack, w).starts = Uncovered(stack, w)
           /\ \E keep \in 0 .. Len(stack) :
                /\ CloseStack(stack, w).kept = SubSeq(stack, 1, keep)
                /\ \A k \in 1 .. Len(stack) : k <= keep <=> WeightOf(stack, k) > w
<1> DEFINE stops == {i \in DOMAIN stack : WeightOf(stack, i) >= w}
           last  == IF stops = {} THEN 0 ELSE Max(stops)
           keep  == IF last # 0 /\ WeightOf(stack, last) = w THEN last - 1 ELSE last
<1>1. stack \in Seq(Entry) /\ Len(stack) \in Nat /\ DOMAIN stack = 1 .. Len(stack)
  BY DEF StackHolds
<1>2. \A k \in 1 .. Len(stack) : WeightOf(stack, k) \in Nat
  BY <1>1, EntriesAreNumbers
<1>3. stops # {} => last \in stops /\ \A m \in stops : m <= last
  <2>1. stops \in SUBSET (0 .. Len(stack))
    BY <1>1
  <2> HIDE DEF stops
  <2> QED BY <1>1, <2>1, MaxOfNumbers
<1>4. /\ CloseStack(stack, w).starts = {StartOf(stack, i) : i \in {k \in DOMAIN stack : k >= last}}
      /\ CloseStack(stack, w).kept = SubSeq(stack, 1, keep)
  BY DEF CloseStack, StartOf, WeightOf
<1>5. /\ last \in 0 .. Len(stack)
      /\ last # 0 => WeightOf(stack, last) >= w
      /\ \A m \in 1 .. Len(stack) : m > last => WeightOf(stack, m) < w
  <2>1. CASE stops = {}
    <3>1. last = 0
      BY <2>1
    <3>2. ASSUME NEW m \in 1 .. Len(stack), ~(WeightOf(stack, m) < w)
          PROVE  FALSE
      <4>1. m \in stops
        BY <1>1, <1>2, <3>2
      <4> QED BY <2>1, <4>1
    <3> HIDE DEF last
    <3> QED BY <1>1, <3>1, <3>2
  <2>2. CASE stops # {}
    <3>1. last \in 1 .. Len(stack) /\ WeightOf(stack, last) >= w
      BY <1>1, <1>3, <2>2
    <3>2. ASSUME NEW m \in 1 .. Len(stack), m > last, ~(WeightOf(stack, m) < w)
          PROVE  FALSE
      <4>1. m \in stops
        BY <1>1, <1>2, <3>2
      <4>2. m <= last
        BY <1>3, <2>2, <4>1
      <4> HIDE DEF last
      <4> QED BY <3>1, <3>2, <4>2
    <3> HIDE DEF last
    <3> QED BY <3>1, <3>2
  <2> QED BY <2>1, <2>2
<1> HIDE DEF stops, last
<1>6. ASSUME NEW i \in 1 .. Len(stack)
      PROVE  i >= last <=> \A l \in i + 1 .. Len(stack) : WeightOf(stack, l) < w
  <2>1. CASE i >= last
    <3> SUFFICES ASSUME NEW l \in i + 1 .. Len(stack) PROVE WeightOf(stack, l) < w
      BY <2>1
    <3>1. l \in 1 .. Len(stack) /\ l > last
      BY <1>1, <1>5, <2>1
    <3> QED BY <1>5, <3>1
  <2>2. CASE ~(i >= last)
    <3>1. last \in i + 1 .. Len(stack) /\ last # 0 /\ last \in 1 .. Len(stack)
      BY <1>1, <1>5, <2>2
    <3>2. ~(WeightOf(stack, last) < w)
      BY <1>2, <1>5, <3>1
    <3> QED BY <2>2, <3>1, <3>2
  <2> QED BY <2>1, <2>2
<1>7. CloseStack(stack, w).starts = Uncovered(stack, w)
  <2>1. {k \in DOMAIN stack : k >= last} =
          {i \in 1 .. Len(stack) : \A l \in i + 1 .. Len(stack) : WeightOf(stack, l) < w}
    BY <1>1, <1>6
  <2> QED BY <1>4, <2>1 DEF Uncovered
<1>8. keep \in 0 .. Len(stack)
  BY <1>1, <1>5
<1>9. ASSUME NEW k \in 1 .. Len(stack)
      PROVE  k <= keep <=> WeightOf(stack, k) > w
  <2>1. CASE k > last
    <3>1. WeightOf(stack, k) < w /\ ~(k <= keep)
      BY <1>1, <1>5, <2>1
    <3> QED BY <1>2, <3>1
  <2>2. CASE k = last
    <3>1. WeightOf(stack, k) >= w /\ last # 0
      BY <1>1, <1>5, <2>2
    <3>2. k <= keep <=> WeightOf(stack, k) # w
      BY <1>1, <1>5, <2>2, <3>1
    <3> QED BY <1>2, <3>1, <3>2
  <2>3. CASE k < last
    <3>1. last \in 1 .. Len(stack) /\ WeightOf(stack, last) >= w
      BY <1>1, <1>5, <2>3
    <3>2. WeightOf(stack, k) > WeightOf(stack, last)
      BY <2>3, <3>1, StackFalls
    <3>3. k <= keep
      BY <1>1, <2>3, <3>1
    <3> QED BY <1>2, <3>1, <3>2, <3>3
  <2> QED BY <1>1, <1>5, <2>1, <2>2, <2>3
<1> HIDE DEF keep
<1>10. CloseStack(stack, w).kept = SubSeq(stack, 1, keep)
  BY <1>4
<1> QED BY <1>7, <1>8, <1>9, <1>10

\* What PushEntry makes of a stack that was cut: at most one entry is dropped
\* from the bottom, when the stack is full, and the new one is on top.
LEMMA PushEntryShifts ==
    ASSUME NEW stack \in Seq(Entry), NEW keep \in 0 .. Len(stack), keep <= StackCap, NEW e \in Entry
    PROVE  \E drop \in {0, 1} :
             LET new == PushEntry(SubSeq(stack, 1, keep), e)
             IN  /\ new \in Seq(Entry)
                 /\ Len(new) = keep + 1 - drop
                 /\ \A k \in 1 .. keep - drop : new[k] = stack[k + drop]
                 /\ new[keep + 1 - drop] = e
                 /\ drop = 1 <=> keep = StackCap
<1> DEFINE kept == SubSeq(stack, 1, keep)
           new  == PushEntry(kept, e)
<1>1. Len(stack) \in Nat /\ keep \in Nat /\ keep <= Len(stack) /\ StackCap \in Nat /\ StackCap >= 2
  BY ScanAssumption DEF MinGramLen
<1>2. kept \in Seq(Entry) /\ Len(kept) = keep /\ \A k \in 1 .. keep : kept[k] = stack[k]
  BY <1>1
<1> HIDE DEF kept
<1>3. CASE keep = StackCap
  <2>1. new = Append(Tail(kept), e)
    BY <1>2, <1>3 DEF PushEntry
  <2>2. /\ Tail(kept) \in Seq(Entry) /\ Len(Tail(kept)) = keep - 1
        /\ \A k \in 1 .. keep - 1 : Tail(kept)[k] = kept[k + 1]
    BY <1>1, <1>2, <1>3
  <2> DEFINE rest == Tail(kept)
  <2> HIDE DEF new, rest
  <2>3. /\ new \in Seq(Entry) /\ Len(new) = keep
        /\ new[keep] = e
        /\ \A k \in 1 .. keep - 1 : new[k] = rest[k]
    BY <1>1, <2>1, <2>2, <1>3 DEF rest
  <2>4. \A k \in 1 .. keep - 1 : new[k] = stack[k + 1]
    <3> TAKE k \in 1 .. keep - 1
    <3>1. k + 1 \in 1 .. keep
      BY <1>1
    <3> QED BY <1>2, <2>2, <2>3, <3>1 DEF rest
  <2>5. keep + 1 - 1 = keep
    BY <1>1
  <2> QED BY <1>3, <2>3, <2>4, <2>5 DEF new, kept
<1>4. CASE keep # StackCap
  <2>1. new = Append(kept, e)
    BY <1>2, <1>4 DEF PushEntry
  <2> HIDE DEF new
  <2>2. new \in Seq(Entry) /\ Len(new) = keep + 1 /\ new[keep + 1] = e /\ \A k \in 1 .. keep : new[k] = kept[k]
    BY <1>1, <1>2, <2>1
  <2>3. \A k \in 1 .. keep : new[k] = stack[k]
    BY <1>2, <2>2
  <2>4. keep + 1 - 0 = keep + 1 /\ keep - 0 = keep /\ \A k \in 1 .. keep : k + 0 = k
    BY <1>1
  <2> QED BY <1>4, <2>2, <2>3, <2>4 DEF new, kept
<1> QED BY <1>3, <1>4

\* One more byte leaves the stack as it should be.
LEMMA StackSteps ==
    ASSUME NEW t \in Seq(Byte), NEW n \in Nat \ {0}, n < Len(t), NEW stack, StackHolds(stack, t, n)
    PROVE  StackHolds(PushEntry(CloseStack(stack, PairAt(t, n)).kept,
                                [start |-> n - 1, weight |-> PairAt(t, n)]), t, n + 1)
<1> DEFINE w == PairAt(t, n)
           e == [start |-> n - 1, weight |-> w]
<1>1. w \in Nat /\ Len(t) \in Nat
  BY PairsHaveWeights
<1>2. e \in Entry /\ StartOf(<<e>>, 1) = n - 1 /\ WeightOf(<<e>>, 1) = w
  BY <1>1 DEF Entry, StartOf, WeightOf
<1>3. stack \in Seq(Entry) /\ Len(stack) \in Nat /\ Len(stack) <= StackCap /\ StackCap \in Nat
  BY ScanAssumption DEF StackHolds
<1>4. PICK keep \in 0 .. Len(stack) :
        /\ CloseStack(stack, w).kept = SubSeq(stack, 1, keep)
        /\ \A k \in 1 .. Len(stack) : k <= keep <=> WeightOf(stack, k) > w
  BY <1>1, CloseStackCuts
<1> HIDE DEF e
<1> DEFINE new == PushEntry(SubSeq(stack, 1, keep), e)
<1>5. PICK drop \in {0, 1} :
        /\ new \in Seq(Entry)
        /\ Len(new) = keep + 1 - drop
        /\ \A k \in 1 .. keep - drop : new[k] = stack[k + drop]
        /\ new[keep + 1 - drop] = e
        /\ drop = 1 <=> keep = StackCap
  BY <1>2, <1>3, PushEntryShifts
<1> HIDE DEF new
<1>6. keep \in Nat /\ keep <= Len(stack) /\ drop \in Nat /\ drop <= keep /\ keep + 1 - drop \in Nat
  BY <1>3, <1>5, ScanAssumption DEF MinGramLen
<1>7. \A k \in 1 .. keep - drop : StartOf(new, k) = StartOf(stack, k + drop) /\ WeightOf(new, k) = WeightOf(stack, k + drop)
  BY <1>5 DEF StartOf, WeightOf
<1>8. StartOf(new, keep + 1 - drop) = n - 1 /\ WeightOf(new, keep + 1 - drop) = w
  BY <1>5, <1>2 DEF StartOf, WeightOf
<1>9. \A k \in 1 .. Len(stack) : StartOf(stack, k) \in Nat /\ WeightOf(stack, k) \in Nat
  BY <1>3, EntriesAreNumbers
<1>10. \A k \in 1 .. Len(stack) :
          /\ StartOf(stack, k) + 2 <= n
          /\ WeightOf(stack, k) = PairAt(t, StartOf(stack, k) + 1)
          /\ StandsOut(t, StartOf(stack, k) + 1, n)
  BY DEF StackHolds
<1>11. \A k, l \in 1 .. Len(stack) : k < l => StartOf(stack, k) + (l - k) <= StartOf(stack, l)
  BY DEF StackHolds
<1>12. ASSUME NEW k \in 1 .. Len(new), NEW i \in Nat, i = k + drop, k <= keep - drop
       PROVE  /\ i \in 1 .. Len(stack) /\ i <= keep
              /\ StartOf(new, k) = StartOf(stack, i)
              /\ WeightOf(new, k) = WeightOf(stack, i)
  BY <1>3, <1>5, <1>6, <1>7, <1>12
<1>13. ASSUME NEW a \in 1 .. n - 1, StandsOut(t, a, n), w < PairAt(t, a)
       PROVE  StandsOut(t, a, n + 1)
  <2> SUFFICES ASSUME NEW i \in a + 1 .. n + 1 - 1
               PROVE  PairAt(t, i) < PairAt(t, a)
    BY DEF StandsOut
  <2>1. CASE i = n
    BY <1>13, <2>1
  <2>2. CASE i # n
    <3>1. i \in a + 1 .. n - 1
      BY <2>2
    <3> QED BY <1>13, <3>1 DEF StandsOut
  <2> QED BY <2>1, <2>2
<1>14. ASSUME NEW k \in 1 .. Len(new)
       PROVE  /\ StartOf(new, k) + 2 <= n + 1
              /\ WeightOf(new, k) = PairAt(t, StartOf(new, k) + 1)
              /\ StandsOut(t, StartOf(new, k) + 1, n + 1)
  <2>1. CASE k <= keep - drop
    <3> DEFINE i == k + drop
               a == StartOf(stack, i)
    <3>1. i \in Nat /\ i \in 1 .. Len(stack) /\ i <= keep /\ StartOf(new, k) = a /\ WeightOf(new, k) = WeightOf(stack, i)
      BY <1>5, <1>6, <1>12, <2>1
    <3> HIDE DEF i
    <3>2. a \in Nat /\ a + 2 <= n /\ WeightOf(stack, i) = PairAt(t, a + 1) /\ StandsOut(t, a + 1, n)
      BY <1>9, <1>10, <3>1
    <3>3. w < PairAt(t, a + 1)
      <4>1. WeightOf(stack, i) > w /\ WeightOf(stack, i) \in Nat
        BY <1>4, <1>9, <3>1
      <4> QED BY <1>1, <3>2, <4>1
    <3> HIDE DEF a, w
    <3>4. a + 1 \in 1 .. n - 1 /\ a + 2 <= n + 1
      BY <3>2
    <3>5. StandsOut(t, a + 1, n + 1)
      BY <1>13, <3>2, <3>3, <3>4
    <3> QED BY <3>1, <3>2, <3>4, <3>5
  <2>2. CASE ~(k <= keep - drop)
    <3>1. k = keep + 1 - drop
      BY <1>5, <1>6, <2>2
    <3>2. StartOf(new, k) = n - 1 /\ WeightOf(new, k) = w
      BY <1>8, <3>1
    <3>3. n - 1 + 1 = n /\ n - 1 + 2 <= n + 1 /\ n + 1 .. n + 1 - 1 = {}
      OBVIOUS
    <3>4. StandsOut(t, n, n + 1)
      BY <3>3 DEF StandsOut
    <3> QED BY <3>2, <3>3, <3>4
  <2> QED BY <2>1, <2>2
<1>15. ASSUME NEW k \in 1 .. Len(new), NEW l \in 1 .. Len(new), k < l
       PROVE  StartOf(new, k) + (l - k) <= StartOf(new, l)
  <2> DEFINE i == k + drop
  <2>1. k <= keep - drop /\ i \in Nat
    BY <1>5, <1>6, <1>15
  <2>2. i \in 1 .. Len(stack) /\ i <= keep /\ StartOf(new, k) = StartOf(stack, i)
    BY <1>12, <2>1
  <2> DEFINE a == StartOf(stack, i)
  <2>3. a \in Nat
    BY <1>9, <2>2
  <2>4. CASE l <= keep - drop
    <3> DEFINE j == l + drop
    <3>1. j \in Nat /\ i < j /\ j - i = l - k
      BY <1>5, <1>6, <1>15, <2>4
    <3>2. j \in 1 .. Len(stack) /\ StartOf(new, l) = StartOf(stack, j)
      BY <1>12, <2>4, <3>1
    <3> HIDE DEF i, j
    <3> QED BY <1>11, <2>2, <3>1, <3>2
  <2>5. CASE ~(l <= keep - drop)
    <3>1. l = keep + 1 - drop /\ StartOf(new, l) = n - 1
      BY <1>5, <1>6, <1>8, <2>5
    <3>2. l - k = keep + 1 - i
      BY <1>5, <1>6, <3>1
    <3> HIDE DEF i
    <3>3. keep \in 1 .. Len(stack)
      BY <1>3, <1>6, <2>2
    <3>4. a + (keep - i) <= StartOf(stack, keep)
      <4>1. CASE i = keep
        <5> HIDE DEF a
        <5>1. keep - i = 0 /\ a + 0 = a
          BY <1>6, <2>3, <4>1
        <5>2. a = StartOf(stack, keep)
          BY <4>1 DEF a
        <5> QED BY <2>3, <5>1, <5>2
      <4>2. CASE i # keep
        <5>1. i < keep
          BY <1>6, <2>2, <4>2
        <5> QED BY <1>11, <2>2, <3>3, <5>1
      <4> QED BY <4>1, <4>2
    <3>5. StartOf(stack, keep) + 2 <= n /\ StartOf(stack, keep) \in Nat
      BY <1>9, <1>10, <3>3
    <3> DEFINE b == StartOf(stack, keep)
    <3>6. i \in Nat
      BY <2>2
    <3> HIDE DEF a, b
    <3>7. a + (keep + 1 - i) <= n - 1
      BY <1>6, <2>3, <3>4, <3>5, <3>6 DEF b
    <3> QED BY <2>2, <3>1, <3>2, <3>7 DEF a
  <2> QED BY <2>4, <2>5
<1>16. ASSUME NEW a \in 1 .. n + 1 - 1, StandsOut(t, a, n + 1), n + 1 <= a + StackCap
       PROVE  \E k \in 1 .. Len(new) : StartOf(new, k) = a - 1
  <2>1. CASE a = n
    <3>1. keep + 1 - drop \in 1 .. Len(new)
      BY <1>5, <1>6
    <3> QED BY <1>8, <2>1, <3>1
  <2>2. CASE a # n
    <3>1. a \in 1 .. n - 1 /\ n <= a + StackCap /\ n \in a + 1 .. n + 1 - 1
      BY <1>3, <1>16, <2>2
    <3>2. StandsOut(t, a, n) /\ w < PairAt(t, a)
      <4>1. \A i \in a + 1 .. n - 1 : i \in a + 1 .. n + 1 - 1
        OBVIOUS
      <4> QED BY <1>16, <3>1, <4>1 DEF StandsOut
    <3>3. PICK k \in 1 .. Len(stack) : StartOf(stack, k) = a - 1
      BY <3>1, <3>2 DEF StackHolds
    <3>4. k <= keep
      <4>1. WeightOf(stack, k) = PairAt(t, a - 1 + 1) /\ a - 1 + 1 = a
        BY <1>10, <3>1, <3>3
      <4>2. WeightOf(stack, k) > w
        BY <1>1, <1>9, <3>2, <4>1
      <4> QED BY <1>4, <4>2
    <3>5. ASSUME drop = 1, k = 1 PROVE FALSE
      <4>1. keep = StackCap /\ keep \in 1 .. Len(stack) /\ keep >= 2
        BY <1>3, <1>5, <1>6, <3>5, ScanAssumption DEF MinGramLen
      <4>2. StartOf(stack, 1) + (keep - 1) <= StartOf(stack, keep)
        BY <1>11, <3>5, <4>1
      <4>3. StartOf(stack, keep) + 2 <= n /\ StartOf(stack, keep) \in Nat /\ StartOf(stack, 1) = a - 1
        BY <1>9, <1>10, <3>3, <3>5, <4>1
      <4> DEFINE b == StartOf(stack, keep)
      <4>4. b \in Nat /\ a - 1 + (keep - 1) <= b /\ b + 2 <= n
        BY <4>2, <4>3
      <4> HIDE DEF b
      <4> QED BY <1>6, <1>16, <3>1, <4>1, <4>4
    <3>6. k - drop \in 1 .. keep - drop /\ k - drop \in 1 .. Len(new) /\ k - drop + drop = k
      BY <1>3, <1>5, <1>6, <3>4, <3>5
    <3>7. StartOf(new, k - drop) = StartOf(stack, k)
      BY <1>7, <3>6
    <3> QED BY <3>3, <3>6, <3>7
  <2> QED BY <2>1, <2>2
<1>17. Len(new) <= StackCap
  BY <1>3, <1>5, <1>6
<1>18. StackHolds(new, t, n + 1)
  BY <1>5, <1>14, <1>15, <1>16, <1>17 DEF StackHolds
<1> QED BY <1>4, <1>18 DEF new, e


-----------------------------------------------------------------------------
(***************************************************************************)
(* Sparse grams.                                                           *)
(***************************************************************************)
\* The spans of sparse grams, one bound at a time.
LEMMA HullIs ==
    ASSUME NEW t \in Seq(Byte), NEW n \in Nat \ {0}, n < Len(t), NEW start \in Nat
    PROVE  <<start, n + 1>> \in Hulls(t) <=>
             /\ start + 2 <= n /\ n + 1 - start <= MaxGramLen
             /\ StandsOut(t, start + 1, n)
             /\ \A i \in start + 2 .. n - 1 : PairAt(t, i) < PairAt(t, n)
<1>1. Len(t) \in Nat /\ MaxGramLen \in Nat
  BY ScanAssumption
<1>2. <<start, n + 1>> \in Hulls(t) <=> start \in 0 .. Len(t) /\ n + 1 \in 0 .. Len(t) /\ IsHull(t, start, n + 1)
  BY DEF Hulls
<1>3. n + 1 - start \in MinGramLen .. MaxGramLen <=> start + 2 <= n /\ n + 1 - start <= MaxGramLen
  BY <1>1 DEF MinGramLen
<1>4. start + 2 <= n => start \in 0 .. Len(t) /\ n + 1 \in 0 .. Len(t)
  BY <1>1
<1>5. n + 1 - 2 = n - 1 /\ n + 1 - 1 = n /\ start + 1 + 1 = start + 2
  OBVIOUS
<1> QED BY <1>2, <1>3, <1>4, <1>5 DEF IsHull, StandsOut

\* A pair closes the spans of sparse grams, and no others that are short enough.
LEMMA StackClosesHulls ==
    ASSUME NEW t \in Seq(Byte), NEW n \in Nat \ {0}, n < Len(t), NEW stack, StackHolds(stack, t, n),
           NEW start
    PROVE  start \in CloseStack(stack, PairAt(t, n)).starts /\ n + 1 - start <= MaxGramLen
             <=> start \in Nat /\ <<start, n + 1>> \in Hulls(t)
<1> DEFINE w == PairAt(t, n)
<1>1. w \in Nat /\ Len(t) \in Nat
  BY PairsHaveWeights
<1>2. stack \in Seq(Entry) /\ Len(stack) \in Nat /\ StackCap \in Nat /\ MaxGramLen \in Nat /\ MaxGramLen <= StackCap + 1
  BY ScanAssumption DEF StackHolds
<1>3. CloseStack(stack, w).starts = Uncovered(stack, w)
  BY <1>1, CloseStackCuts
<1>4. \A k \in 1 .. Len(stack) :
          /\ StartOf(stack, k) \in Nat
          /\ StartOf(stack, k) + 2 <= n
          /\ WeightOf(stack, k) = PairAt(t, StartOf(stack, k) + 1)
          /\ StandsOut(t, StartOf(stack, k) + 1, n)
  BY <1>2, EntriesAreNumbers DEF StackHolds
<1>5. ASSUME NEW k \in 1 .. Len(stack), NEW l \in 1 .. Len(stack)
      PROVE  k < l <=> StartOf(stack, k) < StartOf(stack, l)
  <2> DEFINE a == StartOf(stack, k)
             b == StartOf(stack, l)
  <2>1. a \in Nat /\ b \in Nat /\ (k < l => a + (l - k) <= b) /\ (l < k => b + (k - l) <= a) /\ (k = l => a = b)
    BY <1>4 DEF StackHolds
  <2>2. k \in Nat /\ l \in Nat
    OBVIOUS
  <2> HIDE DEF a, b
  <2>3. k < l <=> a < b
    BY <2>1, <2>2
  <2> QED BY <2>3 DEF a, b
<1> HIDE DEF w
<1>6. ASSUME NEW k \in 1 .. Len(stack), start = StartOf(stack, k),
             \A l \in k + 1 .. Len(stack) : WeightOf(stack, l) < w,
             n + 1 - start <= MaxGramLen
      PROVE  start \in Nat /\ <<start, n + 1>> \in Hulls(t)
  <2>1. start \in Nat /\ start + 2 <= n /\ StandsOut(t, start + 1, n)
    BY <1>4, <1>6
  <2> DEFINE B == {i \in start + 2 .. n - 1 : ~(PairAt(t, i) < w)}
  <2>2. ASSUME B # {} PROVE FALSE
    <3>1. B \in SUBSET (0 .. n)
      BY <2>1
    <3>2. PICK m \in B : \A j \in B : j <= m
      <4> HIDE DEF B
      <4> QED BY <2>2, <3>1, LastOfNumbers
    <3>3. m \in start + 2 .. n - 1 /\ m \in 1 .. n - 1 /\ PairAt(t, m) \in Nat /\ PairAt(t, m) >= w
      <4>1. m \in start + 2 .. n - 1 /\ m \in 1 .. n - 1 /\ ~(PairAt(t, m) < w)
        BY <2>1, <3>2
      <4>2. PairAt(t, m) \in Nat
        BY <4>1, <1>1, PairsHaveWeights
      <4> QED BY <1>1, <4>1, <4>2
    <3>4. ASSUME NEW j \in m + 1 .. n - 1 PROVE PairAt(t, j) < PairAt(t, m)
      <4>1. j \in start + 2 .. n - 1 /\ ~(j <= m) /\ j \in 1 .. Len(t) - 1
        BY <1>1, <2>1, <3>3
      <4>2. PairAt(t, j) < w
        BY <3>2, <4>1
      <4>3. PairAt(t, j) \in Nat
        BY <4>1, PairsHaveWeights
      <4> QED BY <1>1, <3>3, <4>2, <4>3
    <3>5. StandsOut(t, m, n)
      BY <3>4 DEF StandsOut
    <3>6. n <= m + StackCap
      BY <1>2, <1>6, <2>1, <3>3
    <3>7. PICK l \in 1 .. Len(stack) : StartOf(stack, l) = m - 1
      BY <3>3, <3>5, <3>6 DEF StackHolds
    <3>8. StartOf(stack, k) < StartOf(stack, l)
      BY <1>6, <2>1, <3>3, <3>7
    <3>9. k < l
      BY <1>5, <3>8
    <3>10. l \in k + 1 .. Len(stack)
      BY <1>2, <3>9
    <3>11. WeightOf(stack, l) = PairAt(t, m)
      <4>1. m - 1 + 1 = m
        BY <3>3
      <4> QED BY <1>4, <3>7, <4>1
    <3> QED BY <1>1, <1>6, <3>3, <3>10, <3>11
  <2>3. \A i \in start + 2 .. n - 1 : PairAt(t, i) < w
    BY <2>2
  <2> QED BY <1>6, <2>1, <2>3, HullIs DEF w
<1>7. ASSUME start \in Nat, <<start, n + 1>> \in Hulls(t)
      PROVE  /\ n + 1 - start <= MaxGramLen
             /\ \E k \in {i \in 1 .. Len(stack) : \A l \in i + 1 .. Len(stack) : WeightOf(stack, l) < w} :
                    start = StartOf(stack, k)
  <2>1. /\ start + 2 <= n /\ n + 1 - start <= MaxGramLen
        /\ StandsOut(t, start + 1, n)
        /\ \A i \in start + 2 .. n - 1 : PairAt(t, i) < w
    BY <1>7, HullIs DEF w
  <2>2. start + 1 \in 1 .. n - 1 /\ n <= start + 1 + StackCap /\ start + 1 - 1 = start
    BY <1>2, <1>7, <2>1
  <2>3. PICK k \in 1 .. Len(stack) : StartOf(stack, k) = start + 1 - 1
    <3> DEFINE a == start + 1
    <3>1. a \in 1 .. n - 1 /\ n <= a + StackCap /\ StandsOut(t, a, n)
      BY <2>1, <2>2
    <3> HIDE DEF a
    <3>2. \E k \in 1 .. Len(stack) : StartOf(stack, k) = a - 1
      BY <3>1 DEF StackHolds
    <3>3. a - 1 = start + 1 - 1
      BY <1>7 DEF a
    <3> QED BY <3>2, <3>3
  <2>4. ASSUME NEW l \in k + 1 .. Len(stack) PROVE WeightOf(stack, l) < w
    <3>1. l \in 1 .. Len(stack) /\ k < l
      BY <1>2
    <3>2. start < StartOf(stack, l) /\ StartOf(stack, l) \in Nat /\ StartOf(stack, l) + 2 <= n
      BY <1>4, <1>5, <2>2, <2>3, <3>1
    <3> DEFINE b == StartOf(stack, l)
    <3>3. b + 1 \in start + 2 .. n - 1
      <4> HIDE DEF b
      <4>1. start < b /\ b \in Nat /\ b + 2 <= n
        BY <3>2 DEF b
      <4> QED BY <1>7, <4>1
    <3>4. WeightOf(stack, l) = PairAt(t, b + 1)
      BY <1>4, <3>1
    <3> QED BY <2>1, <3>3, <3>4
  <2> QED BY <2>1, <2>2, <2>3, <2>4
<1> QED BY <1>3, <1>6, <1>7 DEF w, Uncovered

\* What a space has read of a text, and what it has still open.
Space == [stack : Seq(Entry), pos : Nat, prev : Byte, changed : Nat, folded : BOOLEAN]

SpaceReads(space, t, n) ==
    /\ space \in Space
    /\ space.pos = n
    /\ n > 0 => space.prev = t[n] /\ StackHolds(space.stack, t, n)
    /\ n = 0 => space.stack = <<>>

\* A space takes a byte and emits the sparse grams that end with it, but for
\* those a folded space leaves to the raw one.
LEMMA SpaceSteps ==
    ASSUME NEW t \in Seq(Byte), NEW n \in Nat, n < Len(t), NEW space, SpaceReads(space, t, n),
           NEW raw \in Byte, Mapped(space, raw) = t[n + 1]
    PROVE  /\ SpaceReads(StepByte(space, raw), t, n + 1)
           /\ StepByte(space, raw).folded = space.folded
           /\ StepByte(space, raw).changed = ChangedEnd(space, raw)
           /\ Emits(space, raw) = {at \in Hulls(t) : /\ at[2] = n + 1
                                                     /\ space.folded => ChangedEnd(space, raw) > at[1]}
<1>1. t[n + 1] \in Byte /\ Len(t) \in Nat
  OBVIOUS
<1>2. space \in Space /\ space.pos = n
  BY DEF SpaceReads
<1>3. ChangedEnd(space, raw) \in Nat
  BY <1>2 DEF ChangedEnd, Space
<1>4. CASE n = 0
  <2>1. StepByte(space, raw) =
          [space EXCEPT !.stack = <<>>, !.pos = n + 1, !.prev = t[n + 1], !.changed = ChangedEnd(space, raw)]
    BY <1>2, <1>4 DEF StepByte, SpaceReads
  <2>2. /\ StepByte(space, raw) \in Space /\ StepByte(space, raw).pos = n + 1
        /\ StepByte(space, raw).prev = t[n + 1] /\ StepByte(space, raw).stack = <<>>
        /\ StepByte(space, raw).folded = space.folded
        /\ StepByte(space, raw).changed = ChangedEnd(space, raw)
    <3>1. <<>> \in Seq(Entry) /\ n + 1 \in Nat
      OBVIOUS
    <3> QED BY <1>1, <1>2, <1>3, <2>1, <3>1 DEF Space
  <2>3. StackHolds(<<>>, t, 1)
    <3>1. <<>> \in Seq(Entry) /\ Len(<<>>) = 0 /\ StackCap \in Nat /\ 1 .. 0 = {} /\ 1 - 1 = 0
      BY ScanAssumption
    <3> QED BY <3>1 DEF StackHolds
  <2>4. Emits(space, raw) = {}
    BY <1>2, <1>4 DEF Emits
  <2>5. ASSUME NEW at \in Hulls(t), at[2] = n + 1 PROVE FALSE
    <3>1. at \in (0 .. Len(t)) \X (0 .. Len(t)) /\ at[2] - at[1] \in MinGramLen .. MaxGramLen
      BY DEF Hulls, IsHull
    <3> QED BY <1>1, <1>4, <2>5, <3>1, ScanAssumption DEF MinGramLen
  <2>6. n + 1 = 1
    BY <1>4
  <2> QED BY <2>2, <2>3, <2>4, <2>5, <2>6 DEF SpaceReads
<1>5. CASE n # 0
  <2> DEFINE w == PairAt(t, n)
             e == [start |-> n - 1, weight |-> w]
             next == PushEntry(CloseStack(space.stack, w).kept, e)
  <2>1. n \in Nat \ {0} /\ space.prev = t[n] /\ StackHolds(space.stack, t, n) /\ ~(space.pos = 0)
    BY <1>2, <1>5 DEF SpaceReads
  <2>2. Weight(space.prev, Mapped(space, raw)) = w
    BY <2>1 DEF PairAt
  <2>3. StackHolds(next, t, n + 1)
    BY <2>1, StackSteps
  <2> HIDE DEF w, e
  <2>4. StepByte(space, raw) =
          [space EXCEPT !.stack = next, !.pos = n + 1, !.prev = t[n + 1], !.changed = ChangedEnd(space, raw)]
    BY <1>2, <2>1, <2>2 DEF StepByte, e
  <2> HIDE DEF next
  <2>5. next \in Seq(Entry)
    BY <2>3 DEF StackHolds
  <2>6. /\ StepByte(space, raw) \in Space /\ StepByte(space, raw).pos = n + 1
        /\ StepByte(space, raw).prev = t[n + 1] /\ StepByte(space, raw).stack = next
        /\ StepByte(space, raw).folded = space.folded
        /\ StepByte(space, raw).changed = ChangedEnd(space, raw)
    <3>1. n + 1 \in Nat
      OBVIOUS
    <3> QED BY <1>1, <1>2, <1>3, <2>4, <2>5, <3>1 DEF Space
  <2>7. SpaceReads(StepByte(space, raw), t, n + 1)
    BY <2>3, <2>6 DEF SpaceReads
  <2>8. Emits(space, raw) =
          {<<start, n + 1>> : start \in {st \in CloseStack(space.stack, w).starts :
                                           /\ n + 1 - st <= MaxGramLen
                                           /\ space.folded => ChangedEnd(space, raw) > st}}
    BY <1>2, <2>1, <2>2 DEF Emits
  <2>9. \A start : start \in CloseStack(space.stack, w).starts /\ n + 1 - start <= MaxGramLen
                     <=> start \in Nat /\ <<start, n + 1>> \in Hulls(t)
    BY <2>1, StackClosesHulls DEF w
  <2>10. \A at \in Hulls(t) : at = <<at[1], at[2]>> /\ at[1] \in Nat
    BY <1>1 DEF Hulls
  <2>11. Emits(space, raw) = {at \in Hulls(t) : /\ at[2] = n + 1
                                                /\ space.folded => ChangedEnd(space, raw) > at[1]}
    <3> DEFINE P(st) == space.folded => ChangedEnd(space, raw) > st
               R == {at \in Hulls(t) : at[2] = n + 1 /\ P(at[1])}
    <3> HIDE DEF P
    <3>1. Emits(space, raw) =
            {<<start, n + 1>> : start \in {st \in CloseStack(space.stack, w).starts : n + 1 - st <= MaxGramLen /\ P(st)}}
      BY <2>8 DEF P
    <3>2. ASSUME NEW x \in Emits(space, raw) PROVE x \in R
      BY <2>9, <3>1
    <3>3. ASSUME NEW x \in R PROVE x \in Emits(space, raw)
      <4>1. x = <<x[1], n + 1>> /\ x[1] \in Nat /\ x \in Hulls(t) /\ P(x[1])
        BY <2>10
      <4>2. x[1] \in CloseStack(space.stack, w).starts /\ n + 1 - x[1] <= MaxGramLen
        BY <2>9, <4>1
      <4> QED BY <3>1, <4>1, <4>2
    <3>4. Emits(space, raw) = R
      BY <3>2, <3>3
    <3> QED BY <3>4 DEF P
  <2> QED BY <2>6, <2>7, <2>11
<1> QED BY <1>4, <1>5

-----------------------------------------------------------------------------
(***************************************************************************)
(* Texts, as they are and folded.                                          *)
(***************************************************************************)
LEMMA FramedIsText ==
    ASSUME NEW text \in Seq(Byte)
    PROVE  Framed(text) \in Seq(Byte) /\ Len(Framed(text)) = Len(text) + 2
<1>1. <<LF>> \in Seq(Byte) /\ Len(<<LF>>) = 1
  BY DEF LF, Byte
<1>2. <<LF>> \o text \in Seq(Byte) /\ Len(<<LF>> \o text) = 1 + Len(text)
  BY <1>1
<1>3. (<<LF>> \o text) \o <<LF>> \in Seq(Byte) /\ Len((<<LF>> \o text) \o <<LF>>) = 1 + Len(text) + 1
  BY <1>1, <1>2
<1> QED BY <1>3 DEF Framed

LEMMA LowerIsByte ==
    ASSUME NEW b \in Byte
    PROVE  Lower(b) \in Byte /\ (IsUpper(b) <=> Lower(b) # b)
BY DEF Lower, Byte, IsUpper

LEMMA FoldedIsText ==
    ASSUME NEW t \in Seq(Byte)
    PROVE  /\ Folded(t) \in Seq(Byte) /\ Len(Folded(t)) = Len(t)
           /\ \A i \in 1 .. Len(t) : Folded(t)[i] = Lower(t[i])
<1>1. \A i \in 1 .. Len(t) : t[i] \in Byte
  OBVIOUS
<1>2. \A i \in 1 .. Len(t) : Lower(t[i]) \in Byte
  BY <1>1, LowerIsByte
<1>3. DOMAIN t = 1 .. Len(t) /\ Len(t) \in Nat
  OBVIOUS
<1>4. Folded(t) = [k \in 1 .. Len(t) |-> Lower(t[k])]
  BY <1>3 DEF Folded
<1> QED BY <1>2, <1>3, <1>4

LEMMA TextIs ==
    ASSUME NEW t \in Seq(Byte), NEW p \in Nat, NEW q \in Nat, p <= q, q <= Len(t)
    PROVE  /\ Text(t, p, q) \in Seq(Byte) /\ Len(Text(t, p, q)) = q - p
           /\ \A i \in 1 .. q - p : Text(t, p, q)[i] = t[p + i]
<1>1. p + 1 \in 1 .. Len(t) + 1 /\ q \in p + 1 - 1 .. Len(t) /\ q - (p + 1) + 1 = q - p
  OBVIOUS
<1>2. /\ SubSeq(t, p + 1, q) \in Seq(Byte)
      /\ Len(SubSeq(t, p + 1, q)) = q - p
      /\ \A i \in 1 .. q - p : SubSeq(t, p + 1, q)[i] = t[p + 1 + i - 1]
  BY <1>1
<1>3. \A i \in 1 .. q - p : p + 1 + i - 1 = p + i
  OBVIOUS
<1> QED BY <1>2, <1>3 DEF Text

\* Texts are equal when their bytes are.
LEMMA SameTexts ==
    ASSUME NEW t \in Seq(Byte), NEW u \in Seq(Byte), Len(t) = Len(u), \A i \in 1 .. Len(t) : t[i] = u[i]
    PROVE  t = u
OBVIOUS

\* A part of the folded text is the part, folded.
LEMMA FoldedReads ==
    ASSUME NEW t \in Seq(Byte), NEW p \in Nat, NEW q \in Nat, p <= q, q <= Len(t)
    PROVE  Folded(Text(t, p, q)) = Text(Folded(t), p, q)
<1> DEFINE u == Text(t, p, q)
           v == Text(Folded(t), p, q)
<1>1. u \in Seq(Byte) /\ Len(u) = q - p /\ \A i \in 1 .. q - p : u[i] = t[p + i]
  BY TextIs
<1>2. Folded(t) \in Seq(Byte) /\ Len(Folded(t)) = Len(t) /\ \A i \in 1 .. Len(t) : Folded(t)[i] = Lower(t[i])
  BY FoldedIsText
<1>3. v \in Seq(Byte) /\ Len(v) = q - p /\ \A i \in 1 .. q - p : v[i] = Folded(t)[p + i]
  BY <1>2, TextIs
<1> HIDE DEF u, v
<1>4. Folded(u) \in Seq(Byte) /\ Len(Folded(u)) = q - p /\ \A i \in 1 .. q - p : Folded(u)[i] = Lower(u[i])
  BY <1>1, FoldedIsText
<1>5. \A i \in 1 .. q - p : Folded(u)[i] = v[i]
  <2> TAKE i \in 1 .. q - p
  <2>1. p + i \in 1 .. Len(t)
    OBVIOUS
  <2> QED BY <1>1, <1>2, <1>3, <1>4, <2>1
<1>6. Folded(u) = v
  BY <1>3, <1>4, <1>5, SameTexts
<1> QED BY <1>6 DEF u, v

\* Folding changes a part of a text when it changes one of its bytes.
LEMMA ReadDiffers ==
    ASSUME NEW t \in Seq(Byte), NEW p \in Nat, NEW q \in Nat, p <= q, q <= Len(t)
    PROVE  Text(t, p, q) # Text(Folded(t), p, q) <=> \E i \in p + 1 .. q : t[i] # Folded(t)[i]
<1> DEFINE u == Text(t, p, q)
           v == Text(Folded(t), p, q)
<1>1. u \in Seq(Byte) /\ Len(u) = q - p /\ \A i \in 1 .. q - p : u[i] = t[p + i]
  BY TextIs
<1>2. Folded(t) \in Seq(Byte) /\ Len(Folded(t)) = Len(t)
  BY FoldedIsText
<1>3. v \in Seq(Byte) /\ Len(v) = q - p /\ \A i \in 1 .. q - p : v[i] = Folded(t)[p + i]
  BY <1>2, TextIs
<1> HIDE DEF u, v
<1>4. ASSUME NEW i \in p + 1 .. q, t[i] # Folded(t)[i] PROVE u # v
  <2>1. i - p \in 1 .. q - p /\ p + (i - p) = i
    OBVIOUS
  <2> QED BY <1>1, <1>3, <1>4, <2>1
<1>5. ASSUME \A i \in p + 1 .. q : t[i] = Folded(t)[i] PROVE u = v
  <2>1. \A i \in 1 .. q - p : p + i \in p + 1 .. q
    OBVIOUS
  <2>2. \A i \in 1 .. q - p : u[i] = v[i]
    BY <1>1, <1>3, <1>5, <2>1
  <2> QED BY <1>1, <1>3, <2>2, SameTexts
<1> QED BY <1>4, <1>5 DEF u, v

\* Of two texts that begin alike, one stack serves as well as the other.
LEMMA StackServesBoth ==
    ASSUME NEW t, NEW u, NEW n \in Nat, NEW stack, StackHolds(stack, t, n),
           \A i \in 1 .. n : t[i] = u[i]
    PROVE  StackHolds(stack, u, n)
<1>1. ASSUME NEW i \in 1 .. n - 1 PROVE PairAt(t, i) = PairAt(u, i)
  <2>1. i \in 1 .. n /\ i + 1 \in 1 .. n
    OBVIOUS
  <2> QED BY <2>1 DEF PairAt
<1>2. ASSUME NEW a \in 1 .. n - 1 PROVE StandsOut(t, a, n) <=> StandsOut(u, a, n)
  <2>1. \A i \in a + 1 .. n - 1 : i \in 1 .. n - 1
    OBVIOUS
  <2> QED BY <1>1, <2>1 DEF StandsOut
<1>3. ASSUME NEW k \in 1 .. Len(stack) PROVE StartOf(stack, k) + 1 \in 1 .. n - 1
  <2> DEFINE a == StartOf(stack, k)
  <2>1. a \in Nat /\ a + 2 <= n
    BY EntriesAreNumbers DEF StackHolds
  <2> HIDE DEF a
  <2>2. a + 1 \in 1 .. n - 1
    BY <2>1
  <2> QED BY <2>2 DEF a
<1> QED BY <1>1, <1>2, <1>3 DEF StackHolds

-----------------------------------------------------------------------------
(***************************************************************************)
(* The two spaces of a document.                                           *)
(***************************************************************************)
\* The sparse grams that are not the same in both cases.
FoldedHulls(t) == {p \in Hulls(Folded(t)) : Read(t, p) # Read(Folded(t), p)}

EndingAt(hulls, n) == {p \in hulls : p[2] = n}
EndingBy(hulls, n) == {p \in hulls : p[2] <= n}

GramsOf(space, text, spans) == {Gram(space, text, at) : at \in spans}

\* What a document has left in the index after n bytes.
Found(text, n) ==
    GramsOf("Raw", text, EndingBy(Hulls(Framed(text)), n))
        \cup GramsOf("Folded", text, EndingBy(FoldedHulls(Framed(text)), n))

\* The end of the last byte that folding changes.
ChangedFits(changed, t, n) ==
    /\ changed \in Nat /\ changed <= n
    /\ changed > 0 => t[changed] # Folded(t)[changed]
    /\ \A i \in changed + 1 .. n : t[i] = Folded(t)[i]

FoldedFits(folded, t, n) ==
    \/ folded = <<>> /\ \A i \in 1 .. n : t[i] = Folded(t)[i]
    \/ /\ folded \in Seq(Space) /\ Len(folded) = 1
       /\ folded[1].folded
       /\ SpaceReads(folded[1], Folded(t), n)
       /\ ChangedFits(folded[1].changed, t, n)

\* A scan of a text that has taken n bytes.
Fits(sc, text, n) ==
    /\ sc \in [on : {TRUE}, text : {text}, pushed : {n}, raw : Space, folded : Seq(Space), grams : {Found(text, n)}]
    /\ SpaceReads(sc.raw, Framed(text), n) /\ ~sc.raw.folded
    /\ FoldedFits(sc.folded, Framed(text), n)

\* The inductive invariant: what the scan has read so far is what it shows.
ScanInv ==
    \/ scan = NoScan
    \/ \E text \in Seq(Byte) \ {<<>>} : \E n \in 1 .. Len(Framed(text)) : Fits(scan, text, n)

LEMMA HullsAreSpans ==
    ASSUME NEW t \in Seq(Byte), NEW p \in Hulls(t)
    PROVE  /\ p[1] \in Nat /\ p[2] \in Nat /\ p[1] + MinGramLen <= p[2] /\ p[2] - p[1] <= MaxGramLen
           /\ p[2] <= Len(t) /\ p = <<p[1], p[2]>>
<1>1. p \in (0 .. Len(t)) \X (0 .. Len(t)) /\ p[2] - p[1] \in MinGramLen .. MaxGramLen /\ Len(t) \in Nat
  BY DEF Hulls, IsHull
<1>2. MaxGramLen \in Nat
  BY ScanAssumption
<1> QED BY <1>1, <1>2 DEF MinGramLen

\* The grams of one more byte are those that end with it.
LEMMA FoundGrows ==
    ASSUME NEW text \in Seq(Byte), NEW n \in Nat
    PROVE  Found(text, n + 1) =
             Found(text, n) \cup GramsOf("Raw", text, EndingAt(Hulls(Framed(text)), n + 1))
                            \cup GramsOf("Folded", text, EndingAt(FoldedHulls(Framed(text)), n + 1))
<1> DEFINE s == Framed(text)
<1>1. s \in Seq(Byte) /\ Folded(s) \in Seq(Byte)
  BY FramedIsText, FoldedIsText
<1>2. \A p \in Hulls(s) : p[2] \in Nat
  BY <1>1, HullsAreSpans
<1>3. \A p \in FoldedHulls(s) : p[2] \in Nat
  BY <1>1, HullsAreSpans DEF FoldedHulls
<1>4. ASSUME NEW hulls, \A p \in hulls : p[2] \in Nat
      PROVE  EndingBy(hulls, n + 1) = EndingBy(hulls, n) \cup EndingAt(hulls, n + 1)
  <2>1. \A p \in hulls : p[2] <= n + 1 <=> p[2] <= n \/ p[2] = n + 1
    BY <1>4
  <2> QED BY <2>1 DEF EndingBy, EndingAt
<1>5. ASSUME NEW space, NEW S, NEW T
      PROVE  GramsOf(space, text, S \cup T) = GramsOf(space, text, S) \cup GramsOf(space, text, T)
  BY DEF GramsOf
<1>6. GramsOf("Raw", text, EndingBy(Hulls(s), n + 1)) =
        GramsOf("Raw", text, EndingBy(Hulls(s), n)) \cup GramsOf("Raw", text, EndingAt(Hulls(s), n + 1))
  BY <1>2, <1>4, <1>5
<1>7. GramsOf("Folded", text, EndingBy(FoldedHulls(s), n + 1)) =
        GramsOf("Folded", text, EndingBy(FoldedHulls(s), n)) \cup GramsOf("Folded", text, EndingAt(FoldedHulls(s), n + 1))
  BY <1>3, <1>4, <1>5
<1> QED BY <1>6, <1>7 DEF Found

\* The end of the last change tells whether a part of the text reads the same.
LEMMA ChangedShows ==
    ASSUME NEW t \in Seq(Byte), NEW n \in Nat, n <= Len(t), NEW changed, ChangedFits(changed, t, n),
           NEW p \in Nat, p <= n
    PROVE  changed > p <=> Text(t, p, n) # Text(Folded(t), p, n)
<1>1. changed \in Nat /\ changed <= n
  BY DEF ChangedFits
<1>2. Text(t, p, n) # Text(Folded(t), p, n) <=> \E i \in p + 1 .. n : t[i] # Folded(t)[i]
  BY ReadDiffers
<1>3. CASE changed > p
  <2>1. changed \in p + 1 .. n /\ changed > 0
    BY <1>1, <1>3
  <2> QED BY <1>2, <1>3, <2>1 DEF ChangedFits
<1>4. CASE ~(changed > p)
  <2>1. \A i \in p + 1 .. n : i \in changed + 1 .. n
    BY <1>1, <1>4
  <2> QED BY <1>2, <1>4, <2>1 DEF ChangedFits
<1> QED BY <1>3, <1>4

\* The folded space that is there when a byte arrives, started late or not, has
\* read the folded text so far.
LEMMA FoldedSpaceIsThere ==
    ASSUME NEW t \in Seq(Byte), NEW n \in Nat, n < Len(t),
           NEW sc, sc.raw \in Space, SpaceReads(sc.raw, t, n), FoldedFits(sc.folded, t, n)
    PROVE  \/ /\ FoldedBefore(sc, t[n + 1]) = <<>>
              /\ \A i \in 1 .. n + 1 : t[i] = Folded(t)[i]
           \/ /\ FoldedBefore(sc, t[n + 1]) \in Seq(Space) /\ Len(FoldedBefore(sc, t[n + 1])) = 1
              /\ FoldedBefore(sc, t[n + 1])[1].folded
              /\ SpaceReads(FoldedBefore(sc, t[n + 1])[1], Folded(t), n)
              /\ ChangedFits(FoldedBefore(sc, t[n + 1])[1].changed, t, n)
<1> DEFINE b == t[n + 1]
<1>1. b \in Byte /\ Len(t) \in Nat /\ n + 1 \in 1 .. Len(t)
  OBVIOUS
<1>2. Folded(t)[n + 1] = Lower(b)
  BY <1>1, FoldedIsText
<1>3. CASE sc.folded # <<>>
  <2>1. FoldedBefore(sc, b) = sc.folded
    BY <1>3 DEF FoldedBefore
  <2> QED BY <1>3, <2>1 DEF FoldedFits
<1>4. CASE sc.folded = <<>>
  <2>1. \A i \in 1 .. n : t[i] = Folded(t)[i]
    <3>1. Len(<<>>) = 0
      OBVIOUS
    <3> QED BY <1>4, <3>1 DEF FoldedFits
  <2>2. CASE ~IsUpper(b)
    <3>1. FoldedBefore(sc, b) = <<>>
      BY <1>4, <2>2 DEF FoldedBefore
    <3>2. t[n + 1] = Folded(t)[n + 1]
      BY <1>1, <1>2, <2>2, LowerIsByte
    <3>3. \A i \in 1 .. n + 1 : t[i] = Folded(t)[i]
      <4> TAKE i \in 1 .. n + 1
      <4>1. i \in 1 .. n \/ i = n + 1
        OBVIOUS
      <4> QED BY <2>1, <3>2, <4>1
    <3> QED BY <3>1, <3>3
  <2>3. CASE IsUpper(b)
    <3> DEFINE twin == FoldedTwin(sc.raw)
    <3>1. FoldedBefore(sc, b) = <<twin>>
      BY <1>4, <2>3 DEF FoldedBefore
    <3>2. /\ twin \in Space /\ twin.folded = TRUE /\ twin.changed = 0
          /\ twin.pos = sc.raw.pos /\ twin.prev = sc.raw.prev /\ twin.stack = sc.raw.stack
      BY DEF FoldedTwin, Space
    <3> HIDE DEF twin
    <3>3. SpaceReads(twin, Folded(t), n)
      <4>1. ASSUME n > 0 PROVE twin.prev = Folded(t)[n] /\ StackHolds(twin.stack, Folded(t), n)
        <5>1. sc.raw.prev = t[n] /\ StackHolds(sc.raw.stack, t, n)
          BY <4>1 DEF SpaceReads
        <5>2. n \in 1 .. n
          BY <4>1
        <5>3. StackHolds(sc.raw.stack, Folded(t), n)
          BY <2>1, <5>1, StackServesBoth
        <5> QED BY <2>1, <3>2, <5>1, <5>2, <5>3
      <4>2. twin.pos = n /\ (n = 0 => twin.stack = <<>>)
        BY <3>2 DEF SpaceReads
      <4> QED BY <3>2, <4>1, <4>2 DEF SpaceReads
    <3>4. ChangedFits(twin.changed, t, n)
      <4>1. 0 \in Nat /\ 0 <= n /\ ~(0 > 0) /\ 0 + 1 = 1
        OBVIOUS
      <4> QED BY <2>1, <3>2, <4>1 DEF ChangedFits
    <3>5. <<twin>> \in Seq(Space) /\ Len(<<twin>>) = 1 /\ <<twin>>[1] = twin
      BY <3>2
    <3> QED BY <3>1, <3>2, <3>3, <3>4, <3>5
  <2> QED BY <2>2, <2>3
<1> QED BY <1>3, <1>4

\* The folded space takes a byte and emits what the two cases do not share.
LEMMA FoldedSpaceSteps ==
    ASSUME NEW t \in Seq(Byte), NEW n \in Nat, n < Len(t), NEW space, space.folded,
           SpaceReads(space, Folded(t), n), ChangedFits(space.changed, t, n)
    PROVE  /\ SpaceReads(StepByte(space, t[n + 1]), Folded(t), n + 1)
           /\ StepByte(space, t[n + 1]).folded
           /\ ChangedFits(StepByte(space, t[n + 1]).changed, t, n + 1)
           /\ Emits(space, t[n + 1]) = EndingAt(FoldedHulls(t), n + 1)
<1> DEFINE b == t[n + 1]
           low == Folded(t)
           changed == ChangedEnd(space, b)
<1>1. b \in Byte /\ Len(t) \in Nat /\ n + 1 \in 1 .. Len(t)
  OBVIOUS
<1>2. low \in Seq(Byte) /\ Len(low) = Len(t) /\ low[n + 1] = Lower(b)
  BY <1>1, FoldedIsText
<1>3. Mapped(space, b) = low[n + 1] /\ space.pos = n
  BY <1>2 DEF Mapped, SpaceReads
<1>4. changed = IF low[n + 1] # b THEN n + 1 ELSE space.changed
  BY <1>3 DEF ChangedEnd
<1> HIDE DEF changed
<1>5. ChangedFits(changed, t, n + 1)
  <2>1. space.changed \in Nat /\ space.changed <= n
    BY DEF ChangedFits
  <2>2. CASE low[n + 1] # b
    <3>1. changed = n + 1 /\ n + 1 \in Nat /\ n + 1 <= n + 1 /\ n + 1 + 1 .. n + 1 = {}
      BY <1>4, <2>2
    <3> QED BY <2>2, <3>1 DEF ChangedFits
  <2>3. CASE low[n + 1] = b
    <3>1. changed = space.changed /\ changed \in Nat /\ changed <= n + 1
      BY <1>4, <2>1, <2>3
    <3>2. ASSUME NEW i \in changed + 1 .. n + 1 PROVE t[i] = low[i]
      <4>1. i \in changed + 1 .. n \/ i = n + 1
        BY <3>1
      <4> QED BY <2>3, <3>1, <4>1 DEF ChangedFits
    <3> QED BY <3>1, <3>2 DEF ChangedFits
  <2> QED BY <2>2, <2>3
<1> HIDE DEF b
<1>6. /\ SpaceReads(StepByte(space, b), low, n + 1)
      /\ StepByte(space, b).folded = space.folded
      /\ StepByte(space, b).changed = changed
      /\ Emits(space, b) = {at \in Hulls(low) : at[2] = n + 1 /\ (space.folded => changed > at[1])}
  <2> HIDE DEF low
  <2>1. low \in Seq(Byte) /\ n < Len(low) /\ SpaceReads(space, low, n) /\ b \in Byte /\ Mapped(space, b) = low[n + 1]
    BY <1>1, <1>2, <1>3 DEF low, b
  <2>2. Emits(space, b) = {at \in Hulls(low) : at[2] = n + 1 /\ (space.folded => ChangedEnd(space, b) > at[1])}
    BY <2>1, SpaceSteps
  <2>3. /\ SpaceReads(StepByte(space, b), low, n + 1)
        /\ StepByte(space, b).folded = space.folded
        /\ StepByte(space, b).changed = ChangedEnd(space, b)
    <3>1. SpaceReads(StepByte(space, b), low, n + 1)
      BY <2>1, SpaceSteps
    <3>2. StepByte(space, b).folded = space.folded
      BY <2>1, SpaceSteps
    <3>3. StepByte(space, b).changed = ChangedEnd(space, b)
      BY <2>1, SpaceSteps
    <3> QED BY <3>1, <3>2, <3>3
  <2> QED BY <2>2, <2>3 DEF changed
<1>7. ASSUME NEW at \in Hulls(low), at[2] = n + 1
      PROVE  changed > at[1] <=> Read(t, at) # Read(low, at)
  <2>1. at[1] \in Nat /\ at[1] <= n + 1 /\ n + 1 \in Nat /\ n + 1 <= Len(t)
    BY <1>1, <1>2, <1>7, HullsAreSpans DEF MinGramLen
  <2>2. changed > at[1] <=> Text(t, at[1], n + 1) # Text(low, at[1], n + 1)
    BY <1>5, <2>1, ChangedShows
  <2> QED BY <1>7, <2>2 DEF Read
<1>8. Emits(space, b) = EndingAt(FoldedHulls(t), n + 1)
  <2>1. {at \in Hulls(low) : at[2] = n + 1 /\ (space.folded => changed > at[1])} =
          {at \in Hulls(low) : Read(t, at) # Read(low, at) /\ at[2] = n + 1}
    BY <1>7
  <2> QED BY <1>6, <2>1 DEF EndingAt, FoldedHulls
<1> QED BY <1>5, <1>6, <1>8 DEF b

\* The scan takes a byte.
LEMMA PushByteFits ==
    ASSUME NEW text \in Seq(Byte), NEW n \in Nat, n < Len(Framed(text)), NEW sc, Fits(sc, text, n)
    PROVE  Fits(PushByte(sc), text, n + 1)
<1> DEFINE s      == Framed(text)
           b      == s[n + 1]
           folded == FoldedBefore(sc, b)
           next   == [i \in DOMAIN folded |-> StepByte(folded[i], b)]
           more   == UNION {{Gram("Folded", text, at) : at \in Emits(folded[i], b)} : i \in DOMAIN folded}
<1>1. s \in Seq(Byte) /\ Len(s) \in Nat /\ b \in Byte
  BY FramedIsText
<1>2. /\ sc \in [on : {TRUE}, text : {text}, pushed : {n}, raw : Space, folded : Seq(Space), grams : {Found(text, n)}]
      /\ SpaceReads(sc.raw, s, n) /\ ~sc.raw.folded
      /\ FoldedFits(sc.folded, s, n)
  BY DEF Fits
<1>3. sc.text = text /\ sc.pushed = n /\ sc.raw \in Space /\ sc.grams = Found(text, n)
  BY <1>2
<1>4. PushByte(sc) =
        [sc EXCEPT !.pushed = n + 1, !.raw = StepByte(sc.raw, b), !.folded = next,
                   !.grams = Found(text, n) \cup {Gram("Raw", text, at) : at \in Emits(sc.raw, b)} \cup more]
  BY <1>2, <1>3 DEF PushByte
<1>5. /\ SpaceReads(StepByte(sc.raw, b), s, n + 1)
      /\ StepByte(sc.raw, b).folded = sc.raw.folded
      /\ Emits(sc.raw, b) = EndingAt(Hulls(s), n + 1)
  <2>1. Mapped(sc.raw, b) = s[n + 1]
    BY <1>2 DEF Mapped
  <2>2. Emits(sc.raw, b) = {at \in Hulls(s) : at[2] = n + 1 /\ (sc.raw.folded => ChangedEnd(sc.raw, b) > at[1])}
    <3> HIDE DEF s, b
    <3> QED BY <1>1, <1>2, <2>1, SpaceSteps DEF s, b
  <2>3. /\ SpaceReads(StepByte(sc.raw, b), s, n + 1)
        /\ StepByte(sc.raw, b).folded = sc.raw.folded
    BY <1>1, <1>2, <2>1, SpaceSteps
  <2> QED BY <1>2, <2>2, <2>3 DEF EndingAt
<1>6. /\ next \in Seq(Space)
      /\ FoldedFits(next, s, n + 1)
      /\ more = GramsOf("Folded", text, EndingAt(FoldedHulls(s), n + 1))
  <2>1. CASE folded = <<>> /\ \A i \in 1 .. n + 1 : s[i] = Folded(s)[i]
    <3>1. next = <<>> /\ more = {}
      BY <2>1
    <3>2. ASSUME NEW at \in EndingAt(FoldedHulls(s), n + 1) PROVE FALSE
      <4>1. at \in Hulls(Folded(s)) /\ at[2] = n + 1 /\ Read(s, at) # Read(Folded(s), at)
        BY DEF EndingAt, FoldedHulls
      <4>2. Folded(s) \in Seq(Byte) /\ Len(Folded(s)) = Len(s)
        BY <1>1, FoldedIsText
      <4>3. at[1] \in Nat /\ at[1] <= n + 1 /\ n + 1 \in Nat /\ n + 1 <= Len(s)
        BY <1>1, <4>1, <4>2, HullsAreSpans DEF MinGramLen
      <4>4. PICK i \in at[1] + 1 .. n + 1 : s[i] # Folded(s)[i]
        BY <1>1, <4>1, <4>3, ReadDiffers DEF Read
      <4>5. i \in 1 .. n + 1
        BY <4>3
      <4> QED BY <2>1, <4>4, <4>5
    <3> HIDE DEF next, more
    <3>3. FoldedFits(next, s, n + 1)
      BY <2>1, <3>1 DEF FoldedFits
    <3>4. GramsOf("Folded", text, EndingAt(FoldedHulls(s), n + 1)) = {}
      BY <3>2 DEF GramsOf
    <3> QED BY <3>1, <3>3, <3>4
  <2>2. CASE /\ folded \in Seq(Space) /\ Len(folded) = 1 /\ folded[1].folded
             /\ SpaceReads(folded[1], Folded(s), n) /\ ChangedFits(folded[1].changed, s, n)
    <3>1. DOMAIN folded = {1}
      BY <2>2
    <3> DEFINE step == StepByte(folded[1], b)
    <3>2. /\ SpaceReads(step, Folded(s), n + 1) /\ step.folded /\ ChangedFits(step.changed, s, n + 1)
          /\ Emits(folded[1], b) = EndingAt(FoldedHulls(s), n + 1)
      BY <1>1, <2>2, FoldedSpaceSteps
    <3>3. more = GramsOf("Folded", text, EndingAt(FoldedHulls(s), n + 1))
      <4>1. more = {Gram("Folded", text, at) : at \in Emits(folded[1], b)}
        BY <3>1
      <4> QED BY <3>2, <4>1 DEF GramsOf
    <3> HIDE DEF folded
    <3>4. next = <<step>>
      BY <3>1
    <3> HIDE DEF next, more, step
    <3>5. step \in Space
      BY <3>2 DEF SpaceReads
    <3>6. next \in Seq(Space) /\ Len(next) = 1 /\ next[1] = step
      BY <3>4, <3>5
    <3> QED BY <3>2, <3>3, <3>6 DEF FoldedFits
  <2> QED BY <1>1, <1>2, <1>3, <2>1, <2>2, FoldedSpaceIsThere
<1> HIDE DEF s, b, next, more
<1>7. Found(text, n + 1) =
        Found(text, n) \cup {Gram("Raw", text, at) : at \in Emits(sc.raw, b)} \cup more
  BY <1>5, <1>6, FoundGrows DEF GramsOf, s
<1>8. StepByte(sc.raw, b) \in Space
  BY <1>5 DEF SpaceReads
<1>9. PushByte(sc) = [sc EXCEPT !.pushed = n + 1, !.raw = StepByte(sc.raw, b), !.folded = next,
                                !.grams = Found(text, n + 1)]
  BY <1>4, <1>7
<1>10. /\ PushByte(sc) \in [on : {TRUE}, text : {text}, pushed : {n + 1}, raw : Space, folded : Seq(Space),
                            grams : {Found(text, n + 1)}]
       /\ PushByte(sc).raw = StepByte(sc.raw, b) /\ PushByte(sc).folded = next
  BY <1>2, <1>6, <1>8, <1>9
<1> QED BY <1>2, <1>5, <1>6, <1>10 DEF Fits, s

\* A document begins with nothing read of it.
LEMMA BeginFits ==
    ASSUME NEW text \in Seq(Byte)
    PROVE  Fits([NoScan EXCEPT !.on = TRUE, !.text = text], text, 0)
<1> DEFINE sc == [NoScan EXCEPT !.on = TRUE, !.text = text]
           s  == Framed(text)
<1>1. NoScan \in [on : {FALSE}, text : {<<>>}, pushed : {0}, raw : {NewSpace}, folded : {<<>>}, grams : {{}}]
  BY DEF NoScan
<1>2. s \in Seq(Byte) /\ Folded(s) \in Seq(Byte)
  BY FramedIsText, FoldedIsText
<1>3. EndingBy(Hulls(s), 0) = {} /\ EndingBy(FoldedHulls(s), 0) = {}
  BY <1>2, HullsAreSpans DEF EndingBy, FoldedHulls, MinGramLen
<1>4. Found(text, 0) = {}
  BY <1>3 DEF Found, GramsOf
<1>5. NewSpace \in Space /\ NewSpace.pos = 0 /\ NewSpace.stack = <<>> /\ NewSpace.folded = FALSE
  <2>1. <<>> \in Seq(Entry) /\ 0 \in Byte /\ 0 \in Nat
    BY DEF Byte
  <2> QED BY <2>1 DEF NewSpace, Space
<1>6. SpaceReads(NewSpace, s, 0)
  BY <1>5 DEF SpaceReads
<1>7. FoldedFits(<<>>, s, 0)
  BY DEF FoldedFits
<1>8. <<>> \in Seq(Space)
  OBVIOUS
<1> HIDE DEF sc
<1>9. /\ sc \in [on : {TRUE}, text : {text}, pushed : {0}, raw : Space, folded : Seq(Space), grams : {Found(text, 0)}]
      /\ sc.raw = NewSpace /\ sc.folded = <<>>
  BY <1>1, <1>4, <1>5, <1>8 DEF sc
<1>10. Fits(sc, text, 0)
  BY <1>5, <1>6, <1>7, <1>9 DEF Fits
<1> QED BY <1>10 DEF sc

\* All of a document read, its grams are its sparse grams.
LEMMA FoundIsAll ==
    ASSUME NEW text \in Seq(Byte)
    PROVE  LET s == Framed(text)
           IN  {g.key : g \in Found(text, Len(s))} =
                 {Key("Raw", Read(s, at)) : at \in Hulls(s)}
                     \cup {Key("Folded", Read(Folded(s), at)) :
                               at \in {p \in Hulls(Folded(s)) : Read(s, p) # Read(Folded(s), p)}}
<1> DEFINE s   == Framed(text)
           low == Folded(s)
<1>1. s \in Seq(Byte) /\ low \in Seq(Byte) /\ Len(low) = Len(s) /\ Len(s) \in Nat
  BY FramedIsText, FoldedIsText
<1>2. EndingBy(Hulls(s), Len(s)) = Hulls(s)
  BY <1>1, HullsAreSpans DEF EndingBy
<1>3. EndingBy(FoldedHulls(s), Len(s)) = FoldedHulls(s)
  BY <1>1, HullsAreSpans DEF EndingBy, FoldedHulls
<1>4. \A at : Gram("Raw", text, at).key = Key("Raw", Read(s, at))
  BY DEF Gram, Read
<1>5. ASSUME NEW at \in FoldedHulls(s)
      PROVE  Gram("Folded", text, at).key = Key("Folded", Read(low, at))
  <2>1. at \in Hulls(low)
    BY DEF FoldedHulls
  <2>2. at[1] \in Nat /\ at[2] \in Nat /\ at[1] <= at[2] /\ at[2] <= Len(s)
    BY <1>1, <2>1, HullsAreSpans DEF MinGramLen
  <2>3. Folded(Text(s, at[1], at[2])) = Text(low, at[1], at[2])
    BY <1>1, <2>2, FoldedReads
  <2>4. Gram("Folded", text, at).key = Key("Folded", Folded(Text(s, at[1], at[2])))
    BY DEF Gram
  <2> QED BY <2>3, <2>4 DEF Read
<1>6. Found(text, Len(s)) = GramsOf("Raw", text, Hulls(s)) \cup GramsOf("Folded", text, FoldedHulls(s))
  BY <1>2, <1>3 DEF Found
<1> HIDE DEF s, low
<1>7. {g.key : g \in GramsOf("Raw", text, Hulls(s))} = {Key("Raw", Read(s, at)) : at \in Hulls(s)}
  BY <1>4 DEF GramsOf
<1>8. {g.key : g \in GramsOf("Folded", text, FoldedHulls(s))} = {Key("Folded", Read(low, at)) : at \in FoldedHulls(s)}
  BY <1>5 DEF GramsOf
<1>9. {g.key : g \in Found(text, Len(s))} =
        {Key("Raw", Read(s, at)) : at \in Hulls(s)} \cup {Key("Folded", Read(low, at)) : at \in FoldedHulls(s)}
  BY <1>6, <1>7, <1>8
<1> QED BY <1>9 DEF s, low, FoldedHulls

LEMMA ScanningFits ==
    ASSUME ScanInv, scan.on
    PROVE  \E text \in Seq(Byte) \ {<<>>} : \E n \in 1 .. Len(Framed(text)) :
             Fits(scan, text, n) /\ scan.text = text /\ scan.pushed = n
<1>1. scan # NoScan
  BY DEF NoScan
<1>2. PICK text \in Seq(Byte) \ {<<>>} : \E n \in 1 .. Len(Framed(text)) : Fits(scan, text, n)
  BY <1>1 DEF ScanInv
<1>3. PICK n \in 1 .. Len(Framed(text)) : Fits(scan, text, n)
  BY <1>2
<1>4. scan.text = text /\ scan.pushed = n
  BY <1>3 DEF Fits
<1> QED BY <1>3, <1>4

\* The spaces of a scan show what it has read, whatever the document.
THEOREM ScanInvHolds == Scans => []ScanInv
<1>1. scan = NoScan => ScanInv
  BY DEF ScanInv
<1>2. ASSUME ScanInv,
             [(\E text \in Seq(Byte) \ {<<>>} : BeginDocument(text)) \/ PushContent \/ FinishDocument]_scan
      PROVE  ScanInv'
  <2>1. ASSUME NEW text \in Seq(Byte) \ {<<>>}, BeginDocument(text) PROVE ScanInv'
    <3> DEFINE sc == [NoScan EXCEPT !.on = TRUE, !.text = text]
    <3>1. text \in Seq(Byte) /\ 0 \in Nat /\ 0 < Len(Framed(text)) /\ 0 + 1 \in 1 .. Len(Framed(text))
      BY FramedIsText
    <3>2. Fits(sc, text, 0)
      BY <3>1, BeginFits
    <3>3. scan' = PushByte(sc)
      BY <2>1 DEF BeginDocument
    <3> HIDE DEF sc
    <3>4. Fits(scan', text, 0 + 1)
      BY <3>1, <3>2, <3>3, PushByteFits
    <3> QED BY <3>1, <3>4 DEF ScanInv
  <2>2. CASE PushContent
    <3>1. PICK text \in Seq(Byte) \ {<<>>} : \E n \in 1 .. Len(Framed(text)) :
             Fits(scan, text, n) /\ scan.text = text /\ scan.pushed = n
      BY <1>2, <2>2, ScanningFits DEF PushContent
    <3>2. PICK n \in 1 .. Len(Framed(text)) : Fits(scan, text, n) /\ scan.text = text /\ scan.pushed = n
      BY <3>1
    <3>3. n # Len(Framed(text)) /\ scan' = PushByte(scan)
      BY <2>2, <3>2 DEF PushContent, Scanned
    <3>4. n \in Nat /\ n < Len(Framed(text)) /\ n + 1 \in 1 .. Len(Framed(text)) /\ text \in Seq(Byte)
      BY <3>3, FramedIsText
    <3>5. Fits(scan', text, n + 1)
      BY <3>2, <3>3, <3>4, PushByteFits
    <3> QED BY <3>4, <3>5 DEF ScanInv
  <2>3. CASE FinishDocument
    BY <2>3 DEF FinishDocument, ScanInv
  <2>4. CASE UNCHANGED scan
    BY <1>2, <2>4 DEF ScanInv
  <2> QED BY <1>2, <2>1, <2>2, <2>3, <2>4
<1> QED BY <1>1, <1>2, PTL DEF Scans

\* A document is indexed under exactly its sparse grams, in both cases, for
\* every weight table, every cap of the stack and every sequence of bytes.
THEOREM GramsAreTheHulls == Scans => []ScanFindsTheHulls
<1>1. ScanInv => ScanFindsTheHulls
  <2> SUFFICES ASSUME ScanInv, Scanned PROVE ScanFindsTheHulls
    BY DEF ScanFindsTheHulls
  <2>1. PICK text \in Seq(Byte) \ {<<>>} : \E n \in 1 .. Len(Framed(text)) :
           Fits(scan, text, n) /\ scan.text = text /\ scan.pushed = n
    BY ScanningFits DEF Scanned
  <2>2. scan.text = text /\ scan.grams = Found(text, Len(Framed(text)))
    BY <2>1 DEF Scanned, Fits
  <2>3. text \in Seq(Byte)
    OBVIOUS
  <2> QED BY <2>2, <2>3, FoundIsAll DEF ScanFindsTheHulls
<1> QED BY <1>1, ScanInvHolds, PTL

-----------------------------------------------------------------------------
(***************************************************************************)
(* The grams of a literal: its scan and its cover.                         *)
(***************************************************************************)
NewLiteral == [space |-> NewSpace, spans |-> {}]

NextLiteral(a, b) == [space |-> StepByte(a.space, b), spans |-> a.spans \cup Emits(a.space, b)]

\* A scan of a literal does what its recursion says.
LEMMA LiteralPassIs ==
    ASSUME NEW lit \in Seq(Byte)
    PROVE  /\ LiteralPass(lit)[0] = NewLiteral
           /\ \A k \in 1 .. Len(lit) : LiteralPass(lit)[k] = NextLiteral(LiteralPass(lit)[k - 1], lit[k])
<1> DEFINE Does(g, n) == g = [k \in 0 .. n |-> IF k = 0 THEN NewLiteral ELSE NextLiteral(g[k - 1], lit[k])]
           Missing == {n \in Nat : \A g : ~Does(g, n)}
<1>1. ASSUME Missing # {} PROVE FALSE
  <2> HIDE DEF Does
  <2>1. PICK n \in Missing : \A m \in Missing : n <= m
    BY <1>1, LeastNumber
  <2>2. CASE n = 0
    <3> DEFINE g == [k \in 0 .. 0 |-> NewLiteral]
    <3>1. Does(g, 0)
      BY DEF Does
    <3> QED BY <2>1, <2>2, <3>1
  <2>3. CASE n # 0
    <3>1. n \in Nat /\ n - 1 \in Nat /\ n - 1 \notin Missing
      BY <2>1, <2>3
    <3>2. PICK h : Does(h, n - 1)
      BY <3>1
    <3> DEFINE g == [k \in 0 .. n |-> IF k = n THEN NextLiteral(h[n - 1], lit[n]) ELSE h[k]]
    <3>3. ASSUME NEW k \in 0 .. n
          PROVE  g[k] = IF k = 0 THEN NewLiteral ELSE NextLiteral(g[k - 1], lit[k])
      <4>1. CASE k = n
        <5>1. k - 1 \in 0 .. n /\ k - 1 # n /\ k # 0
          BY <3>1, <4>1, <2>3
        <5> QED BY <4>1, <5>1
      <4>2. CASE k # n
        <5>1. k \in 0 .. n - 1 /\ (k # 0 => k - 1 \in 0 .. n /\ k - 1 # n)
          BY <3>1, <4>2
        <5>2. h[k] = IF k = 0 THEN NewLiteral ELSE NextLiteral(h[k - 1], lit[k])
          BY <3>2, <5>1 DEF Does
        <5> QED BY <4>2, <5>1, <5>2
      <4> QED BY <4>1, <4>2
    <3>4. Does(g, n)
      BY <3>3 DEF Does
    <3> QED BY <2>1, <3>4
  <2> QED BY <2>2, <2>3
<1> DEFINE n == Len(lit)
<1>2. n \in Nat
  OBVIOUS
<1>3. LiteralPass(lit) =
        CHOOSE g : g = [k \in 0 .. n |->
            IF k = 0 THEN [space |-> NewSpace, spans |-> {}]
            ELSE [space |-> StepByte(g[k - 1].space, lit[k]), spans |-> g[k - 1].spans \cup Emits(g[k - 1].space, lit[k])]]
  BY DEF LiteralPass
<1>4. LiteralPass(lit) = CHOOSE g : Does(g, n)
  BY <1>3 DEF NewLiteral, NextLiteral
<1> HIDE DEF n
<1>5. Does(LiteralPass(lit), n)
  <2> HIDE DEF Does
  <2>1. \E g : Does(g, n)
    BY <1>1, <1>2
  <2> QED BY <1>4, <2>1
<1> HIDE DEF Missing
<1>6. LiteralPass(lit)[0] = NewLiteral
  BY <1>2, <1>5
<1>7. \A k \in 1 .. n : k \in 0 .. n /\ k # 0
  BY <1>2
<1> QED BY <1>5, <1>6, <1>7 DEF n

\* The scan of a literal finds the sparse grams of the literal.
LEMMA LiteralSpansAreHulls ==
    ASSUME NEW lit \in Seq(Byte)
    PROVE  LiteralSpans(lit) = Hulls(lit)
<1> DEFINE After(k) == LiteralPass(lit)[k]
           Reads(k) == /\ SpaceReads(After(k).space, lit, k) /\ ~After(k).space.folded
                       /\ After(k).spans = EndingBy(Hulls(lit), k)
           Wrong    == {k \in 0 .. Len(lit) : ~Reads(k)}
<1>1. Len(lit) \in Nat
  OBVIOUS
<1>2. Reads(0)
  <2>1. After(0).space = NewSpace /\ After(0).spans = {}
    BY LiteralPassIs DEF NewLiteral
  <2>2. SpaceReads(NewSpace, lit, 0) /\ ~NewSpace.folded
    <3>1. <<>> \in Seq(Entry) /\ 0 \in Byte /\ 0 \in Nat
      BY DEF Byte
    <3> QED BY <3>1 DEF NewSpace, Space, SpaceReads
  <2>3. EndingBy(Hulls(lit), 0) = {}
    BY HullsAreSpans DEF EndingBy, MinGramLen
  <2> QED BY <2>1, <2>2, <2>3
<1>3. ASSUME NEW k \in 1 .. Len(lit), Reads(k - 1)
      PROVE  Reads(k)
  <2> DEFINE a == After(k - 1)
  <2>1. /\ After(k).space = StepByte(a.space, lit[k])
        /\ After(k).spans = a.spans \cup Emits(a.space, lit[k])
    <3>1. After(k) = NextLiteral(a, lit[k])
      BY LiteralPassIs
    <3> HIDE DEF After, a
    <3> QED BY <3>1 DEF NextLiteral
  <2>2. SpaceReads(a.space, lit, k - 1) /\ ~a.space.folded /\ a.spans = EndingBy(Hulls(lit), k - 1)
    BY <1>3
  <2> HIDE DEF a
  <2>3. k - 1 \in Nat /\ k - 1 < Len(lit) /\ k - 1 + 1 = k /\ lit[k] \in Byte
    BY <1>1
  <2>4. Mapped(a.space, lit[k]) = lit[k - 1 + 1]
    BY <2>2, <2>3 DEF Mapped
  <2>5. /\ SpaceReads(StepByte(a.space, lit[k]), lit, k - 1 + 1)
        /\ StepByte(a.space, lit[k]).folded = a.space.folded
    BY <2>2, <2>3, <2>4, SpaceSteps
  <2>6. Emits(a.space, lit[k]) =
          {at \in Hulls(lit) : at[2] = k - 1 + 1 /\ (a.space.folded => ChangedEnd(a.space, lit[k]) > at[1])}
    BY <2>2, <2>3, <2>4, SpaceSteps
  <2>7. Emits(a.space, lit[k]) = EndingAt(Hulls(lit), k)
    BY <2>2, <2>3, <2>6 DEF EndingAt
  <2>8. EndingBy(Hulls(lit), k) = EndingBy(Hulls(lit), k - 1) \cup EndingAt(Hulls(lit), k)
    <3>1. ASSUME NEW p \in Hulls(lit) PROVE p[2] <= k <=> p[2] <= k - 1 \/ p[2] = k
      <4>1. p[2] \in Nat
        BY HullsAreSpans
      <4> QED BY <4>1
    <3> QED BY <3>1 DEF EndingBy, EndingAt
  <2> HIDE DEF After
  <2>9. SpaceReads(After(k).space, lit, k) /\ ~After(k).space.folded
    BY <2>1, <2>2, <2>3, <2>5
  <2>10. After(k).spans = EndingBy(Hulls(lit), k)
    BY <2>1, <2>2, <2>7, <2>8
  <2> QED BY <2>9, <2>10
<1> HIDE DEF Reads
<1>4. ASSUME Wrong # {} PROVE FALSE
  <2>1. Wrong \subseteq Nat
    BY <1>1
  <2>2. PICK k \in Wrong : \A m \in Wrong : k <= m
    <3> HIDE DEF Wrong
    <3> QED BY <1>4, <2>1, LeastNumber
  <2>3. k # 0 /\ k \in 1 .. Len(lit) /\ k - 1 \in 0 .. Len(lit) /\ ~(k <= k - 1)
    BY <1>1, <1>2, <2>2
  <2>4. k - 1 \notin Wrong
    BY <2>2, <2>3
  <2> QED BY <1>3, <2>2, <2>3, <2>4
<1>5. Reads(Len(lit))
  BY <1>1, <1>4
<1>6. EndingBy(Hulls(lit), Len(lit)) = Hulls(lit)
  BY HullsAreSpans DEF EndingBy
<1> QED BY <1>5, <1>6 DEF LiteralSpans, Reads

NewCover == [entries |-> <<>>, spans |-> {}]

NextCover(c, lit, k) == Observe(c, k - 2, Weight(lit[k - 1], lit[k]))

\* The stack of a cover is what its recursion says.
LEMMA CoverPassIs ==
    ASSUME NEW lit \in Seq(Byte)
    PROVE  \A k \in 0 .. Len(lit) :
             CoverPass(lit)[k] = IF k <= 1 THEN NewCover ELSE NextCover(CoverPass(lit)[k - 1], lit, k)
<1> DEFINE Does(g, n) == g = [k \in 0 .. n |-> IF k <= 1 THEN NewCover ELSE NextCover(g[k - 1], lit, k)]
           Missing == {n \in Nat : \A g : ~Does(g, n)}
<1>1. ASSUME Missing # {} PROVE FALSE
  <2> HIDE DEF Does
  <2>1. PICK n \in Missing : \A m \in Missing : n <= m
    BY <1>1, LeastNumber
  <2>2. CASE n = 0
    <3> DEFINE g == [k \in 0 .. 0 |-> NewCover]
    <3>1. Does(g, 0)
      BY DEF Does
    <3> QED BY <2>1, <2>2, <3>1
  <2>3. CASE n # 0
    <3>1. n \in Nat /\ n - 1 \in Nat /\ n - 1 \notin Missing
      BY <2>1, <2>3
    <3>2. PICK h : Does(h, n - 1)
      BY <3>1
    <3> DEFINE g == [k \in 0 .. n |-> IF k = n THEN IF n <= 1 THEN NewCover ELSE NextCover(h[n - 1], lit, n)
                                      ELSE h[k]]
    <3>3. ASSUME NEW k \in 0 .. n
          PROVE  g[k] = IF k <= 1 THEN NewCover ELSE NextCover(g[k - 1], lit, k)
      <4>1. CASE k = n
        <5>1. k - 1 \in 0 .. n /\ k - 1 # n
          BY <3>1, <4>1, <2>3
        <5> QED BY <4>1, <5>1
      <4>2. CASE k # n
        <5>1. k \in 0 .. n - 1 /\ (~(k <= 1) => k - 1 \in 0 .. n /\ k - 1 # n)
          BY <3>1, <4>2
        <5>2. h[k] = IF k <= 1 THEN NewCover ELSE NextCover(h[k - 1], lit, k)
          BY <3>2, <5>1 DEF Does
        <5> QED BY <4>2, <5>1, <5>2
      <4> QED BY <4>1, <4>2
    <3>4. Does(g, n)
      BY <3>3 DEF Does
    <3> QED BY <2>1, <3>4
  <2> QED BY <2>2, <2>3
<1> DEFINE n == Len(lit)
<1>2. n \in Nat
  OBVIOUS
<1>3. CoverPass(lit) =
        CHOOSE g : g = [k \in 0 .. n |->
            IF k <= 1 THEN [entries |-> <<>>, spans |-> {}]
            ELSE Observe(g[k - 1], k - 2, Weight(lit[k - 1], lit[k]))]
  BY DEF CoverPass
<1>4. CoverPass(lit) = CHOOSE g : Does(g, n)
  BY <1>3 DEF NewCover, NextCover
<1> HIDE DEF n
<1>5. Does(CoverPass(lit), n)
  <2> HIDE DEF Does
  <2>1. \E g : Does(g, n)
    BY <1>1, <1>2
  <2> QED BY <1>4, <2>1
<1> HIDE DEF Missing
<1> QED BY <1>5 DEF n

\* Spans whose inner pairs are lighter than both ends, however long.
Arches(t, n) ==
    {at \in Nat \X Nat :
        /\ at[1] + MinGramLen <= at[2] /\ at[2] <= n
        /\ \A i \in at[1] + 2 .. at[2] - 2 :
               PairAt(t, i) < PairAt(t, at[1] + 1) /\ PairAt(t, i) < PairAt(t, at[2] - 1)}

LEMMA ArchIs ==
    ASSUME NEW t, NEW n \in Nat, NEW p \in Nat, NEW q \in Nat, p < q, q + 2 <= n,
           \A i \in p + 2 .. q : PairAt(t, i) < PairAt(t, p + 1) /\ PairAt(t, i) < PairAt(t, q + 1)
    PROVE  <<p, q + 2>> \in Arches(t, n)
<1>1. q + 2 \in Nat /\ p + 3 <= q + 2 /\ q + 2 - 1 = q + 1 /\ q + 2 - 2 = q
  OBVIOUS
<1>2. <<p, q + 2>> \in Nat \X Nat
  BY <1>1
<1> QED BY <1>1, <1>2 DEF Arches, MinGramLen

LEMMA ArchesGrow ==
    ASSUME NEW t, NEW n \in Nat
    PROVE  Arches(t, n) \subseteq Arches(t, n + 1)
<1>1. \A at \in Nat \X Nat : at[2] <= n => at[2] <= n + 1
  OBVIOUS
<1> QED BY <1>1 DEF Arches

\* The stack of a cover after n bytes: pairs that grow no heavier, with only
\* lighter ones between two neighbours, the last of them at the end.
CoverHolds(entries, t, n) ==
    /\ entries \in Seq(Entry) /\ Len(entries) # 0
    /\ \A k \in 1 .. Len(entries) :
           StartOf(entries, k) + 2 <= n /\ WeightOf(entries, k) = PairAt(t, StartOf(entries, k) + 1)
    /\ \A k, l \in 1 .. Len(entries) :
           k < l => StartOf(entries, k) < StartOf(entries, l) /\ WeightOf(entries, k) >= WeightOf(entries, l)
    /\ StartOf(entries, Len(entries)) + 2 = n
    /\ \A k \in 1 .. Len(entries) - 1 :
           \A i \in StartOf(entries, k) + 2 .. StartOf(entries, k + 1) : PairAt(t, i) < WeightOf(entries, k + 1)

\* Two neighbours make an arch.
LEMMA NeighboursArch ==
    ASSUME NEW t \in Seq(Byte), NEW n \in Nat, n <= Len(t), NEW entries, CoverHolds(entries, t, n),
           NEW k \in 1 .. Len(entries) - 1
    PROVE  <<StartOf(entries, k), StartOf(entries, k + 1) + 2>> \in Arches(t, n)
<1> DEFINE p == StartOf(entries, k)
           q == StartOf(entries, k + 1)
           l == k + 1
<1>1. entries \in Seq(Entry) /\ Len(entries) \in Nat
  BY DEF CoverHolds
<1>2. k \in 1 .. Len(entries) /\ l \in 1 .. Len(entries) /\ k < l
  BY <1>1
<1>3. p \in Nat /\ q \in Nat /\ WeightOf(entries, k) \in Nat /\ WeightOf(entries, l) \in Nat
  BY <1>1, <1>2, EntriesAreNumbers
<1> HIDE DEF l
<1>4. /\ p < StartOf(entries, l) /\ WeightOf(entries, k) >= WeightOf(entries, l)
      /\ StartOf(entries, l) + 2 <= n
      /\ WeightOf(entries, k) = PairAt(t, p + 1) /\ WeightOf(entries, l) = PairAt(t, StartOf(entries, l) + 1)
  BY <1>2 DEF CoverHolds
<1>5. \A i \in p + 2 .. q : PairAt(t, i) < WeightOf(entries, l)
  BY DEF CoverHolds, l
<1>6. q = StartOf(entries, l)
  BY DEF l
<1> HIDE DEF p, q
<1>7. ASSUME NEW i \in p + 2 .. q
      PROVE  PairAt(t, i) < PairAt(t, p + 1) /\ PairAt(t, i) < PairAt(t, q + 1)
  <2>1. i \in 1 .. Len(t) - 1
    BY <1>3, <1>4, <1>6
  <2>2. PairAt(t, i) \in Nat
    BY <2>1, PairsHaveWeights
  <2> QED BY <1>3, <1>4, <1>5, <1>6, <2>2
<1>8. <<p, q + 2>> \in Arches(t, n)
  BY <1>3, <1>4, <1>6, <1>7, ArchIs
<1> QED BY <1>8 DEF p, q

\* What is above an entry outweighs the pairs after the entry.
LEMMA CoverTops ==
    ASSUME NEW t \in Seq(Byte), NEW n \in Nat, n <= Len(t), NEW entries, CoverHolds(entries, t, n),
           NEW h \in 1 .. Len(entries), NEW i \in StartOf(entries, h) + 2 .. n - 1
    PROVE  \E l \in h + 1 .. Len(entries) : PairAt(t, i) <= WeightOf(entries, l)
<1>1. entries \in Seq(Entry) /\ Len(entries) \in Nat
  BY DEF CoverHolds
<1>2. \A k \in 1 .. Len(entries) : StartOf(entries, k) \in Nat /\ WeightOf(entries, k) \in Nat
  BY <1>1, EntriesAreNumbers
<1> DEFINE m == Len(entries)
           T == {k \in h + 1 .. m : i <= StartOf(entries, k) + 1}
<1>3. StartOf(entries, m) + 2 = n /\ m \in 1 .. Len(entries)
  BY <1>1 DEF CoverHolds
<1>4. StartOf(entries, h) \in Nat /\ i \in Nat /\ StartOf(entries, h) + 2 <= i /\ i <= n - 1
  BY <1>2
<1>5. T # {}
  <2> DEFINE last == StartOf(entries, m)
             first == StartOf(entries, h)
  <2>1. last \in Nat /\ first \in Nat /\ last + 2 = n /\ first + 2 <= i /\ i <= n - 1
    BY <1>2, <1>3, <1>4
  <2>2. h = m => first = last
    OBVIOUS
  <2>3. m \in Nat /\ h \in Nat /\ h <= m
    BY <1>1
  <2> HIDE DEF last, first, m
  <2>4. h # m /\ i <= last + 1 /\ m \in h + 1 .. m
    BY <2>1, <2>2, <2>3, <1>4
  <2> QED BY <2>4 DEF last
<1>6. T \subseteq Nat
  OBVIOUS
<1>7. PICK l \in T : \A k \in T : l <= k
  <2> HIDE DEF T
  <2> QED BY <1>5, <1>6, LeastNumber
<1>8. l \in h + 1 .. m /\ l \in 1 .. m /\ l - 1 \in 1 .. m - 1 /\ l - 1 + 1 = l /\ i <= StartOf(entries, l) + 1
  BY <1>1, <1>7
<1>9. StartOf(entries, l - 1) + 2 <= i
  <2> DEFINE j == l - 1
             a == StartOf(entries, j)
  <2>1. j \in 1 .. m /\ a \in Nat /\ j >= h /\ ~(l <= j)
    BY <1>1, <1>2, <1>8
  <2>2. j \notin T
    BY <1>7, <2>1
  <2>3. j = h \/ j \in h + 1 .. m
    BY <1>1, <2>1
  <2>4. j = h => a + 2 <= i
    BY <1>4
  <2>5. j \in h + 1 .. m => ~(i <= a + 1)
    BY <2>2
  <2> HIDE DEF j, a, T
  <2>6. a + 2 <= i
    BY <1>4, <2>1, <2>3, <2>4, <2>5
  <2> QED BY <2>6 DEF a, j
<1>10. PairAt(t, i) <= WeightOf(entries, l)
  <2> DEFINE b == StartOf(entries, l)
             a == StartOf(entries, l - 1)
  <2>1. b \in Nat /\ a \in Nat /\ WeightOf(entries, l) \in Nat /\ i <= b + 1 /\ a + 2 <= i
    <3>1. l - 1 \in 1 .. Len(entries)
      BY <1>1, <1>8
    <3> QED BY <1>2, <1>8, <1>9, <3>1
  <2>2. WeightOf(entries, l) = PairAt(t, b + 1)
    BY <1>8 DEF CoverHolds
  <2>3. \A x \in a + 2 .. b : PairAt(t, x) < WeightOf(entries, l)
    <3> DEFINE j == l - 1
    <3>1. j \in 1 .. Len(entries) - 1 /\ j + 1 = l
      BY <1>8
    <3> HIDE DEF j
    <3>2. \A x \in StartOf(entries, j) + 2 .. StartOf(entries, j + 1) : PairAt(t, x) < WeightOf(entries, j + 1)
      BY <3>1 DEF CoverHolds
    <3> QED BY <3>1, <3>2 DEF j
  <2> HIDE DEF a, b
  <2>4. CASE i = b + 1
    BY <2>1, <2>2, <2>4
  <2>5. CASE i # b + 1
    <3>1. i \in a + 2 .. b
      BY <1>4, <2>1, <2>5
    <3>2. PairAt(t, i) \in Nat
      <4>1. i \in 1 .. Len(t) - 1
        BY <1>4
      <4> QED BY <4>1, PairsHaveWeights
    <3> QED BY <2>1, <2>3, <3>1, <3>2
  <2> QED BY <2>4, <2>5
<1> QED BY <1>8, <1>10

Chain == [entries : Seq(Entry), spans : SUBSET (Nat \X Nat)]

\* The drained part of a stack leaves arches.
LEMMA DrainArches ==
    ASSUME NEW t \in Seq(Byte), NEW n \in Nat, n <= Len(t), NEW entries, CoverHolds(entries, t, n),
           NEW top \in 1 .. Len(entries)
    PROVE  Drain(SubSeq(entries, 1, top)) \subseteq Arches(t, n)
<1> DEFINE plateau == SubSeq(entries, 1, top)
<1>1. entries \in Seq(Entry) /\ Len(entries) \in Nat
  BY DEF CoverHolds
<1>2. Len(plateau) = top /\ \A i \in 1 .. top : plateau[i] = entries[i]
  BY <1>1
<1> HIDE DEF plateau
<1>3. ASSUME NEW k \in 1 .. Len(plateau) - 1
      PROVE  <<plateau[k].start, plateau[k + 1].start + 2>> \in Arches(t, n)
  <2>1. k \in 1 .. top /\ k + 1 \in 1 .. top /\ k \in 1 .. Len(entries) - 1
    BY <1>1, <1>2
  <2>2. plateau[k].start = StartOf(entries, k) /\ plateau[k + 1].start = StartOf(entries, k + 1)
    BY <1>2, <2>1 DEF StartOf
  <2> QED BY <2>1, <2>2, NeighboursArch
<1> QED BY <1>3 DEF Drain, plateau

\* Where the weights fall below a bound, above the last that is as heavy.
LEMMA HeavyCut ==
    ASSUME NEW t, NEW n \in Nat, NEW entries, CoverHolds(entries, t, n), NEW w \in Nat,
           NEW heavy, heavy = {i \in DOMAIN entries : entries[i].weight >= w},
           NEW h, h = IF heavy = {} THEN 0 ELSE Max(heavy)
    PROVE  h \in 0 .. Len(entries) /\ \A k \in 1 .. Len(entries) : k <= h <=> WeightOf(entries, k) >= w
<1>1. entries \in Seq(Entry) /\ Len(entries) \in Nat /\ DOMAIN entries = 1 .. Len(entries)
  BY DEF CoverHolds
<1>2. \A k \in 1 .. Len(entries) : WeightOf(entries, k) \in Nat
  BY <1>1, EntriesAreNumbers
<1>3. heavy = {i \in 1 .. Len(entries) : WeightOf(entries, i) >= w}
  BY <1>1 DEF WeightOf
<1>4. heavy \in SUBSET (0 .. Len(entries))
  BY <1>1, <1>3
<1>5. CASE heavy = {}
  <2>1. h = 0
    BY <1>5
  <2>2. ASSUME NEW k \in 1 .. Len(entries), WeightOf(entries, k) >= w PROVE FALSE
    <3>1. k \in heavy
      BY <1>3, <2>2
    <3> QED BY <1>5, <3>1
  <2>3. ASSUME NEW k \in 1 .. Len(entries) PROVE k <= h <=> WeightOf(entries, k) >= w
    <3>1. ~(k <= h)
      BY <2>1
    <3> QED BY <2>2, <3>1
  <2>4. h \in 0 .. Len(entries)
    BY <1>1, <2>1
  <2> QED BY <2>3, <2>4
<1>6. CASE heavy # {}
  <2>1. h \in heavy /\ \A m \in heavy : m <= h
    BY <1>1, <1>4, <1>6, MaxOfNumbers
  <2>2. h \in 1 .. Len(entries) /\ WeightOf(entries, h) >= w
    BY <1>3, <2>1
  <2>3. ASSUME NEW k \in 1 .. Len(entries), k <= h PROVE WeightOf(entries, k) >= w
    <3>1. CASE k = h
      BY <2>2, <3>1
    <3>2. CASE k # h
      <4>1. k < h
        BY <2>2, <2>3, <3>2
      <4>2. WeightOf(entries, k) >= WeightOf(entries, h)
        BY <2>2, <4>1 DEF CoverHolds
      <4> QED BY <1>2, <2>2, <4>2
    <3> QED BY <3>1, <3>2
  <2>4. ASSUME NEW k \in 1 .. Len(entries), WeightOf(entries, k) >= w PROVE k <= h
    <3>1. k \in heavy
      BY <1>3, <2>4
    <3> QED BY <2>1, <3>1
  <2> QED BY <1>1, <2>2, <2>3, <2>4
<1> QED BY <1>5, <1>6

\* A pair cuts the stack where the weights fall below its own; when none is as
\* heavy, the plateau at the bottom is chained and glued to the pair.
LEMMA PopLighterCuts ==
    ASSUME NEW t \in Seq(Byte), NEW n \in Nat, n < Len(t),
           NEW c \in Chain, CoverHolds(c.entries, t, n), c.spans \subseteq Arches(t, n)
    PROVE  LET pop == PopLighter(c, n - 1, PairAt(t, n))
           IN  /\ pop \in Chain /\ pop.spans \subseteq Arches(t, n + 1)
               /\ \E h \in 0 .. Len(c.entries) :
                    /\ pop.entries = SubSeq(c.entries, 1, h)
                    /\ \A k \in 1 .. Len(c.entries) : k <= h <=> WeightOf(c.entries, k) >= PairAt(t, n)
<1> DEFINE entries == c.entries
           w       == PairAt(t, n)
           heavy   == {i \in DOMAIN entries : entries[i].weight >= w}
           h       == IF heavy = {} THEN 0 ELSE Max(heavy)
           level   == {i \in DOMAIN entries : entries[i].weight = entries[1].weight}
           top     == Max(level)
           plateau == SubSeq(entries, 1, top)
           pop     == PopLighter(c, n - 1, w)
<1>1. entries \in Seq(Entry) /\ Len(entries) \in Nat /\ DOMAIN entries = 1 .. Len(entries) /\ 1 \in 1 .. Len(entries)
  BY DEF CoverHolds
<1>2. \A k \in 1 .. Len(entries) : StartOf(entries, k) \in Nat /\ WeightOf(entries, k) \in Nat
  BY <1>1, EntriesAreNumbers
<1>3. StartOf(entries, Len(entries)) + 2 = n /\ Len(entries) \in 1 .. Len(entries)
  BY <1>1 DEF CoverHolds
<1>4. n \in Nat /\ n >= 2 /\ n <= Len(t) /\ Len(t) \in Nat
  <2> DEFINE last == StartOf(entries, Len(entries))
  <2>1. last \in Nat /\ last + 2 = n
    BY <1>2, <1>3
  <2> HIDE DEF last
  <2> QED BY <2>1
<1>5. w \in Nat
  BY <1>4, PairsHaveWeights
<1>6. h \in 0 .. Len(entries) /\ \A k \in 1 .. Len(entries) : k <= h <=> WeightOf(entries, k) >= w
  <2>1. heavy = {i \in DOMAIN entries : entries[i].weight >= w} /\ h = IF heavy = {} THEN 0 ELSE Max(heavy)
    OBVIOUS
  <2> HIDE DEF w, h, heavy, entries
  <2>2. CoverHolds(entries, t, n)
    BY DEF entries
  <2> QED BY <1>4, <1>5, <2>1, <2>2, HeavyCut
<1>7. c.spans \subseteq Arches(t, n + 1) /\ Arches(t, n) \subseteq Arches(t, n + 1)
  BY ArchesGrow
<1>8. CASE heavy # {}
  <2>1. pop = [c EXCEPT !.entries = SubSeq(entries, 1, h)]
    <3> DEFINE glued == [entries |-> <<>>, spans |-> c.spans \cup {<<Last(plateau).start, n - 1 + 2>>} \cup Drain(plateau)]
    <3>1. pop = IF heavy # {} \/ entries = <<>> THEN [c EXCEPT !.entries = SubSeq(entries, 1, h)] ELSE glued
      BY DEF PopLighter
    <3> HIDE DEF heavy, glued, pop, h, entries
    <3> QED BY <1>8, <3>1
  <2>2. SubSeq(entries, 1, h) \in Seq(Entry)
    <3> HIDE DEF h, w, entries
    <3> QED BY <1>1, <1>6
  <2> HIDE DEF h, heavy, entries, pop
  <2>3. pop \in Chain /\ pop.spans = c.spans /\ pop.entries = SubSeq(entries, 1, h)
    BY <2>1, <2>2 DEF Chain
  <2> QED BY <1>6, <1>7, <2>3 DEF pop, entries
<1>9. CASE heavy = {}
  <2>1. entries # <<>>
    BY <1>1
  <2>2. pop = [entries |-> <<>>, spans |-> c.spans \cup {<<Last(plateau).start, n - 1 + 2>>} \cup Drain(plateau)]
    BY <1>9, <2>1 DEF PopLighter
  <2>3. h = 0 /\ SubSeq(entries, 1, 0) = <<>>
    <3>1. h = 0
      BY <1>9
    <3>2. SubSeq(entries, 1, 0) = <<>>
      BY <1>1
    <3> QED BY <3>1, <3>2
  <2>4. top \in level /\ \A m \in level : m <= top
    <3>1. level \in SUBSET (0 .. Len(entries)) /\ 1 \in level
      BY <1>1
    <3> HIDE DEF level
    <3> QED BY <1>1, <3>1, MaxOfNumbers
  <2>5. top \in 1 .. Len(entries) /\ WeightOf(entries, top) = WeightOf(entries, 1)
    <3> HIDE DEF top
    <3>1. top \in DOMAIN entries /\ entries[top].weight = entries[1].weight
      BY <2>4
    <3> QED BY <1>1, <3>1 DEF WeightOf
  <2>6. ASSUME NEW k \in 1 .. Len(entries) PROVE WeightOf(entries, k) < w
    <3> HIDE DEF h, w, entries
    <3>1. ~(k <= h)
      BY <2>3
    <3> QED BY <1>2, <1>5, <1>6, <3>1
  <2>7. ASSUME NEW k \in top + 1 .. Len(entries) PROVE WeightOf(entries, k) < WeightOf(entries, top)
    <3>1. k \in 1 .. Len(entries) /\ 1 < k /\ ~(k <= top)
      BY <1>1, <2>5
    <3>2. k \notin level
      BY <2>4, <3>1
    <3>3. WeightOf(entries, k) # WeightOf(entries, 1)
      BY <1>1, <3>1, <3>2 DEF WeightOf
    <3>4. WeightOf(entries, 1) >= WeightOf(entries, k)
      BY <1>1, <3>1 DEF CoverHolds
    <3> QED BY <1>1, <1>2, <2>5, <3>1, <3>3, <3>4
  <2> HIDE DEF top, level, heavy, h
  <2>8. Drain(plateau) \subseteq Arches(t, n)
    BY <1>4, <2>5, DrainArches
  <2>9. Last(plateau).start = StartOf(entries, top)
    <3>1. Len(plateau) = top /\ plateau[top] = entries[top]
      BY <1>1, <2>5
    <3> QED BY <3>1 DEF Last, StartOf
  <2> HIDE DEF plateau
  <2> DEFINE p == StartOf(entries, top)
  <2>10. p \in Nat /\ p + 2 <= n /\ WeightOf(entries, top) = PairAt(t, p + 1)
    BY <1>2, <2>5 DEF CoverHolds
  <2>11. ASSUME NEW i \in p + 2 .. n - 1
         PROVE  PairAt(t, i) < PairAt(t, p + 1) /\ PairAt(t, i) < w
    <3>1. PICK l \in top + 1 .. Len(entries) : PairAt(t, i) <= WeightOf(entries, l)
      <4> HIDE DEF w
      <4> QED BY <1>4, <2>5, <2>11, CoverTops
    <3>2. l \in 1 .. Len(entries)
      BY <1>1, <2>5
    <3>3. PairAt(t, i) \in Nat
      <4> HIDE DEF p
      <4>1. i \in 1 .. Len(t) - 1
        BY <1>4, <2>10
      <4> QED BY <4>1, PairsHaveWeights
    <3>4. WeightOf(entries, l) < w /\ WeightOf(entries, l) < WeightOf(entries, top)
      BY <2>6, <2>7, <3>2
    <3> HIDE DEF p, w
    <3> QED BY <1>2, <1>5, <2>5, <2>10, <3>1, <3>2, <3>3, <3>4
  <2> HIDE DEF p
  <2>12. <<p, n - 1 + 2>> \in Arches(t, n + 1)
    <3> DEFINE q == n - 1
    <3>1. q \in Nat /\ p < q /\ q + 2 <= n + 1 /\ q + 1 = n
      BY <1>4, <2>10
    <3>2. \A i \in p + 2 .. q : PairAt(t, i) < PairAt(t, p + 1) /\ PairAt(t, i) < PairAt(t, q + 1)
      BY <2>11, <3>1
    <3> HIDE DEF q
    <3>3. <<p, q + 2>> \in Arches(t, n + 1)
      BY <1>4, <2>10, <3>1, <3>2, ArchIs
    <3> QED BY <3>3 DEF q
  <2> DEFINE spans == c.spans \cup {<<p, n - 1 + 2>>} \cup Drain(plateau)
  <2>13. spans \subseteq Arches(t, n + 1)
    BY <1>7, <2>8, <2>12
  <2>14. spans \in SUBSET (Nat \X Nat) /\ <<>> \in Seq(Entry)
    BY <2>13 DEF Arches
  <2>15. pop = [entries |-> <<>>, spans |-> spans]
    BY <2>2, <2>9 DEF p
  <2> HIDE DEF spans, pop
  <2>16. pop \in Chain /\ pop.spans = spans /\ pop.entries = <<>>
    BY <2>14, <2>15 DEF Chain
  <2>17. pop.entries = SubSeq(entries, 1, h)
    BY <2>3, <2>16
  <2> HIDE DEF entries
  <2> QED BY <1>6, <2>13, <2>16, <2>17 DEF pop, entries
<1> QED BY <1>8, <1>9

\* The pair then takes its place on the stack.
LEMMA CoverSteps ==
    ASSUME NEW t \in Seq(Byte), NEW n \in Nat, n < Len(t), NEW entries, CoverHolds(entries, t, n),
           NEW h \in 0 .. Len(entries),
           \A k \in 1 .. Len(entries) : k <= h <=> WeightOf(entries, k) >= PairAt(t, n)
    PROVE  CoverHolds(Append(SubSeq(entries, 1, h), [start |-> n - 1, weight |-> PairAt(t, n)]), t, n + 1)
<1> DEFINE w   == PairAt(t, n)
           e   == [start |-> n - 1, weight |-> w]
           new == Append(SubSeq(entries, 1, h), e)
           top == h + 1
<1>1. entries \in Seq(Entry) /\ Len(entries) \in Nat
  BY DEF CoverHolds
<1>2. \A k \in 1 .. Len(entries) : StartOf(entries, k) \in Nat /\ WeightOf(entries, k) \in Nat
  BY <1>1, EntriesAreNumbers
<1>3. n >= 2 /\ Len(t) \in Nat
  <2> DEFINE m == Len(entries)
             last == StartOf(entries, m)
  <2>1. m \in 1 .. Len(entries) /\ last + 2 = n
    BY <1>1 DEF CoverHolds
  <2>2. last \in Nat
    BY <1>2, <2>1
  <2> HIDE DEF last
  <2> QED BY <2>1, <2>2
<1>4. w \in Nat /\ n - 1 \in Nat /\ n - 1 + 2 = n + 1 /\ n - 1 + 1 = n
  BY <1>3, PairsHaveWeights
<1>5. e \in Entry /\ e.start = n - 1 /\ e.weight = w
  BY <1>4 DEF Entry
<1> HIDE DEF e, w
<1>6. /\ new \in Seq(Entry) /\ Len(new) = top /\ new[top] = e
      /\ \A k \in 1 .. h : new[k] = entries[k]
  BY <1>1, <1>5
<1> HIDE DEF new
<1>7. \A k \in 1 .. h : StartOf(new, k) = StartOf(entries, k) /\ WeightOf(new, k) = WeightOf(entries, k)
  BY <1>6 DEF StartOf, WeightOf
<1>8. StartOf(new, top) = n - 1 /\ WeightOf(new, top) = w
  BY <1>5, <1>6 DEF StartOf, WeightOf
<1>9. top \in Nat /\ top # 0 /\ \A k \in 1 .. h : k \in 1 .. Len(entries) /\ k <= h
  BY <1>1
<1>10. ASSUME NEW k \in 1 .. Len(new)
       PROVE  StartOf(new, k) + 2 <= n + 1 /\ WeightOf(new, k) = PairAt(t, StartOf(new, k) + 1)
  <2>1. CASE k = top
    BY <1>4, <1>8, <2>1 DEF w
  <2>2. CASE k # top
    <3>1. k \in 1 .. h /\ k \in 1 .. Len(entries)
      BY <1>1, <1>6, <2>2
    <3> DEFINE a == StartOf(entries, k)
    <3>2. a \in Nat /\ a + 2 <= n /\ WeightOf(entries, k) = PairAt(t, a + 1)
      BY <1>2, <3>1 DEF CoverHolds
    <3>3. StartOf(new, k) = a /\ WeightOf(new, k) = WeightOf(entries, k)
      BY <1>7, <3>1
    <3> HIDE DEF a
    <3> QED BY <3>2, <3>3
  <2> QED BY <2>1, <2>2
<1>11. ASSUME NEW k \in 1 .. Len(new), NEW l \in 1 .. Len(new), k < l
       PROVE  StartOf(new, k) < StartOf(new, l) /\ WeightOf(new, k) >= WeightOf(new, l)
  <2>1. k \in 1 .. h /\ k \in 1 .. Len(entries)
    BY <1>1, <1>6, <1>11
  <2>2. StartOf(new, k) = StartOf(entries, k) /\ WeightOf(new, k) = WeightOf(entries, k)
    BY <1>7, <2>1
  <2>3. CASE l = top
    <3>1. WeightOf(entries, k) >= w
      BY <2>1 DEF w
    <3> DEFINE a == StartOf(entries, k)
    <3>2. a \in Nat /\ a + 2 <= n
      BY <1>2, <2>1 DEF CoverHolds
    <3>3. StartOf(new, l) = n - 1 /\ WeightOf(new, l) = w /\ StartOf(new, k) = a
      BY <1>8, <2>2, <2>3
    <3> HIDE DEF a
    <3>4. a < n - 1
      BY <3>2
    <3> QED BY <2>2, <3>1, <3>3, <3>4
  <2>4. CASE l # top
    <3>1. l \in 1 .. h /\ l \in 1 .. Len(entries)
      BY <1>1, <1>6, <2>4
    <3>2. StartOf(new, l) = StartOf(entries, l) /\ WeightOf(new, l) = WeightOf(entries, l)
      BY <1>7, <3>1
    <3> QED BY <1>11, <2>1, <2>2, <3>1, <3>2 DEF CoverHolds
  <2> QED BY <2>3, <2>4
<1>12. ASSUME NEW k \in 1 .. Len(new) - 1, NEW i \in StartOf(new, k) + 2 .. StartOf(new, k + 1)
       PROVE  PairAt(t, i) < WeightOf(new, k + 1)
  <2>1. k \in 1 .. h /\ k \in 1 .. Len(entries) /\ StartOf(new, k) = StartOf(entries, k)
    BY <1>1, <1>6, <1>7
  <2>2. CASE k = h
    <3>1. i \in StartOf(entries, h) + 2 .. n - 1 /\ h \in 1 .. Len(entries)
      BY <1>8, <2>1, <2>2
    <3>2. PICK l \in h + 1 .. Len(entries) : PairAt(t, i) <= WeightOf(entries, l)
      BY <1>3, <3>1, CoverTops
    <3>3. l \in 1 .. Len(entries) /\ ~(l <= h)
      BY <1>1
    <3>4. ~(WeightOf(entries, l) >= w) /\ WeightOf(entries, l) \in Nat
      BY <1>2, <3>3 DEF w
    <3>5. PairAt(t, i) \in Nat
      <4> DEFINE a == StartOf(entries, h)
      <4>1. a \in Nat /\ i \in a + 2 .. n - 1
        BY <1>2, <3>1
      <4> HIDE DEF a
      <4>2. i \in 1 .. Len(t) - 1
        BY <1>3, <4>1
      <4> QED BY <4>2, PairsHaveWeights
    <3>6. WeightOf(new, k + 1) = w
      BY <1>8, <2>2
    <3> QED BY <1>4, <3>2, <3>4, <3>5, <3>6
  <2>3. CASE k # h
    <3> DEFINE l == k + 1
    <3>1. l \in 1 .. h /\ k \in 1 .. Len(entries) - 1
      BY <1>1, <2>1, <2>3
    <3>2. StartOf(new, l) = StartOf(entries, l) /\ WeightOf(new, l) = WeightOf(entries, l)
      BY <1>7, <3>1
    <3>3. i \in StartOf(entries, k) + 2 .. StartOf(entries, k + 1)
      BY <2>1, <3>2
    <3> QED BY <3>1, <3>2, <3>3 DEF CoverHolds
  <2> QED BY <2>2, <2>3
<1>13. CoverHolds(new, t, n + 1)
  <2>1. StartOf(new, Len(new)) + 2 = n + 1 /\ Len(new) # 0
    BY <1>4, <1>6, <1>8, <1>9
  <2> QED BY <1>6, <1>10, <1>11, <1>12, <2>1 DEF CoverHolds
<1> QED BY <1>13 DEF new, e, w

\* A front entry that gets too old is chained to the next and let go.
LEMMA EvictFrontFits ==
    ASSUME NEW t \in Seq(Byte), NEW n \in Nat, n <= Len(t),
           NEW c \in Chain, CoverHolds(c.entries, t, n), c.spans \subseteq Arches(t, n), NEW start
    PROVE  LET kept == EvictFront(c, start)
           IN  kept \in Chain /\ CoverHolds(kept.entries, t, n) /\ kept.spans \subseteq Arches(t, n)
<1> DEFINE entries == c.entries
           rest    == Tail(entries)
           m       == Len(rest)
           kept    == EvictFront(c, start)
           more    == c.spans \cup {<<entries[1].start, entries[2].start + 2>>}
<1>1. entries \in Seq(Entry) /\ Len(entries) \in Nat
  BY DEF CoverHolds
<1>2. CASE kept = c
  BY <1>2
<1>3. CASE kept # c
  <2>1. ~(Len(entries) <= 1) /\ kept = [entries |-> rest, spans |-> more]
    BY <1>3 DEF EvictFront
  <2>2. more \subseteq Arches(t, n)
    <3>1. 1 \in 1 .. Len(entries) - 1 /\ 1 + 1 = 2
      BY <1>1, <2>1
    <3>2. <<StartOf(entries, 1), StartOf(entries, 2) + 2>> \in Arches(t, n)
      BY <3>1, NeighboursArch
    <3> QED BY <3>2 DEF StartOf
  <2>3. /\ rest \in Seq(Entry) /\ m \in Nat /\ m = Len(entries) - 1 /\ m # 0
        /\ \A k \in 1 .. m : rest[k] = entries[k + 1]
    BY <1>1, <2>1
  <2> HIDE DEF rest, more
  <2>4. \A k \in 1 .. m : StartOf(rest, k) = StartOf(entries, k + 1) /\ WeightOf(rest, k) = WeightOf(entries, k + 1)
    BY <2>3 DEF StartOf, WeightOf
  <2> HIDE DEF m, entries
  <2>5. CoverHolds(entries, t, n)
    BY DEF entries
  <2>6. ASSUME NEW k \in 1 .. m
        PROVE  StartOf(rest, k) + 2 <= n /\ WeightOf(rest, k) = PairAt(t, StartOf(rest, k) + 1)
    <3> DEFINE j == k + 1
    <3>1. j \in 1 .. Len(entries) /\ StartOf(rest, k) = StartOf(entries, j) /\ WeightOf(rest, k) = WeightOf(entries, j)
      BY <1>1, <2>3, <2>4
    <3> HIDE DEF j
    <3> QED BY <2>5, <3>1 DEF CoverHolds
  <2>7. ASSUME NEW k \in 1 .. m, NEW l \in 1 .. m, k < l
        PROVE  StartOf(rest, k) < StartOf(rest, l) /\ WeightOf(rest, k) >= WeightOf(rest, l)
    <3> DEFINE j == k + 1
               i == l + 1
    <3>1. /\ j \in 1 .. Len(entries) /\ i \in 1 .. Len(entries) /\ j < i
          /\ StartOf(rest, k) = StartOf(entries, j) /\ WeightOf(rest, k) = WeightOf(entries, j)
          /\ StartOf(rest, l) = StartOf(entries, i) /\ WeightOf(rest, l) = WeightOf(entries, i)
      BY <1>1, <2>3, <2>4, <2>7
    <3> HIDE DEF j, i
    <3> QED BY <2>5, <3>1 DEF CoverHolds
  <2>8. StartOf(rest, m) + 2 = n
    <3>1. StartOf(rest, m) = StartOf(entries, m + 1) /\ m + 1 = Len(entries)
      BY <1>1, <2>3, <2>4
    <3> QED BY <2>5, <3>1 DEF CoverHolds
  <2>9. ASSUME NEW k \in 1 .. m - 1, NEW i \in StartOf(rest, k) + 2 .. StartOf(rest, k + 1)
        PROVE  PairAt(t, i) < WeightOf(rest, k + 1)
    <3> DEFINE j == k + 1
               l == j + 1
    <3>1. /\ j \in 1 .. Len(entries) - 1 /\ j \in 1 .. m
          /\ StartOf(rest, k) = StartOf(entries, j)
          /\ StartOf(rest, j) = StartOf(entries, l) /\ WeightOf(rest, j) = WeightOf(entries, l)
      BY <1>1, <2>3, <2>4
    <3>2. i \in StartOf(entries, j) + 2 .. StartOf(entries, l)
      BY <3>1
    <3>3. PairAt(t, i) < WeightOf(entries, l)
      <4> HIDE DEF j
      <4> QED BY <2>5, <3>1, <3>2 DEF CoverHolds
    <3> QED BY <3>1, <3>3
  <2>10. CoverHolds(rest, t, n)
    BY <2>3, <2>6, <2>7, <2>8, <2>9 DEF CoverHolds, m
  <2>11. more \in SUBSET (Nat \X Nat)
    BY <2>2 DEF Arches
  <2>12. kept \in Chain /\ kept.entries = rest /\ kept.spans = more
    <3> HIDE DEF kept
    <3> QED BY <2>1, <2>3, <2>11 DEF Chain
  <2> QED BY <2>2, <2>10, <2>12
<1> QED BY <1>2, <1>3

\* The cover of a literal after n bytes: arches, and the stack they leave.
CoverFits(c, t, n) ==
    /\ c \in Chain /\ c.spans \subseteq Arches(t, n)
    /\ n <= 1 => c.entries = <<>>
    /\ n >= 2 => CoverHolds(c.entries, t, n)

LEMMA ObserveFits ==
    ASSUME NEW t \in Seq(Byte), NEW n \in Nat \ {0}, n < Len(t), NEW c, CoverFits(c, t, n)
    PROVE  CoverFits(Observe(c, n - 1, PairAt(t, n)), t, n + 1)
<1> DEFINE w    == PairAt(t, n)
           e    == [start |-> n - 1, weight |-> w]
           kept == EvictFront(c, n - 1)
           pop  == PopLighter(kept, n - 1, w)
           done == Observe(c, n - 1, w)
<1>1. c \in Chain /\ c.spans \subseteq Arches(t, n) /\ Len(t) \in Nat
  BY DEF CoverFits
<1>2. done = [pop EXCEPT !.entries = Append(pop.entries, e)]
  BY DEF Observe
<1>3. w \in Nat /\ e \in Entry
  BY PairsHaveWeights DEF Entry
<1>4. ASSUME pop \in Chain, pop.spans \subseteq Arches(t, n + 1), CoverHolds(Append(pop.entries, e), t, n + 1)
      PROVE  CoverFits(done, t, n + 1)
  <2>1. Append(pop.entries, e) \in Seq(Entry)
    BY <1>4 DEF CoverHolds
  <2> HIDE DEF pop, e, done
  <2>2. done \in Chain /\ done.spans = pop.spans /\ done.entries = Append(pop.entries, e)
    BY <1>2, <1>4, <2>1 DEF Chain
  <2>3. ~(n + 1 <= 1)
    OBVIOUS
  <2> QED BY <1>4, <2>2, <2>3 DEF CoverFits
<1>5. CASE n = 1
  <2>1. c.entries = <<>>
    BY <1>5 DEF CoverFits
  <2>2. kept = c
    BY <2>1 DEF EvictFront
  <2>3. pop = [c EXCEPT !.entries = <<>>]
    <3> DEFINE heavy == {i \in DOMAIN c.entries : c.entries[i].weight >= w}
               h     == IF heavy = {} THEN 0 ELSE Max(heavy)
               glued == [entries |-> <<>>,
                         spans   |-> c.spans \cup
                                       {<<Last(SubSeq(c.entries, 1, Max({i \in DOMAIN c.entries : c.entries[i].weight = c.entries[1].weight}))).start, n - 1 + 2>>}
                                       \cup Drain(SubSeq(c.entries, 1, Max({i \in DOMAIN c.entries : c.entries[i].weight = c.entries[1].weight})))]
    <3>1. PopLighter(c, n - 1, w) =
            IF heavy # {} \/ c.entries = <<>> THEN [c EXCEPT !.entries = SubSeq(c.entries, 1, h)] ELSE glued
      BY DEF PopLighter
    <3>2. heavy = {}
      BY <2>1
    <3>3. h = 0
      BY <3>2
    <3>4. SubSeq(<<>>, 1, 0) = <<>>
      OBVIOUS
    <3> HIDE DEF h, heavy, glued, kept
    <3> QED BY <2>1, <2>2, <3>1, <3>3, <3>4
  <2>4. pop \in Chain /\ pop.spans = c.spans /\ pop.entries = <<>>
    <3> HIDE DEF pop
    <3>1. <<>> \in Seq(Entry) /\ c \in Chain
      BY <1>1
    <3>2. pop \in Chain
      BY <2>3, <3>1 DEF Chain
    <3>3. pop.spans = c.spans
      BY <2>3, <3>1 DEF Chain
    <3>4. pop.entries = <<>>
      BY <2>3, <3>1 DEF Chain
    <3> QED BY <3>2, <3>3, <3>4
  <2>5. Append(pop.entries, e) = <<e>>
    <3> HIDE DEF pop, e
    <3>1. Append(<<>>, e) = <<e>>
      OBVIOUS
    <3> QED BY <2>4, <3>1
  <2>6. CoverHolds(<<e>>, t, n + 1)
    <3>1. /\ <<e>> \in Seq(Entry) /\ Len(<<e>>) = 1 /\ <<e>>[1] = e
          /\ e.start = 0 /\ e.weight = w /\ n + 1 = 2 /\ 1 .. 1 - 1 = {} /\ \A k \in 1 .. 1 : k = 1
      BY <1>3, <1>5
    <3>2. StartOf(<<e>>, 1) = 0 /\ WeightOf(<<e>>, 1) = PairAt(t, 0 + 1)
      BY <1>5, <3>1 DEF StartOf, WeightOf
    <3> HIDE DEF e, w
    <3> QED BY <3>1, <3>2 DEF CoverHolds
  <2>7. pop.spans \subseteq Arches(t, n + 1)
    BY <1>1, <2>4, ArchesGrow
  <2> QED BY <1>1, <1>4, <2>4, <2>5, <2>6, <2>7
<1>6. CASE n # 1
  <2>1. n >= 2 /\ n <= Len(t) /\ n \in Nat
    BY <1>1, <1>6
  <2>2. CoverHolds(c.entries, t, n)
    BY <2>1 DEF CoverFits
  <2>3. kept \in Chain /\ CoverHolds(kept.entries, t, n) /\ kept.spans \subseteq Arches(t, n)
    BY <1>1, <2>1, <2>2, EvictFrontFits
  <2> HIDE DEF kept
  <2>4. /\ pop \in Chain /\ pop.spans \subseteq Arches(t, n + 1)
        /\ \E h \in 0 .. Len(kept.entries) :
             /\ pop.entries = SubSeq(kept.entries, 1, h)
             /\ \A k \in 1 .. Len(kept.entries) : k <= h <=> WeightOf(kept.entries, k) >= w
    BY <2>1, <2>3, PopLighterCuts
  <2>5. PICK h \in 0 .. Len(kept.entries) :
          /\ pop.entries = SubSeq(kept.entries, 1, h)
          /\ \A k \in 1 .. Len(kept.entries) : k <= h <=> WeightOf(kept.entries, k) >= w
    BY <2>4
  <2>6. CoverHolds(Append(SubSeq(kept.entries, 1, h), e), t, n + 1)
    BY <2>1, <2>3, <2>5, CoverSteps
  <2> QED BY <1>4, <2>4, <2>5, <2>6
<1> QED BY <1>5, <1>6

LEMMA CoverPassFits ==
    ASSUME NEW lit \in Seq(Byte), NEW n \in 0 .. Len(lit)
    PROVE  CoverFits(CoverPass(lit)[n], lit, n)
<1> DEFINE Wrong == {k \in 0 .. Len(lit) : ~CoverFits(CoverPass(lit)[k], lit, k)}
<1>1. Len(lit) \in Nat
  OBVIOUS
<1>2. ASSUME NEW k \in 0 .. Len(lit), k <= 1 PROVE CoverFits(CoverPass(lit)[k], lit, k)
  <2>1. CoverPass(lit)[k] = NewCover
    BY <1>2, CoverPassIs
  <2>2. NewCover \in Chain /\ NewCover.spans = {} /\ NewCover.entries = <<>>
    <3>1. <<>> \in Seq(Entry)
      OBVIOUS
    <3> QED BY <3>1 DEF NewCover, Chain
  <2>3. ~(k >= 2)
    BY <1>2
  <2> QED BY <2>1, <2>2, <2>3 DEF CoverFits
<1>3. ASSUME NEW k \in 2 .. Len(lit), CoverFits(CoverPass(lit)[k - 1], lit, k - 1)
      PROVE  CoverFits(CoverPass(lit)[k], lit, k)
  <2> DEFINE j == k - 1
  <2>1. j \in Nat \ {0} /\ j < Len(lit) /\ j + 1 = k /\ j - 1 = k - 2 /\ k \in 0 .. Len(lit) /\ ~(k <= 1)
    BY <1>1
  <2>2. CoverPass(lit)[k] = Observe(CoverPass(lit)[j], j - 1, PairAt(lit, j))
    BY <2>1, CoverPassIs DEF NextCover, PairAt
  <2>3. CoverFits(CoverPass(lit)[j], lit, j)
    BY <1>3
  <2> HIDE DEF j
  <2> QED BY <2>1, <2>2, <2>3, ObserveFits
<1>4. ASSUME Wrong # {} PROVE FALSE
  <2>1. Wrong \subseteq Nat
    BY <1>1
  <2>2. PICK k \in Wrong : \A m \in Wrong : k <= m
    <3> HIDE DEF Wrong
    <3> QED BY <1>4, <2>1, LeastNumber
  <2>3. k \in 2 .. Len(lit) /\ k - 1 \in 0 .. Len(lit) /\ ~(k <= k - 1)
    BY <1>1, <1>2, <2>2
  <2> QED BY <1>3, <2>2, <2>3
<1> QED BY <1>4

\* A chain of the cover is made of sparse grams of the literal.
LEMMA MinimalSpansAreHulls ==
    ASSUME NEW lit \in Seq(Byte)
    PROVE  MinimalSpans(lit) \subseteq Hulls(lit)
<1> DEFINE n    == Len(lit)
           done == CoverPass(lit)[n]
<1>1. n \in Nat /\ n \in 0 .. Len(lit) /\ n <= Len(lit)
  OBVIOUS
<1>2. CoverFits(done, lit, n)
  BY <1>1, CoverPassFits
<1>3. MinimalSpans(lit) = {at \in done.spans \cup Drain(done.entries) : EmitsLen(at[2] - at[1])}
  BY DEF MinimalSpans
<1> HIDE DEF done
<1>4. Drain(done.entries) \subseteq Arches(lit, n)
  <2>1. CASE n <= 1
    <3>1. done.entries = <<>>
      BY <1>2, <2>1 DEF CoverFits
    <3>2. 1 .. Len(<<>>) - 1 = {}
      OBVIOUS
    <3> QED BY <3>1, <3>2 DEF Drain
  <2>2. CASE ~(n <= 1)
    <3>1. CoverHolds(done.entries, lit, n)
      BY <1>1, <1>2, <2>2 DEF CoverFits
    <3> DEFINE entries == done.entries
               m == Len(entries)
    <3>2. entries \in Seq(Entry) /\ m \in 1 .. Len(entries) /\ SubSeq(entries, 1, m) = entries
      BY <3>1 DEF CoverHolds
    <3>3. Drain(SubSeq(entries, 1, m)) \subseteq Arches(lit, n)
      BY <1>1, <3>1, <3>2, DrainArches
    <3> QED BY <3>2, <3>3
  <2> QED BY <2>1, <2>2
<1>5. done.spans \subseteq Arches(lit, n)
  BY <1>2 DEF CoverFits
<1>6. ASSUME NEW at \in Arches(lit, n), EmitsLen(at[2] - at[1]) PROVE at \in Hulls(lit)
  <2>1. at \in Nat \X Nat /\ at[1] + MinGramLen <= at[2] /\ at[2] <= n
    BY DEF Arches
  <2>2. at \in (0 .. Len(lit)) \X (0 .. Len(lit))
    BY <1>1, <2>1 DEF MinGramLen
  <2> QED BY <1>6, <2>2 DEF Arches, Hulls, IsHull, EmitsLen
<1> QED BY <1>3, <1>4, <1>5, <1>6

\* The sparse grams of a part of a text are sparse grams of the text.
LEMMA PartsOfHulls ==
    ASSUME NEW t \in Seq(Byte), NEW i \in Nat, NEW j \in Nat, i <= j, j <= Len(t), NEW at \in Hulls(Text(t, i, j))
    PROVE  /\ <<i + at[1], i + at[2]>> \in Hulls(t)
           /\ Text(Text(t, i, j), at[1], at[2]) = Read(t, <<i + at[1], i + at[2]>>)
<1> DEFINE u == Text(t, i, j)
           p == at[1]
           q == at[2]
<1>1. u \in Seq(Byte) /\ Len(u) = j - i /\ \A k \in 1 .. j - i : u[k] = t[i + k]
  BY TextIs
<1>2. p \in Nat /\ q \in Nat /\ p + MinGramLen <= q /\ q - p <= MaxGramLen /\ q <= Len(u)
  BY <1>1, HullsAreSpans
<1>3. \A k \in p + 2 .. q - 2 : PairAt(u, k) < PairAt(u, p + 1) /\ PairAt(u, k) < PairAt(u, q - 1)
  BY DEF Hulls, IsHull
<1> HIDE DEF u, p, q
<1>4. ASSUME NEW k \in 1 .. j - i - 1 PROVE PairAt(u, k) = PairAt(t, i + k)
  <2>1. k \in 1 .. j - i /\ k + 1 \in 1 .. j - i /\ i + (k + 1) = i + k + 1
    OBVIOUS
  <2> QED BY <1>1, <2>1 DEF PairAt
<1>5. Len(t) \in Nat /\ i + q <= Len(t) /\ i + p \in Nat /\ i + q \in Nat /\ (i + q) - (i + p) = q - p
  BY <1>1, <1>2
<1>6. ASSUME NEW k \in (i + p) + 2 .. (i + q) - 2
      PROVE  PairAt(t, k) < PairAt(t, (i + p) + 1) /\ PairAt(t, k) < PairAt(t, (i + q) - 1)
  <2> DEFINE m == k - i
             a == p + 1
             b == q - 1
  <2>1. /\ m \in p + 2 .. q - 2 /\ m \in 1 .. j - i - 1 /\ a \in 1 .. j - i - 1 /\ b \in 1 .. j - i - 1
        /\ i + m = k /\ i + a = (i + p) + 1 /\ i + b = (i + q) - 1
    <3>1. i \in Nat /\ j \in Nat /\ p \in Nat /\ q \in Nat /\ p + 3 <= q /\ q <= j - i
      BY <1>1, <1>2 DEF MinGramLen
    <3>2. k \in Int /\ (i + p) + 2 <= k /\ k <= (i + q) - 2
      BY <3>1
    <3>3. m \in p + 2 .. q - 2 /\ m \in 1 .. j - i - 1 /\ i + m = k
      BY <3>1, <3>2
    <3>4. a \in 1 .. j - i - 1 /\ b \in 1 .. j - i - 1 /\ i + a = (i + p) + 1 /\ i + b = (i + q) - 1
      BY <3>1
    <3> QED BY <3>3, <3>4
  <2> HIDE DEF m
  <2>2. PairAt(u, m) < PairAt(u, a) /\ PairAt(u, m) < PairAt(u, b)
    BY <1>3, <2>1
  <2> HIDE DEF a, b
  <2>3. PairAt(u, m) = PairAt(t, i + m) /\ PairAt(u, a) = PairAt(t, i + a) /\ PairAt(u, b) = PairAt(t, i + b)
    BY <1>4, <2>1
  <2> QED BY <2>1, <2>2, <2>3
<1>7. <<i + p, i + q>> \in Hulls(t)
  <2> DEFINE x == i + p
             y == i + q
  <2>1. x \in Nat /\ y \in Nat /\ x \in 0 .. Len(t) /\ y \in 0 .. Len(t) /\ y - x \in MinGramLen .. MaxGramLen
    BY <1>2, <1>5, ScanAssumption DEF MinGramLen
  <2>2. \A k \in x + 2 .. y - 2 : PairAt(t, k) < PairAt(t, x + 1) /\ PairAt(t, k) < PairAt(t, y - 1)
    BY <1>6
  <2> HIDE DEF x, y
  <2>3. <<x, y>> \in Hulls(t)
    BY <2>1, <2>2 DEF Hulls, IsHull
  <2> QED BY <2>3 DEF x, y
<1>8. Text(u, p, q) = Text(t, i + p, i + q)
  <2> DEFINE x == i + p
             y == i + q
  <2>1. x \in Nat /\ y \in Nat /\ x <= y /\ y <= Len(t) /\ p <= q /\ y - x = q - p
    BY <1>2, <1>5 DEF MinGramLen
  <2>2. /\ Text(u, p, q) \in Seq(Byte) /\ Len(Text(u, p, q)) = q - p
        /\ \A k \in 1 .. q - p : Text(u, p, q)[k] = u[p + k]
    BY <1>1, <1>2, <2>1, TextIs
  <2> HIDE DEF x, y
  <2>3. /\ Text(t, x, y) \in Seq(Byte) /\ Len(Text(t, x, y)) = q - p
        /\ \A k \in 1 .. q - p : Text(t, x, y)[k] = t[x + k]
    <3>1. /\ Text(t, x, y) \in Seq(Byte) /\ Len(Text(t, x, y)) = y - x
          /\ \A k \in 1 .. y - x : Text(t, x, y)[k] = t[x + k]
      BY <2>1, TextIs
    <3> QED BY <2>1, <3>1
  <2>4. ASSUME NEW k \in 1 .. q - p PROVE u[p + k] = t[x + k]
    <3>1. p + k \in 1 .. j - i /\ i + (p + k) = x + k
      BY <1>1, <1>2 DEF x
    <3> QED BY <1>1, <3>1
  <2>5. Text(u, p, q) = Text(t, x, y)
    BY <2>2, <2>3, <2>4, SameTexts
  <2> QED BY <2>5 DEF x, y
<1> QED BY <1>7, <1>8 DEF Read, u, p, q

\* What the planner demands of a document for a literal is indexed of every
\* document with that literal, for every weight table and every cap.
THEOREM CoverIsAlwaysIndexed == Scans => []CoverIsIndexed
<1>1. ScanInv => CoverIsIndexed
  <2> SUFFICES ASSUME ScanInv, Scanned PROVE CoverIsIndexed
    BY DEF CoverIsIndexed
  <2> DEFINE s == Framed(scan.text)
  <2>1. scan.text \in Seq(Byte) /\ scan.grams = Found(scan.text, Len(s))
    BY ScanningFits DEF Scanned, Fits
  <2>2. s \in Seq(Byte)
    BY <2>1, FramedIsText
  <2>3. \A at \in Hulls(s) : Key("Raw", Read(s, at)) \in {g.key : g \in scan.grams}
    BY <2>1, FoundIsAll
  <2> HIDE DEF s
  <2>4. ASSUME NEW i \in 0 .. Len(s), NEW j \in 0 .. Len(s), i < j, NEW gram \in GuaranteedCover(Text(s, i, j))
        PROVE  \E g \in scan.grams : g.key = Key("Raw", gram)
    <3> DEFINE lit == Text(s, i, j)
    <3>1. i \in Nat /\ j \in Nat /\ i <= j /\ j <= Len(s)
      BY <2>2, <2>4
    <3>2. lit \in Seq(Byte)
      BY <2>2, <3>1, TextIs
    <3>3. PICK at \in MinimalSpans(lit) \cup LiteralSpans(lit) : gram = Text(lit, at[1], at[2])
      BY DEF GuaranteedCover, GramsAt
    <3>4. at \in Hulls(lit)
      BY <3>2, <3>3, MinimalSpansAreHulls, LiteralSpansAreHulls
    <3> DEFINE there == <<i + at[1], i + at[2]>>
    <3>5. there \in Hulls(s) /\ Text(lit, at[1], at[2]) = Read(s, there)
      BY <2>2, <3>1, <3>4, PartsOfHulls
    <3> HIDE DEF there, lit
    <3>6. Key("Raw", gram) \in {g.key : g \in scan.grams}
      BY <2>3, <3>3, <3>5
    <3> QED BY <3>6
  <2> QED BY <2>4 DEF CoverIsIndexed, s
<1> QED BY <1>1, ScanInvHolds, PTL
=============================================================================
