------------------------------ MODULE Strings ------------------------------
(***************************************************************************)
(* The sets of byte strings the planner reasons with, and the boolean      *)
(* query over grams it folds them into (query/strings, query/algebra.rs).  *)
(*                                                                         *)
(* A StringSet is a set of byte sequences: that the code keeps it sorted,  *)
(* in prefix or in suffix order, and free of duplicates is representation. *)
(***************************************************************************)
EXTENDS Scan

Orders == {"Prefix", "Suffix"}

(***************************************************************************)
(* StringSet.                                                              *)
(***************************************************************************)
MinLen(S)   == IF S = {} THEN 0 ELSE Min({Len(s) : s \in S})
MaxLen(S)   == IF S = {} THEN 0 ELSE Max({Len(s) : s \in S})
ByteLen(S)  == Cardinality(UNION {{s} \X DOMAIN s : s \in S})
Cross(S, T) == {s \o t : s \in S, t \in T}

\* The end of a string that an order keeps.
Edge(s, order, keep) ==
    IF Len(s) <= keep THEN s
    ELSE IF order = "Prefix" THEN SubSeq(s, 1, keep)
         ELSE SubSeq(s, Len(s) - keep + 1, Len(s))

Truncate(S, order, keep) == {Edge(s, order, keep) : s \in S}

\* The longest cut in 1..hi that leaves at most target strings, or 0.
LongestFit(S, order, hi, target) ==
    IF hi = 0 \/ Cardinality(S) <= target THEN hi
    ELSE Max({0} \cup {k \in 1 .. hi : Cardinality(Truncate(S, order, k)) <= target})

Extends(s, order, t) == IF order = "Prefix" THEN IsPrefix(t, s) ELSE IsSuffix(t, s)

\* If ab is a possible prefix, abc adds nothing.
DedupRedundant(S, order) == {s \in S : \A t \in S \ {s} : ~Extends(s, order, t)}

FoldAscii(S) == {Folded(s) : s \in S}

\* cut_to_fit: at least one byte stays, for the empty string means unknown.
CutToFit(S, order, hi, target) == Truncate(S, order, Max({1, LongestFit(S, order, hi, target)}))

(***************************************************************************)
(* Query: a clause over the presence of grams.                             *)
(***************************************************************************)
Query(op, grams) == [op |-> op, grams |-> grams, sub |-> <<>>]
AllQuery         == Query("All", {})
NoneQuery        == Query("None", {})

IsAtom(q) == Cardinality(q.grams) = 1 /\ q.sub = <<>>
Invert(op) == IF op = "And" THEN "Or" ELSE "And"

RECURSIVE QueryWeight(_)
QueryWeight(q) ==
    LET sum[n \in 0 .. Len(q.sub)] ==
            IF n = 0 THEN Cardinality(q.grams) ELSE sum[n - 1] + QueryWeight(q.sub[n])
    IN  sum[Len(q.sub)]

\* Whether having all the grams of T implies a query.
RECURSIVE GramsImply(_, _)
GramsImply(T, q) ==
    CASE q.op = "Or"  -> (\E i \in DOMAIN q.sub : GramsImply(T, q.sub[i])) \/ T \cap q.grams # {}
      [] q.op = "And" -> (\A i \in DOMAIN q.sub : GramsImply(T, q.sub[i])) /\ q.grams \subseteq T
      [] OTHER        -> FALSE

\* Every document of q is one of r, when that is plain to see.
RECURSIVE Implies(_, _)
Implies(q, r) ==
    CASE q.op = "None" \/ r.op = "All" -> TRUE
      [] q.op = "All" \/ r.op = "None" -> FALSE
      [] q.op = "And" \/ IsAtom(q)     -> GramsImply(q.grams, r)
      [] OTHER -> /\ \A i \in DOMAIN q.sub : Implies(q.sub[i], r)
                  /\ \A g \in q.grams : GramsImply({g}, r)

UnwrapSingle(q) == IF q.grams = {} /\ Len(q.sub) = 1 THEN q.sub[1] ELSE q

Absorb(host, guest) ==
    [host EXCEPT !.grams = @ \cup guest.grams, !.sub = @ \o guest.sub]

Attach(host, child) == [host EXCEPT !.sub = Append(@, child)]

RECURSIVE AndOr(_, _, _)

\* factor: the grams both sides share go into the opposite operator.
Factor(q, r, op) ==
    LET common == q.grams \cap r.grams
    IN  IF common = {} THEN [op |-> op, grams |-> {}, sub |-> <<q, r>>]
        ELSE AndOr(Query(Invert(op), common),
                   AndOr([q EXCEPT !.grams = @ \ common], [r EXCEPT !.grams = @ \ common], op),
                   Invert(op))

Merge(q, r, op) ==
    CASE q.op = op /\ (r.op = op \/ IsAtom(r)) -> Absorb(q, r)
      [] r.op = op /\ IsAtom(q)                -> Absorb(r, q)
      [] IsAtom(q) /\ IsAtom(r)                -> Absorb([q EXCEPT !.op = op], r)
      [] q.op = op                             -> Attach(q, r)
      [] r.op = op                             -> Attach(r, q)
      [] OTHER                                 -> Factor(q, r, op)

\* Under AND the stronger of two implied clauses is kept, under OR the weaker.
AndOr(left, right, op) ==
    LET q == UnwrapSingle(left)
        r == UnwrapSingle(right)
    IN  CASE Implies(q, r) -> IF op = "And" THEN q ELSE r
          [] Implies(r, q) -> IF op = "And" THEN r ELSE q
          [] OTHER         -> Merge(q, r, op)

And(q, r) == AndOr(q, r, "And")
Or(q, r)  == AndOr(q, r, "Or")
=============================================================================
