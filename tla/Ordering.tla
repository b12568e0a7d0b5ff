------------------------------- MODULE Ordering -------------------------------
(***************************************************************************)
(* Sets in an order and parts of sequences, as the queries (ORDER BY) and   *)
(* the list comprehensions of the code make them.                          *)
(***************************************************************************)
EXTENDS Naturals, Sequences, FiniteSets

(* ORDER BY: the element with n others before it comes at n + 1 *)
Preceding(x, S, order) == {y \in S : <<y, x>> \in order}
OrderBy(S, order) ==
    [i \in 1 .. Cardinality(S) |-> CHOOSE x \in S : Cardinality(Preceding(x, S, order)) = i - 1]

(* The elements of a sequence at the positions of a set, in their order *)
Positions(I) == OrderBy(I, {p \in I \X I : p[1] < p[2]})
Keeping(seq, I) == [n \in DOMAIN Positions(I) |-> seq[Positions(I)[n]]]
=============================================================================
