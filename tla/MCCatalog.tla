------------------------------- MODULE MCCatalog -------------------------------
(* Catalog on a small instance. *)
EXTENDS Catalog, TLC

CONSTANTS t1, t2, c1, c2

\* Two spellings that fold to themselves.
MCLower == [c \in Categories |-> c]

\* A book on sale, and one that differs in everything and is sold out.
TwoForms ==
    {[title |-> t1, category |-> c1, stock |-> 1],
     [title |-> t2, category |-> c2, stock |-> 0]}

Symmetry == Permutations(Requests) \cup Permutations(Books)
================================================================================
