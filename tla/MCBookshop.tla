------------------------------- MODULE MCBookshop -------------------------------
(* Bookshop on a small instance.  Requests, rows and ISBNs are interchangeable. *)
EXTENDS Bookshop, TLC

Symmetry ==
    Permutations(Requests) \cup Permutations(Books) \cup Permutations(Isbns)
================================================================================
