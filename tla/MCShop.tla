--------------------------------- MODULE MCShop ---------------------------------
(***************************************************************************)
(* OrderShop for TLC.  Requests are interchangeable, and all that is       *)
(* checked of the shop is safety, so one of each kind is enough.           *)
(***************************************************************************)
EXTENDS OrderShop, TLC

Symmetry == Permutations(Orders)

================================================================================
