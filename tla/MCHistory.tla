----------------------------- MODULE MCHistory ------------------------------
(***************************************************************************)
(* A small instance of History, with interchangeable requests.             *)
(***************************************************************************)
EXTENDS History, TLC

Symmetry == Permutations(Req)
=============================================================================
