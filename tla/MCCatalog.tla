----------------------------- MODULE MCCatalog ------------------------------
(***************************************************************************)
(* Small instances of Catalog.  Requests are interchangeable: identifiers  *)
(* are pairs of a request and a number, and no definition names a request. *)
(***************************************************************************)
EXTENDS Catalog, TLC

Symmetry == Permutations(Req)
=============================================================================
