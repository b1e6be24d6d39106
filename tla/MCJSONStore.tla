---------------------------- MODULE MCJSONStore -----------------------------
(***************************************************************************)
(* Bounded instances of JSONStore for TLC: two or three goroutines over    *)
(* two identifiers.  The goroutines are interchangeable.                   *)
(***************************************************************************)
EXTENDS JSONStore, TLC

Symmetry == Permutations(Proc)
=============================================================================
