----------------------------- MODULE MCFetcher ------------------------------
(* The fetcher on small instances.                                         *)
EXTENDS Fetcher, TLC

Symmetry == Permutations(Calls)
=============================================================================
