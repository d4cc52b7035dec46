----------------------------- MODULE MCRecipeDB -----------------------------
(* The Recipe database on a small instance.                                *)
EXTENDS RecipeDB, TLC

Symmetry ==
  Permutations(Names) \cup Permutations(Clients) \cup Permutations(Bodies)
=============================================================================
