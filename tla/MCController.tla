---------------------------- MODULE MCController ----------------------------
(* The controller on small instances.                                      *)
EXTENDS ConfigBlendController, TLC

Symmetry == Permutations(Blends) \cup Permutations(ConfigMaps)
=============================================================================
