-------------------------- MODULE MCTargetPipeline --------------------------
(* TargetPipeline, and the channel it implements, on small instances.      *)
EXTENDS TargetRefinement, TLC

MCSymmetry == Permutations(Producers)
=============================================================================
