------------------------ MODULE MCVariantPipeline ------------------------
(* The instances of VariantPipeline that TLC checks. *)
EXTENDS VariantPipeline, TLC

Symmetry == Permutations(Tasks)
=============================================================================
