------------------------- MODULE MCRegistryRefinement -------------------------
(* RegistryRefinement with the instance definitions of MCRegistry. *)
EXTENDS RegistryRefinement, MCRegistry
=============================================================================
