------------------------ MODULE MCWorkspaceServices ------------------------
(* The services differ in nothing the model has, nor do compose containers  *)
(* or callers.                                                              *)
EXTENDS WorkspaceServices, TLC

Symmetry == Permutations(Services) \cup Permutations(Apps) \cup Permutations(Callers)

=============================================================================
