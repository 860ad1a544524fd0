--------------------------- MODULE MCMappingVersions ---------------------------
(* Small instances of MappingVersions for TLC. *)
EXTENDS MappingVersions, TLC

Symmetry == Permutations(Clients) \cup Permutations(Names)
================================================================================
