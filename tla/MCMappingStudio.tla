---------------------------- MODULE MCMappingStudio ----------------------------
(* Small instances of MappingStudio for TLC. *)
EXTENDS MappingStudio, TLC
================================================================================
