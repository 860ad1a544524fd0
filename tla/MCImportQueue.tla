----------------------------- MODULE MCImportQueue -----------------------------
(***************************************************************************)
(* Small instances of ImportQueue for TLC.  One file; the second mapping  *)
(* is the next version of the first, so both read the file.               *)
(***************************************************************************)
EXTENDS ImportQueue, TLC

AllCompatible == Files \X Mappings

ClientSymmetry == Permutations(Clients)
================================================================================
