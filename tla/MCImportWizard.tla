---------------------------- MODULE MCImportWizard ----------------------------
(* Small instances of ImportWizard for TLC. *)
EXTENDS ImportWizard, TLC

MappingSymmetry == Permutations(MappingIds)
================================================================================
