------------------------------ MODULE ContentStore ------------------------------
(***************************************************************************)
(* What an uploaded file is promised: its content is on disk, whole, under *)
(* the name of its hash, before a row of file_upload refers to it, and     *)
(* neither is ever taken back.  A content has one row.                     *)
(***************************************************************************)
CONSTANT Contents

VARIABLES
    files,     \* the contents that are whole at their final path
    catalogue  \* the contents that have a committed row

vars == <<files, catalogue>>

Init == files = {} /\ catalogue = {}

Place(c) ==
    /\ files' = files \cup {c}
    /\ UNCHANGED catalogue

Register(c) ==
    /\ c \in files \ catalogue
    /\ catalogue' = catalogue \cup {c}
    /\ UNCHANGED files

Next == \E c \in Contents : Place(c) \/ Register(c)

Spec == Init /\ [][Next]_vars
================================================================================
