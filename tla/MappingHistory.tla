----------------------------- MODULE MappingHistory -----------------------------
(***************************************************************************)
(* What saving a mapping is promised to be, however many callers save at a *)
(* time: one step that compares the document the caller has edited with    *)
(* the one in force and, if they are the same, puts the next version of    *)
(* the name in force in its place.                                         *)
(***************************************************************************)
EXTENDS Naturals

CONSTANTS Clients, Names, Documents, None

VARIABLES
    published,  \* the documents of each name, all the versions
    count,      \* how many they are
    number,     \* the version of each document, 0 until it is published
    current,    \* the document of each name that is in force, if any
    edit        \* what each caller is about to save: the name, and the document it read

vars == <<published, count, number, current, edit>>

Init ==
    /\ published = [n \in Names |-> {}]
    /\ count = [n \in Names |-> 0]
    /\ number = [d \in Documents |-> 0]
    /\ current = [n \in Names |-> {}]
    /\ edit = [c \in Clients |-> None]

\* A name that has no document is given its first one, or any version is read
Edit(c, n) ==
    /\ edit[c] = None
    /\ \E read \in {{d} : d \in published[n]} \cup (IF published[n] = {} THEN {{}} ELSE {}) :
          edit' = [edit EXCEPT ![c] = [name |-> n, read |-> read]]
    /\ UNCHANGED <<published, count, number, current>>

Publish(c, n, d) ==
    /\ edit[c] = [name |-> n, read |-> current[n]]
    /\ \A m \in Names : d \notin published[m]
    /\ published' = [published EXCEPT ![n] = @ \cup {d}]
    /\ count' = [count EXCEPT ![n] = @ + 1]
    /\ number' = [number EXCEPT ![d] = count[n] + 1]
    /\ current' = [current EXCEPT ![n] = {d}]
    /\ edit' = [edit EXCEPT ![c] = None]

\* The save is refused or lost, and leaves nothing
Abandon(c) ==
    /\ edit' = [edit EXCEPT ![c] = None]
    /\ UNCHANGED <<published, count, number, current>>

Next ==
    \E c \in Clients :
        \/ \E n \in Names : Edit(c, n) \/ \E d \in Documents : Publish(c, n, d)
        \/ Abandon(c)

Spec == Init /\ [][Next]_vars
================================================================================
