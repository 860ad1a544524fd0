------------------------------- MODULE TraceStore -------------------------------
(***************************************************************************)
(* What an import promises about the stored traces: each run adds a       *)
(* growing prefix of its file, whole records at a time, and only a run    *)
(* that added all of it completes.  Transactions, conflicts, deadlocks    *)
(* and batches are absent; ImportBatches implements this module.          *)
(***************************************************************************)
EXTENDS Naturals, Sequences

CONSTANTS
    Runs,        \* import runs
    Facts        \* Facts[r][n]: the natural keys that record n of the file of r states

VARIABLES
    stored,      \* the natural keys in the database
    done,        \* how many records of its file each run has added
    outcome      \* "open", "complete" or "failed"

Init ==
    /\ stored = {}
    /\ done = [r \in Runs |-> 0]
    /\ outcome = [r \in Runs |-> "open"]

\* The records up to the n-th, in one step
Add(r) ==
    /\ outcome[r] = "open"
    /\ \E n \in done[r] + 1 .. Len(Facts[r]) :
        /\ stored' = stored \cup UNION {Facts[r][i] : i \in done[r] + 1 .. n}
        /\ done' = [done EXCEPT ![r] = n]
    /\ UNCHANGED outcome

Complete(r) ==
    /\ outcome[r] = "open"
    /\ done[r] = Len(Facts[r])
    /\ outcome' = [outcome EXCEPT ![r] = "complete"]
    /\ UNCHANGED <<stored, done>>

Fail(r) ==
    /\ outcome[r] = "open"
    /\ outcome' = [outcome EXCEPT ![r] = "failed"]
    /\ UNCHANGED <<stored, done>>

Next == \E r \in Runs : Add(r) \/ Complete(r) \/ Fail(r)

Spec == Init /\ [][Next]_<<stored, done, outcome>>
================================================================================
