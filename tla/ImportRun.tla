------------------------------- MODULE ImportRun -------------------------------
(***************************************************************************)
(* What the import service promises about one import run, as a poller of  *)
(* GET /imports/{id} sees it: a run is created pending, one worker takes  *)
(* it, and it settles once in a final status.  Clients, workers, locks    *)
(* and transactions are absent; ImportQueue implements this module.       *)
(***************************************************************************)
EXTENDS Naturals

CONSTANTS
    RunIds,      \* primary keys of the table import_run
    Faults       \* TRUE: the database connection may fail and workers may die

VARIABLE status  \* status of each run; "absent" until its row is committed

Final == {"succeeded", "partial", "failed"}

Status == {"absent", "pending", "running"} \cup Final

TypeOK == status \in [RunIds -> Status]

Init == status = [r \in RunIds |-> "absent"]

Become(r, s) == status' = [status EXCEPT ![r] = s]

Create(r) == status[r] = "absent" /\ Become(r, "pending")

Claim(r) == status[r] = "pending" /\ Become(r, "running")

Settle(r) == status[r] = "running" /\ \E s \in Final : Become(r, s)

\* With a failing connection the worker may report a failure after the
\* report of the run was committed: the published outcome is overturned.
Overturn(r) ==
    /\ Faults
    /\ status[r] \in {"succeeded", "partial"}
    /\ Become(r, "failed")

Next == \E r \in RunIds : Create(r) \/ Claim(r) \/ Settle(r) \/ Overturn(r)

Spec == Init /\ [][Next]_status

================================================================================
