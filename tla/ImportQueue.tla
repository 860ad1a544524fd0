------------------------------ MODULE ImportQueue ------------------------------
(***************************************************************************)
(* POST /imports, the queue kept in the table import_run, and the workers  *)
(* that consume it.  A request is one READ COMMITTED transaction of        *)
(* several statements; a claim is one UPDATE whose row lock lives until    *)
(* its commit; the report of a run and the release of its lock are two     *)
(* transactions.  What an import does between the claim and the report is  *)
(* the subject of ImportBatches.                                           *)
(***************************************************************************)
EXTENDS Naturals, FiniteSets

CONSTANTS
    Clients,      \* concurrent callers of POST /imports
    Workers,      \* worker processes, named as in import_run.locked_by
    Stoppable,    \* the workers that may be sent SIGTERM
    Drainers,     \* the workers run with --drain (stop_when_idle)
    None,         \* SQL NULL in locked_by, and "no value" elsewhere
    Files, Mappings,
    Compatible,   \* <<file, mapping>> pairs of one source and one format
    Faults,       \* TRUE: connections fail, workers are killed
    MaxRuns,      \* bound: rows of import_run
    MaxRequests,  \* bound: transactions of POST /imports
    MaxRestarts   \* bound: times an operator starts a worker again

ASSUME BoundsAssumption ==
    MaxRuns \in Nat /\ MaxRequests \in Nat /\ MaxRestarts \in Nat

ASSUME SetsAssumption ==
    /\ Stoppable \subseteq Workers
    /\ Drainers \subseteq Workers
    /\ Compatible \subseteq Files \X Mappings
    /\ Faults \in BOOLEAN
    /\ None \notin Workers \cup Files \cup Mappings

RunIds == 1..MaxRuns

VARIABLES
    active,    \* the mappings whose status is 'active'
    \* the columns of import_run
    status, file, mapping, createdAt, lockedBy, attempts,
    report,       \* the records_* counts: none saved, no rejection, or some
    committedAt,  \* history: when the row became visible
    request,   \* the transaction each client has open
    pc, job,   \* where each worker is in run_once, and the run it holds
    stopping,  \* ImportWorker._stopping
    clock,     \* now(), one tick per transaction start or commit
    restarts

rows   == <<file, mapping, createdAt, committedAt>>
api    == <<active, request, clock>>
worker == <<pc, job, stopping, restarts>>
vars   == <<rows, api, worker, status, lockedBy, attempts, report>>

--------------------------------------------------------------------------------
(* Statuses and derived state *)

Final == {"succeeded", "partial", "failed"}

Status == {"absent", "pending", "running"} \cup Final

\* Mutant: a run being executed does not block a second launch.
BlockingIgnoresRunning == {"pending", "succeeded"}

BLOCKING_STATUSES == {"pending", "running", "succeeded"}

\* records_rejected as far as the status depends on it
Report == {"none", "clean", "rejections"}

\* "partial" as soon as anything was rejected
StatusOf(outcome) == IF outcome = "rejections" THEN "partial" ELSE "succeeded"

\* execute() in progress, report committed, exception caught
Holding == {"running", "reported", "failing"}

\* "claiming": the UPDATE has run, its transaction is not committed yet
Pc == {"idle", "claiming", "stopped", "dead"} \cup Holding

Alive(w) == pc[w] \notin {"stopped", "dead"}

Holds(w, r) == pc[w] \in Holding /\ job[w] = r

RowLocked(r) == \E w \in Workers : pc[w] = "claiming" /\ job[w] = r

NoRequest == [step |-> "none", file |-> None, mapping |-> None, began |-> 0, todo |-> {}]

Request ==
    [step : {"none", "listing", "checking"}, file : Files \cup {None},
     mapping : Mappings \cup {None}, began : Nat, todo : SUBSET RunIds]

TypeOK ==
    /\ active \subseteq Mappings
    /\ status \in [RunIds -> Status]
    /\ file \in [RunIds -> Files \cup {None}]
    /\ mapping \in [RunIds -> Mappings \cup {None}]
    /\ createdAt \in [RunIds -> Nat]
    /\ committedAt \in [RunIds -> Nat]
    /\ lockedBy \in [RunIds -> Workers \cup {None}]
    /\ attempts \in [RunIds -> Nat]
    /\ report \in [RunIds -> Report]
    /\ request \in [Clients -> Request]
    /\ pc \in [Workers -> Pc]
    /\ job \in [Workers -> RunIds \cup {None}]
    /\ stopping \in [Workers -> BOOLEAN]
    /\ clock \in Nat
    /\ restarts \in Nat

Init ==
    /\ active = Mappings
    /\ status = [r \in RunIds |-> "absent"]
    /\ file = [r \in RunIds |-> None]
    /\ mapping = [r \in RunIds |-> None]
    /\ createdAt = [r \in RunIds |-> 0]
    /\ committedAt = [r \in RunIds |-> 0]
    /\ lockedBy = [r \in RunIds |-> None]
    /\ attempts = [r \in RunIds |-> 0]
    /\ report = [r \in RunIds |-> "none"]
    /\ request = [c \in Clients |-> NoRequest]
    /\ pc = [w \in Workers |-> "idle"]
    /\ job = [w \in Workers |-> None]
    /\ stopping = [w \in Workers |-> FALSE]
    /\ clock = 0
    /\ restarts = 0

--------------------------------------------------------------------------------
(* POST /imports: CreateImport.execute *)

Queue == <<rows, status, lockedBy, attempts, report>>

\* BEGIN, then the reads of the source, the file and the mapping.  Only a
\* coherent request on an active mapping goes further; a refused one leaves
\* no trace.
BeginRequest(c, f, m) ==
    /\ request[c].step = "none"
    /\ clock < 2 * MaxRequests
    /\ <<f, m>> \in Compatible
    /\ m \in active
    /\ clock' = clock + 1
    /\ request' = [request EXCEPT ![c] =
          [step |-> "listing", file |-> f, mapping |-> m, began |-> clock + 1, todo |-> {}]]
    /\ UNCHANGED <<active, worker, Queue>>

\* file_uploads.import_run_ids: the committed runs of the file
ListRuns(c) ==
    /\ request[c].step = "listing"
    /\ request' = [request EXCEPT ![c] = [@ EXCEPT
          !.step = "checking",
          !.todo = {r \in RunIds : status[r] # "absent" /\ file[r] = request[c].file}]]
    /\ UNCHANGED <<active, clock, worker, Queue>>

Newest(c, r) == r \in request[c].todo /\ \A q \in request[c].todo : q <= r

Blocks(c, r) == mapping[r] = request[c].mapping /\ status[r] \in BLOCKING_STATUSES

\* One run of the list, newest first, each read by a statement of its own
CheckRun(c, r) ==
    /\ request[c].step = "checking"
    /\ Newest(c, r)
    /\ ~Blocks(c, r)
    /\ request' = [request EXCEPT ![c] = [@ EXCEPT !.todo = request[c].todo \ {r}]]
    /\ UNCHANGED <<active, clock, worker, Queue>>

\* 409: the transaction rolls back
Refuse(c, r) ==
    /\ request[c].step = "checking"
    /\ Newest(c, r)
    /\ Blocks(c, r)
    /\ request' = [request EXCEPT ![c] = NoRequest]
    /\ UNCHANGED <<active, clock, worker, Queue>>

\* import_runs.create and the commit; created_at is the start of the transaction
InsertRun(c, r) ==
    /\ request[c].step = "checking"
    /\ request[c].todo = {}
    /\ status[r] = "absent"
    /\ \A q \in RunIds : q < r => status[q] # "absent"
    /\ status' = [status EXCEPT ![r] = "pending"]
    /\ file' = [file EXCEPT ![r] = request[c].file]
    /\ mapping' = [mapping EXCEPT ![r] = request[c].mapping]
    /\ createdAt' = [createdAt EXCEPT ![r] = request[c].began]
    /\ committedAt' = [committedAt EXCEPT ![r] = clock + 1]
    /\ clock' = clock + 1
    /\ request' = [request EXCEPT ![c] = NoRequest]
    /\ UNCHANGED <<active, worker, lockedBy, attempts, report>>

\* The connection is lost before the commit
AbortRequest(c) ==
    /\ Faults
    /\ request[c].step # "none"
    /\ request' = [request EXCEPT ![c] = NoRequest]
    /\ UNCHANGED <<active, clock, worker, Queue>>

\* PUT /mappings/{id} replaces a version (see MappingVersions)
Supersede(m) ==
    /\ m \in active
    /\ active' = active \ {m}
    /\ UNCHANGED <<request, clock, worker, Queue>>

ClientNext ==
    \/ \E c \in Clients, f \in Files, m \in Mappings : BeginRequest(c, f, m)
    \/ \E c \in Clients : ListRuns(c) \/ AbortRequest(c)
    \/ \E c \in Clients, r \in RunIds : CheckRun(c, r) \/ Refuse(c, r) \/ InsertRun(c, r)
    \/ \E m \in Mappings : Supersede(m)

--------------------------------------------------------------------------------
(* The statements of PostgresJobQueue and RunImport on import_run *)

\* Mutant: the claim reads the row without taking its lock.
ClaimableUnlocked(r) == status[r] = "pending"

\* SELECT ... WHERE status = 'pending' ... SKIP LOCKED
Claimable(r) == status[r] = "pending" /\ ~RowLocked(r)

\* Mutant: ORDER BY created_at DESC.
NewestFirst(r) ==
    Claimable(r) /\ \A q \in RunIds : Claimable(q) => createdAt[r] >= createdAt[q]

\* ORDER BY created_at LIMIT 1
Oldest(r) == Claimable(r) /\ \A q \in RunIds : Claimable(q) => createdAt[r] <= createdAt[q]

Claimed(w) ==
    LET r == job[w] IN
    /\ status' = [status EXCEPT ![r] = "running"]
    /\ lockedBy' = [lockedBy EXCEPT ![r] = w]
    /\ attempts' = [attempts EXCEPT ![r] = @ + 1]
    /\ UNCHANGED report

Reported(w, outcome) ==
    LET r == job[w] IN
    /\ status' = [status EXCEPT ![r] = StatusOf(outcome)]
    /\ report' = [report EXCEPT ![r] = outcome]
    /\ UNCHANGED <<lockedBy, attempts>>

\* Mutant: the worker leaves the default of the port, "succeeded".
MarkedSucceededByDefault(w) ==
    LET r == job[w] IN
    /\ status' = [status EXCEPT ![r] = "succeeded"]
    /\ lockedBy' = [lockedBy EXCEPT ![r] = None]
    /\ UNCHANGED <<attempts, report>>

\* The worker computes the status again from the report it was returned
MarkedSucceeded(w) ==
    LET r == job[w] IN
    /\ status' = [status EXCEPT ![r] = StatusOf(report[r])]
    /\ lockedBy' = [lockedBy EXCEPT ![r] = None]
    /\ UNCHANGED <<attempts, report>>

\* Mutant: a failed run goes back to the queue.
MarkedForRetry(w) ==
    LET r == job[w] IN
    /\ status' = [status EXCEPT ![r] = "pending"]
    /\ lockedBy' = [lockedBy EXCEPT ![r] = None]
    /\ UNCHANGED <<attempts, report>>

MarkedFailed(w) ==
    LET r == job[w] IN
    /\ status' = [status EXCEPT ![r] = "failed"]
    /\ lockedBy' = [lockedBy EXCEPT ![r] = None]
    /\ UNCHANGED <<attempts, report>>

Unwritten == UNCHANGED <<status, lockedBy, attempts, report>>

--------------------------------------------------------------------------------
(* ImportWorker.run_forever and run_once *)

GoTo(w, there) ==
    /\ pc' = [pc EXCEPT ![w] = there]
    /\ UNCHANGED <<rows, api, stopping, restarts>>

KeepJob == UNCHANGED job

DropJob(w) == job' = [job EXCEPT ![w] = None]

\* The loop condition holds, the claim statement locks the row it picked
LockOldest(w, r) ==
    /\ pc[w] = "idle"
    /\ ~stopping[w]
    /\ Oldest(r)
    /\ job' = [job EXCEPT ![w] = r]
    /\ GoTo(w, "claiming")
    /\ Unwritten

CommitClaim(w) ==
    /\ pc[w] = "claiming"
    /\ Claimed(w)
    /\ GoTo(w, "running")
    /\ KeepJob

\* Mutant: the exception is swallowed and the worker takes the next run.
ImportFailsSilently(w) ==
    /\ pc[w] = "running"
    /\ GoTo(w, "idle")
    /\ DropJob(w)
    /\ Unwritten

\* execute() raises: invalid mapping, unreadable file, a batch that fails
ImportFails(w) ==
    /\ pc[w] = "running"
    /\ GoTo(w, "failing")
    /\ KeepJob
    /\ Unwritten

SaveReport(w) ==
    /\ pc[w] = "running"
    /\ \E outcome \in {"clean", "rejections"} : Reported(w, outcome)
    /\ GoTo(w, "reported")
    /\ KeepJob

MarkSucceeded(w) ==
    /\ pc[w] = "reported"
    /\ MarkedSucceeded(w)
    /\ GoTo(w, "idle")
    /\ DropJob(w)

MarkFailed(w) ==
    /\ pc[w] = "failing"
    /\ MarkedFailed(w)
    /\ GoTo(w, "idle")
    /\ DropJob(w)

\* Mutant: the loop ends on an empty queue only.
LeaveLoopWhenDrained(w) ==
    /\ pc[w] = "idle"
    /\ w \in Drainers /\ \A r \in RunIds : ~Claimable(r)
    /\ GoTo(w, "stopped")
    /\ KeepJob
    /\ Unwritten

\* `while not self._stopping` is FALSE, or the queue is drained
LeaveLoop(w) ==
    /\ pc[w] = "idle"
    /\ stopping[w] \/ (w \in Drainers /\ \A r \in RunIds : ~Claimable(r))
    /\ GoTo(w, "stopped")
    /\ KeepJob
    /\ Unwritten

WorkerStep(w) ==
    \/ \E r \in RunIds : LockOldest(w, r)
    \/ CommitClaim(w)
    \/ ImportFails(w)
    \/ SaveReport(w)
    \/ MarkSucceeded(w)
    \/ MarkFailed(w)
    \/ LeaveLoop(w)

\* SIGTERM or SIGINT: request_stop
RequestStop(w) ==
    /\ w \in Stoppable
    /\ Alive(w)
    /\ ~stopping[w]
    /\ stopping' = [stopping EXCEPT ![w] = TRUE]
    /\ UNCHANGED <<api, pc, job, restarts, Queue>>

\* `make up`: the stack declares no restart policy, an operator starts it again
Restart(w) ==
    /\ ~Alive(w)
    /\ restarts < MaxRestarts
    /\ restarts' = restarts + 1
    /\ pc' = [pc EXCEPT ![w] = "idle"]
    /\ stopping' = [stopping EXCEPT ![w] = FALSE]
    /\ UNCHANGED <<api, job, Queue>>

--------------------------------------------------------------------------------
(* Faults.  A commit whose answer is lost may have been applied. *)

\* claim_next is outside the try of run_once: the error ends the process
ClaimRaises(w) ==
    /\ Faults
    /\ pc[w] = "claiming"
    /\ Claimed(w) \/ Unwritten
    /\ GoTo(w, "dead")
    /\ DropJob(w)

SaveReportRaises(w) ==
    /\ Faults
    /\ pc[w] = "running"
    /\ \E outcome \in {"clean", "rejections"} : Reported(w, outcome)
    /\ GoTo(w, "failing")
    /\ KeepJob

\* mark_succeeded is inside the try: the handler calls mark_failed
MarkSucceededRaises(w) ==
    /\ Faults
    /\ pc[w] = "reported"
    /\ MarkedSucceeded(w) \/ Unwritten
    /\ GoTo(w, "failing")
    /\ KeepJob

\* An error inside the handler leaves run_once and ends the process
MarkFailedRaises(w) ==
    /\ Faults
    /\ pc[w] = "failing"
    /\ MarkedFailed(w) \/ Unwritten
    /\ GoTo(w, "dead")
    /\ DropJob(w)

\* SIGKILL, OOM or host loss; Postgres rolls the open transaction back
Kill(w) ==
    /\ Faults
    /\ Alive(w)
    /\ GoTo(w, "dead")
    /\ DropJob(w)
    /\ Unwritten

FaultStep(w) ==
    \/ ClaimRaises(w)
    \/ SaveReportRaises(w)
    \/ MarkSucceededRaises(w)
    \/ MarkFailedRaises(w)
    \/ Kill(w)

Next ==
    \/ ClientNext
    \/ \E w \in Workers : WorkerStep(w) \/ RequestStop(w) \/ Restart(w) \/ FaultStep(w)

Spec == Init /\ [][Next]_vars

\* A live worker keeps running its loop, and every import ends: a file is
\* finite and each batch is a bounded number of statements.
FairSpec == Spec /\ \A w \in Workers : WF_vars(WorkerStep(w))

--------------------------------------------------------------------------------
(* Properties *)

\* Two workers never run the same import at the same time, nor lock the same
\* row (postgres_queue: "no window in which a job is chosen but not yet marked").
OneWorkerPerRun ==
    \A v, w \in Workers :
        v # w /\ pc[v] \in Holding \cup {"claiming"} /\ pc[w] \in Holding \cup {"claiming"}
            => job[v] # job[w]

\* The port asks that a run is handed out once: over the whole life of a row,
\* deaths and restarts included, at most one worker has claimed it.
ClaimedAtMostOnce == \A r \in RunIds : attempts[r] <= 1

\* Until its worker catches an error, the run it executes carries its name in
\* locked_by, so the holder seen by an operator is the process at work.
LockNamesTheHolder ==
    \A w \in Workers : pc[w] \in {"running", "reported"} =>
        lockedBy[job[w]] = w /\ status[job[w]] \notin {"absent", "pending", "failed"}

\* A job is never left locked: without crashes every locked or running row has
\* a live worker on it, also after a graceful stop.
NoLockLeftBehind ==
    \A r \in RunIds :
        lockedBy[r] # None \/ status[r] = "running" =>
            \E w \in Workers : Holds(w, r) /\ lockedBy[r] = w

\* The published status agrees with the report: "partial" exactly when
\* something was rejected, although two components compute it.
StatusMatchesReport ==
    \A r \in RunIds :
        /\ status[r] = "succeeded" => report[r] = "clean"
        /\ status[r] = "partial"   => report[r] = "rejections"

\* Runs are taken in the order their requests were made: if q was visible
\* before the request for r began, r does not leave the queue while q waits,
\* unless another worker is in the middle of claiming q.
RealTimeOrder ==
    \A q, r \in RunIds :
        /\ status[q] = "pending" /\ ~RowLocked(q)
        /\ committedAt[q] < createdAt[r]
        => status[r] \in {"absent", "pending"}

\* A status a poller may have seen as final does not change any more.
SettledForGood ==
    [][\A r \in RunIds : status[r] \in Final => status'[r] = status[r]]_vars

\* The same launch requested again, once the first is visible, is never queued
\* beside it: of two runs of one file with one mapping that are waiting, running
\* or succeeded, the requests overlapped.
NoDoubleLaunch ==
    \A q, r \in RunIds :
        /\ q # r /\ file[q] = file[r] /\ mapping[q] = mapping[r]
        /\ status[q] \in BLOCKING_STATUSES /\ status[r] \in BLOCKING_STATUSES
        => createdAt[q] < committedAt[r]

\* A queued run is eventually executed to a final status, whatever other
\* workers are stopped, as long as one keeps running.
QueuedRunsSettle ==
    \A r \in RunIds : status[r] = "pending" ~> status[r] \in Final

\* SIGTERM takes effect: the worker finishes its job and leaves the loop.
StopTakesEffect == \A w \in Workers : stopping[w] ~> pc[w] = "stopped"

\* Each run behaves as ImportRun promises.
Runs == INSTANCE ImportRun
RunsSpec == Runs!Spec
================================================================================
