--------------------------- MODULE ImportQueueProofs ---------------------------
(***************************************************************************)
(* What ImportQueue guarantees for any number of clients, workers, runs   *)
(* and restarts.                                                           *)
(***************************************************************************)
EXTENDS ImportQueue, TLAPS

Busy == Holding \cup {"claiming"}

\* The status of the run a worker holds, at each point of run_once
HolderOK(w) ==
    /\ pc[w] \in Busy => job[w] \in RunIds
    /\ pc[w] = "claiming" => status[job[w]] = "pending"
    /\ pc[w] = "running"  => status[job[w]] = "running" /\ lockedBy[job[w]] = w
    /\ pc[w] = "reported" => status[job[w]] \in {"succeeded", "partial"} /\ lockedBy[job[w]] = w
    /\ pc[w] = "failing"  => status[job[w]] \in {"running", "succeeded", "partial"}

JobStatus == \A w \in Workers : HolderOK(w)

\* A row that was never claimed is neither counted nor locked
FreshRows ==
    \A r \in RunIds :
        status[r] \in {"absent", "pending"} => attempts[r] = 0 /\ lockedBy[r] = None

\* One of the statements of the queue or of save_report, or none
Written ==
    \/ Unwritten
    \/ \E w \in Workers :
          \/ Claimed(w) \/ MarkedSucceeded(w) \/ MarkedFailed(w)
          \/ \E outcome \in {"clean", "rejections"} : Reported(w, outcome)

RowTypeOK ==
    /\ status \in [RunIds -> Status]
    /\ lockedBy \in [RunIds -> Workers \cup {None}]
    /\ attempts \in [RunIds -> Nat]
    /\ report \in [RunIds -> Report]

--------------------------------------------------------------------------------

\* The statements on import_run keep the types of the columns they write.
LEMMA RowTypes == TypeOK /\ Written => RowTypeOK'
<1> SUFFICES ASSUME TypeOK, Written PROVE RowTypeOK'
  OBVIOUS
<1> USE DEF TypeOK, RowTypeOK, Status, Final, Report, StatusOf
<1>1. CASE Unwritten
  BY <1>1 DEF Unwritten
<1>2. ASSUME NEW w \in Workers, Claimed(w) PROVE RowTypeOK'
  <2>1. \A r \in RunIds : attempts[r] + 1 \in Nat
    OBVIOUS
  <2>2. attempts' \in [RunIds -> Nat]
    BY <1>2, <2>1 DEF Claimed
  <2>3. status' \in [RunIds -> Status] /\ lockedBy' \in [RunIds -> Workers \cup {None}]
    BY <1>2 DEF Claimed
  <2>4. QED
    BY <1>2, <2>2, <2>3 DEF Claimed
<1>3. ASSUME NEW w \in Workers, MarkedSucceeded(w) PROVE RowTypeOK'
  BY <1>3 DEF MarkedSucceeded
<1>4. ASSUME NEW w \in Workers, MarkedFailed(w) PROVE RowTypeOK'
  BY <1>4 DEF MarkedFailed
<1>5. ASSUME NEW w \in Workers, NEW outcome \in {"clean", "rejections"}, Reported(w, outcome)
      PROVE  RowTypeOK'
  BY <1>5 DEF Reported
<1>6. QED
  BY <1>1, <1>2, <1>3, <1>4, <1>5 DEF Written

\* Every column of import_run and every variable of the processes keeps its
\* type whatever the clients and the workers do.
THEOREM TypeCorrect == Spec => []TypeOK
<1> USE BoundsAssumption, SetsAssumption
<1> USE DEF RunIds, Status, Final, Pc, Holding, Request, Report, StatusOf
<1>1. Init => TypeOK
  BY DEF Init, TypeOK, NoRequest
<1>2. TypeOK /\ [Next]_vars => TypeOK'
  <2> SUFFICES ASSUME TypeOK, [Next]_vars PROVE TypeOK'
    OBVIOUS
  <2> USE DEF TypeOK
  <2>1. ASSUME NEW c \in Clients, NEW f \in Files, NEW m \in Mappings, BeginRequest(c, f, m)
        PROVE  TypeOK'
    BY <2>1 DEF BeginRequest, worker, Queue, rows
  <2>2. ASSUME NEW c \in Clients, ListRuns(c) PROVE TypeOK'
    <3>1. request[c] \in Request
      OBVIOUS
    <3>2. request'[c] \in Request
      BY <2>2, <3>1 DEF ListRuns
    <3>3. request' \in [Clients -> Request]
      BY <2>2, <3>2 DEF ListRuns
    <3>4. QED
      BY <2>2, <3>3 DEF ListRuns, worker, Queue, rows
  <2>3. ASSUME NEW c \in Clients, AbortRequest(c) PROVE TypeOK'
    BY <2>3 DEF AbortRequest, NoRequest, worker, Queue, rows
  <2>4. ASSUME NEW c \in Clients, NEW r \in RunIds, CheckRun(c, r) PROVE TypeOK'
    <3>1. request[c] \in Request
      OBVIOUS
    <3>1b. request[c].todo \ {r} \in SUBSET RunIds
      BY <3>1
    <3>2. request'[c] \in Request
      <4>1. request'[c] = [request[c] EXCEPT !.todo = request[c].todo \ {r}]
        BY <2>4, request \in [Clients -> Request] DEF CheckRun
      <4>2. QED
        BY <3>1, <3>1b, <4>1
    <3>3. request' \in [Clients -> Request]
      BY <2>4, <3>2 DEF CheckRun
    <3>4. QED
      BY <2>4, <3>3 DEF CheckRun, worker, Queue, rows
  <2>5. ASSUME NEW c \in Clients, NEW r \in RunIds, Refuse(c, r) PROVE TypeOK'
    BY <2>5 DEF Refuse, NoRequest, worker, Queue, rows
  <2>6. ASSUME NEW c \in Clients, NEW r \in RunIds, InsertRun(c, r) PROVE TypeOK'
    BY <2>6 DEF InsertRun, NoRequest, worker
  <2>7. ASSUME NEW m \in Mappings, Supersede(m) PROVE TypeOK'
    BY <2>7 DEF Supersede, worker, Queue, rows
  <2>8. ASSUME NEW w \in Workers, WorkerStep(w) \/ FaultStep(w) PROVE TypeOK'
    <3>1. Written
      BY <2>8 DEF WorkerStep, FaultStep, LockOldest, CommitClaim, ImportFails, SaveReport,
         MarkSucceeded, MarkFailed, LeaveLoop, ClaimRaises, SaveReportRaises,
         MarkSucceededRaises, MarkFailedRaises, Kill, Written
    <3>2. RowTypeOK'
      BY <3>1, RowTypes
    <3>3. \E there \in Pc : GoTo(w, there)
      BY <2>8 DEF WorkerStep, FaultStep, LockOldest, CommitClaim, ImportFails, SaveReport,
         MarkSucceeded, MarkFailed, LeaveLoop, ClaimRaises, SaveReportRaises,
         MarkSucceededRaises, MarkFailedRaises, Kill
    <3>4. \E r \in RunIds \cup {None} : job' = job \/ job' = [job EXCEPT ![w] = r]
      BY <2>8 DEF WorkerStep, FaultStep, LockOldest, CommitClaim, ImportFails, SaveReport,
         MarkSucceeded, MarkFailed, LeaveLoop, ClaimRaises, SaveReportRaises,
         MarkSucceededRaises, MarkFailedRaises, Kill, KeepJob, DropJob
    <3>5a. pc' \in [Workers -> Pc]
      BY <3>3 DEF GoTo
    <3>5b. job' \in [Workers -> RunIds \cup {None}]
      BY ZenonT(40), <3>4
    <3>6. UNCHANGED <<rows, api, stopping, restarts>>
      BY <3>3 DEF GoTo
    <3>7. QED
      BY <3>2, <3>5a, <3>5b, <3>6 DEF RowTypeOK, rows, api
  <2>9. ASSUME NEW w \in Workers, RequestStop(w) PROVE TypeOK'
    BY <2>9 DEF RequestStop, api, rows, Queue
  <2>9b. ASSUME NEW w \in Workers, Restart(w) PROVE TypeOK'
    BY <2>9b DEF Restart, api, rows, Queue
  <2>10. CASE UNCHANGED vars
    BY <2>10 DEF vars, rows, api, worker
  <2>11. QED
    BY <2>1, <2>2, <2>3, <2>4, <2>5, <2>6, <2>7, <2>8, <2>9, <2>9b, <2>10 DEF Next, ClientNext
<1>3. QED
  BY <1>1, <1>2, PTL DEF Spec

--------------------------------------------------------------------------------

Safe == JobStatus /\ OneWorkerPerRun /\ FreshRows /\ ClaimedAtMostOnce /\ StatusMatchesReport

\* A request touches no worker and no run that a worker may hold: it only
\* turns an absent row into a pending one.
LEMMA ClientStepSafe ==
    ASSUME TypeOK, Safe, ClientNext
    PROVE  Safe'
<1> USE DEF Safe, Busy, Holding, HolderOK
<1>1. UNCHANGED worker /\ UNCHANGED <<lockedBy, attempts, report>>
  BY DEF ClientNext, BeginRequest, ListRuns, AbortRequest, CheckRun, Refuse, InsertRun,
     Supersede, Queue
<1>2. \/ UNCHANGED status
      \/ \E r \in RunIds : status[r] = "absent" /\ status' = [status EXCEPT ![r] = "pending"]
  BY DEF ClientNext, BeginRequest, ListRuns, AbortRequest, CheckRun, Refuse, InsertRun,
     Supersede, Queue
<1>3. CASE UNCHANGED status
  BY <1>1, <1>3 DEF JobStatus, OneWorkerPerRun, FreshRows, ClaimedAtMostOnce,
     StatusMatchesReport, worker
<1>4. ASSUME NEW r \in RunIds, status[r] = "absent", status' = [status EXCEPT ![r] = "pending"]
      PROVE  Safe'
  <2>1. \A q \in RunIds : status'[q] = IF q = r THEN "pending" ELSE status[q]
    BY <1>4 DEF TypeOK
  <2>2. JobStatus'
    BY <1>1, <1>4, <2>1 DEF JobStatus, worker
  <2>3. FreshRows'
    BY <1>1, <1>4, <2>1 DEF FreshRows
  <2>4. StatusMatchesReport'
    BY <1>1, <1>4, <2>1 DEF StatusMatchesReport
  <2>5. OneWorkerPerRun' /\ ClaimedAtMostOnce'
    BY <1>1 DEF OneWorkerPerRun, ClaimedAtMostOnce, worker
  <2>6. QED
    BY <2>2, <2>3, <2>4, <2>5
<1>5. QED
  BY <1>2, <1>3, <1>4

\* The claim locks a pending row that no worker holds or locks.
LEMMA LockStepSafe ==
    ASSUME TypeOK, Safe, NEW w \in Workers, NEW r \in RunIds, LockOldest(w, r)
    PROVE  Safe'
<1> USE DEF Safe, Busy, Holding, HolderOK
<1>1. status[r] = "pending" /\ ~RowLocked(r)
  BY DEF LockOldest, Oldest, Claimable
<1>2. \A v \in Workers : /\ pc'[v] = IF v = w THEN "claiming" ELSE pc[v]
                         /\ job'[v] = IF v = w THEN r ELSE job[v]
  BY DEF TypeOK, LockOldest, GoTo
<1>3. UNCHANGED <<status, lockedBy, attempts, report>>
  BY DEF LockOldest, Unwritten
<1>4. JobStatus'
  BY <1>1, <1>2, <1>3 DEF JobStatus
<1>5. \A v \in Workers : pc[v] \in Holding \cup {"claiming"} => job[v] # r
  BY <1>1 DEF JobStatus, RowLocked
<1>6. OneWorkerPerRun'
  BY <1>2, <1>5 DEF OneWorkerPerRun
<1>7. FreshRows' /\ ClaimedAtMostOnce' /\ StatusMatchesReport'
  BY <1>3 DEF FreshRows, ClaimedAtMostOnce, StatusMatchesReport
<1>8. QED
  BY <1>4, <1>6, <1>7

\* A worker that changes neither the rows nor the run it holds may move to
\* any point of run_once that allows the status of its run, or let it go.
LEMMA QuietStepSafe ==
    ASSUME TypeOK, Safe, NEW w \in Workers, Unwritten,
           \/ pc[w] \in {"running", "reported"} /\ pc' = [pc EXCEPT ![w] = "failing"] /\ job' = job
           \/ \E there \in {"idle", "stopped", "dead"} : pc' = [pc EXCEPT ![w] = there]
                                                /\ (job' = job \/ job' = [job EXCEPT ![w] = None])
    PROVE  Safe'
<1> USE DEF Safe, Busy, Holding, HolderOK
<1>1. FreshRows' /\ ClaimedAtMostOnce' /\ StatusMatchesReport'
  BY DEF FreshRows, ClaimedAtMostOnce, StatusMatchesReport, Unwritten
<1>2. CASE pc[w] \in {"running", "reported"} /\ pc' = [pc EXCEPT ![w] = "failing"] /\ job' = job
  <2>1. JobStatus'
    BY <1>2 DEF JobStatus, TypeOK, Unwritten
  <2>2. OneWorkerPerRun'
    BY <1>2 DEF OneWorkerPerRun, TypeOK
  <2>3. QED
    BY <1>1, <2>1, <2>2
<1>3. ASSUME NEW there \in {"idle", "stopped", "dead"}, pc' = [pc EXCEPT ![w] = there],
             job' = job \/ job' = [job EXCEPT ![w] = None]
      PROVE  Safe'
  <2>1. \A v \in Workers : pc'[v] = IF v = w THEN there ELSE pc[v]
    BY <1>3 DEF TypeOK
  <2>2. \A v \in Workers : v # w => job'[v] = job[v]
    BY <1>3 DEF TypeOK
  <2>3. JobStatus'
    BY <2>1, <2>2 DEF JobStatus, Unwritten
  <2>4. OneWorkerPerRun'
    BY <2>1, <2>2 DEF OneWorkerPerRun
  <2>5. QED
    BY <1>1, <2>3, <2>4
<1>4. QED
  BY <1>2, <1>3

\* What a worker writes on its own run is invisible to the other workers:
\* none of them holds that run.
LEMMA OthersUntouched ==
    ASSUME TypeOK, Safe, NEW w \in Workers, pc[w] \in Busy,
           \A r \in RunIds : r # job[w] => status'[r] = status[r] /\ lockedBy'[r] = lockedBy[r],
           \A v \in Workers : v # w => pc'[v] = pc[v] /\ job'[v] = job[v]
    PROVE  \A v \in Workers : v # w => HolderOK(v)'
<1> SUFFICES ASSUME NEW v \in Workers, v # w PROVE HolderOK(v)'
  OBVIOUS
<1>1. pc'[v] = pc[v] /\ job'[v] = job[v] /\ HolderOK(v)
  BY DEF Safe, JobStatus
<1>2. pc[v] \in Busy => job[v] \in RunIds /\ job[v] # job[w]
  BY <1>1 DEF Safe, OneWorkerPerRun, HolderOK, Busy
<1>3. QED
  BY <1>1, <1>2 DEF HolderOK, Busy, Holding

\* The four statements on import_run, each made by the worker that holds the
\* run, from the point of run_once where the code makes it.
LEMMA WriteStepSafe ==
    ASSUME TypeOK, TypeOK', Safe, NEW w \in Workers, NEW there \in Pc,
           pc' = [pc EXCEPT ![w] = there],
           job' = IF there \in Busy THEN job ELSE [job EXCEPT ![w] = None],
           \/ pc[w] = "claiming" /\ Claimed(w) /\ there \in {"running", "dead"}
           \/ /\ pc[w] = "running"
              /\ \E outcome \in {"clean", "rejections"} : Reported(w, outcome)
              /\ there \in {"reported", "failing"}
           \/ pc[w] = "reported" /\ MarkedSucceeded(w) /\ there \in {"idle", "failing"}
           \/ pc[w] = "failing" /\ MarkedFailed(w) /\ there \in {"idle", "dead"}
    PROVE  Safe'
<1> DEFINE r == job[w]
<1>1. r \in RunIds /\ pc[w] \in Busy /\ HolderOK(w)
  BY DEF Safe, JobStatus, HolderOK, Busy, Holding
<1>2. /\ pc'[w] = there /\ (there \in Busy => job'[w] = r)
      /\ \A v \in Workers : v # w => pc'[v] = pc[v] /\ job'[v] = job[v]
  BY DEF TypeOK
<1>3. OneWorkerPerRun'
  BY <1>1, <1>2 DEF Safe, OneWorkerPerRun, Busy
<1>4. \A q \in RunIds : q # r => /\ status'[q] = status[q] /\ lockedBy'[q] = lockedBy[q]
                                 /\ attempts'[q] = attempts[q] /\ report'[q] = report[q]
  BY <1>1 DEF TypeOK, Claimed, Reported, MarkedSucceeded, MarkedFailed
<1>5. \A v \in Workers : v # w => HolderOK(v)'
  BY <1>1, <1>2, <1>4, OthersUntouched
<1>6. SUFFICES /\ HolderOK(w)'
               /\ status'[r] \in {"absent", "pending"} => attempts'[r] = 0 /\ lockedBy'[r] = None
               /\ attempts'[r] <= 1
               /\ status'[r] = "succeeded" => report'[r] = "clean"
               /\ status'[r] = "partial" => report'[r] = "rejections"
  BY <1>1, <1>3, <1>4, <1>5
     DEF Safe, JobStatus, FreshRows, ClaimedAtMostOnce, StatusMatchesReport
<1> USE DEF HolderOK, Busy, Holding
<1>7. attempts[r] <= 1 /\ (status[r] = "pending" => attempts[r] = 0)
  BY <1>1 DEF Safe, ClaimedAtMostOnce, FreshRows
<1>8. CASE pc[w] = "claiming" /\ Claimed(w) /\ there \in {"running", "dead"}
  <2>1. status'[r] = "running" /\ lockedBy'[r] = w /\ attempts'[r] = attempts[r] + 1
    BY <1>1, <1>8 DEF TypeOK, Claimed
  <2>2. attempts'[r] = 1
    BY <1>1, <1>7, <1>8, <2>1
  <2>3. QED
    BY <1>1, <1>2, <1>8, <2>1, <2>2
<1>9. CASE /\ pc[w] = "running"
           /\ \E outcome \in {"clean", "rejections"} : Reported(w, outcome)
           /\ there \in {"reported", "failing"}
  <2>1. PICK outcome \in {"clean", "rejections"} : Reported(w, outcome)
    BY <1>9
  <2>2. /\ status'[r] = StatusOf(outcome) /\ report'[r] = outcome
        /\ lockedBy' = lockedBy /\ attempts' = attempts
    BY <1>1, <2>1 DEF TypeOK, Reported
  <2>3. lockedBy[r] = w
    BY <1>1, <1>9
  <2>4. QED
    BY <1>1, <1>2, <1>7, <1>9, <2>2, <2>3 DEF StatusOf
<1>10. CASE pc[w] = "reported" /\ MarkedSucceeded(w) /\ there \in {"idle", "failing"}
  <2>1. status'[r] = StatusOf(report[r]) /\ report' = report /\ attempts' = attempts
    BY <1>1, <1>10 DEF TypeOK, MarkedSucceeded
  <2>2. report[r] \in {"clean", "rejections"}
    BY <1>1, <1>10 DEF Safe, StatusMatchesReport
  <2>3. QED
    BY <1>1, <1>2, <1>7, <1>10, <2>1, <2>2 DEF StatusOf
<1>11. CASE pc[w] = "failing" /\ MarkedFailed(w) /\ there \in {"idle", "dead"}
  <2>1. status'[r] = "failed" /\ report' = report /\ attempts' = attempts
    BY <1>1, <1>11 DEF TypeOK, MarkedFailed
  <2>2. QED
    BY <1>1, <1>2, <1>7, <1>11, <2>1
<1>12. QED
  BY <1>8, <1>9, <1>10, <1>11

\* The three guarantees of the queue in every reachable state, with or
\* without faults: a run is executed by one worker at a time, claimed at most
\* once in its life, and labelled with the worker that executes it.
THEOREM QueueInvariant == Spec => []Safe
<1>1. Init => Safe
  BY SetsAssumption DEF Init, Safe, JobStatus, HolderOK, OneWorkerPerRun, FreshRows,
     ClaimedAtMostOnce, StatusMatchesReport, Busy, Holding
<1>2. TypeOK /\ TypeOK' /\ Safe /\ [Next]_vars => Safe'
  <2> SUFFICES ASSUME TypeOK, TypeOK', Safe, [Next]_vars PROVE Safe'
    OBVIOUS
  <2>1. CASE ClientNext
    BY <2>1, ClientStepSafe
  <2>2. ASSUME NEW w \in Workers, WorkerStep(w) \/ FaultStep(w) PROVE Safe'
    <3> USE DEF GoTo, KeepJob, DropJob, Busy, Holding, Pc
    <3>1. CASE \E r \in RunIds : LockOldest(w, r)
      BY <3>1, LockStepSafe
    <3>2. CASE CommitClaim(w) \/ (ClaimRaises(w) /\ Claimed(w))
      BY <3>2, WriteStepSafe DEF CommitClaim, ClaimRaises
    <3>3. CASE SaveReport(w) \/ SaveReportRaises(w)
      BY <3>3, WriteStepSafe DEF SaveReport, SaveReportRaises
    <3>4. CASE MarkSucceeded(w) \/ (MarkSucceededRaises(w) /\ MarkedSucceeded(w))
      BY <3>4, WriteStepSafe DEF MarkSucceeded, MarkSucceededRaises
    <3>5. CASE MarkFailed(w) \/ (MarkFailedRaises(w) /\ MarkedFailed(w))
      BY <3>5, WriteStepSafe DEF MarkFailed, MarkFailedRaises
    <3>6. CASE \/ ImportFails(w) \/ LeaveLoop(w) \/ Kill(w)
               \/ Unwritten /\ (ClaimRaises(w) \/ MarkSucceededRaises(w) \/ MarkFailedRaises(w))
      BY <3>6, QuietStepSafe DEF ImportFails, LeaveLoop, Kill, ClaimRaises,
         MarkSucceededRaises, MarkFailedRaises
    <3>7. QED
      BY <2>2, <3>1, <3>2, <3>3, <3>4, <3>5, <3>6
         DEF WorkerStep, FaultStep, ClaimRaises, MarkSucceededRaises, MarkFailedRaises
  <2>3. ASSUME NEW w \in Workers, RequestStop(w) \/ Restart(w) PROVE Safe'
    <3>1. UNCHANGED <<job, status, lockedBy, attempts, report>>
      BY <2>3 DEF RequestStop, Restart, Queue
    <3>2. \A v \in Workers : pc'[v] = pc[v] \/ pc'[v] = "idle"
      BY <2>3 DEF RequestStop, Restart, TypeOK
    <3>3. QED
      BY <3>1, <3>2 DEF Safe, JobStatus, HolderOK, OneWorkerPerRun, FreshRows,
         ClaimedAtMostOnce, StatusMatchesReport, Busy, Holding
  <2>4. CASE UNCHANGED vars
    BY <2>4 DEF vars, rows, api, worker, Safe, JobStatus, HolderOK, OneWorkerPerRun,
       FreshRows, ClaimedAtMostOnce, StatusMatchesReport, Busy, Holding
  <2>5. QED
    BY <2>1, <2>2, <2>3, <2>4 DEF Next
<1>3. QED
  BY <1>1, <1>2, TypeCorrect, PTL DEF Spec

\* Two workers never hold one run, whatever fails.
THEOREM MutualExclusion == Spec => []OneWorkerPerRun
<1>1. Safe => OneWorkerPerRun
  BY DEF Safe
<1>2. QED
  BY <1>1, QueueInvariant, PTL

\* A run is handed out at most once, whatever fails and whoever restarts.
THEOREM AtMostOneClaim == Spec => []ClaimedAtMostOnce
<1>1. Safe => ClaimedAtMostOnce
  BY DEF Safe
<1>2. QED
  BY <1>1, QueueInvariant, PTL

\* The holder named by the row is the worker executing the run.
THEOREM HolderIsNamed == Spec => []LockNamesTheHolder
<1>1. TypeOK /\ Safe => LockNamesTheHolder
  BY DEF Safe, JobStatus, HolderOK, LockNamesTheHolder, Busy, Holding
<1>2. QED
  BY <1>1, TypeCorrect, QueueInvariant, PTL

\* The published status agrees with the saved counts.
THEOREM ReportAgrees == Spec => []StatusMatchesReport
<1>1. Safe => StatusMatchesReport
  BY DEF Safe
<1>2. QED
  BY <1>1, QueueInvariant, PTL

--------------------------------------------------------------------------------
(* Without faults *)

\* An exception is only caught before the report of the run was saved.
FailsBeforeReport ==
    \A w \in Workers :
        pc[w] = "failing" => status[job[w]] = "running" /\ lockedBy[job[w]] = w

Tidy == FailsBeforeReport /\ NoLockLeftBehind

LEMMA TidyStep ==
    ASSUME ~Faults, TypeOK, Safe, Safe', Tidy, [Next]_vars
    PROVE  Tidy'
<1> USE DEF Tidy
<1>1. CASE ClientNext
  <2>1. UNCHANGED worker /\ UNCHANGED lockedBy
    BY <1>1 DEF ClientNext, BeginRequest, ListRuns, AbortRequest, CheckRun, Refuse,
       InsertRun, Supersede, Queue
  <2>2. \/ UNCHANGED status
        \/ \E r \in RunIds : status[r] = "absent" /\ status' = [status EXCEPT ![r] = "pending"]
    BY <1>1 DEF ClientNext, BeginRequest, ListRuns, AbortRequest, CheckRun, Refuse,
       InsertRun, Supersede, Queue
  <2>3. \A r \in RunIds : \/ status'[r] = status[r]
                          \/ status[r] = "absent" /\ status'[r] = "pending"
    BY <2>2 DEF TypeOK
  <2>4. \A w \in Workers : pc[w] \in Holding => job[w] \in RunIds
    BY DEF Safe, JobStatus, HolderOK, Busy
  <2>5. FailsBeforeReport'
    BY <2>1, <2>3, <2>4 DEF FailsBeforeReport, worker, Holding
  <2>6. NoLockLeftBehind'
    BY <2>1, <2>3 DEF NoLockLeftBehind, Holds, worker
  <2>7. QED
    BY <2>5, <2>6
<1>2. ASSUME NEW w \in Workers, WorkerStep(w) PROVE Tidy'
  <2>1. pc'[w] # "failing" \/ (ImportFails(w) /\ pc'[w] = "failing")
    BY <1>2 DEF WorkerStep, LockOldest, CommitClaim, ImportFails, SaveReport, MarkSucceeded,
       MarkFailed, LeaveLoop, GoTo, TypeOK
  <2>2. \A v \in Workers : v # w => pc'[v] = pc[v] /\ job'[v] = job[v]
    BY <1>2 DEF WorkerStep, LockOldest, CommitClaim, ImportFails, SaveReport, MarkSucceeded,
       MarkFailed, LeaveLoop, GoTo, KeepJob, DropJob, TypeOK
  <2>3. HolderOK(w) /\ \A v \in Workers : v # w => HolderOK(v)
    BY DEF Safe, JobStatus
  <2>4. pc[w] \in Busy => \A v \in Workers : v # w /\ pc[v] \in Busy => job[v] # job[w]
    BY DEF Safe, OneWorkerPerRun, Busy
  <2>5. CASE (\E r \in RunIds : LockOldest(w, r)) \/ ImportFails(w) \/ LeaveLoop(w)
    <3>0. UNCHANGED <<status, lockedBy>>
      BY <2>5 DEF LockOldest, ImportFails, LeaveLoop, Unwritten
    <3>1. FailsBeforeReport'
      BY <1>2, <2>1, <2>2, <2>3, <3>0
         DEF FailsBeforeReport, ImportFails, KeepJob, HolderOK
    <3>2. pc[w] \in Holding => pc'[w] \in Holding /\ job'[w] = job[w]
      BY <2>5 DEF LockOldest, ImportFails, LeaveLoop, GoTo, KeepJob, TypeOK, Holding
    <3>3. NoLockLeftBehind'
      BY <2>2, <3>0, <3>2 DEF NoLockLeftBehind, Holds
    <3>4. QED
      BY <3>1, <3>3
  <2>6. CASE CommitClaim(w)
    <3> DEFINE r == job[w]
    <3>1. r \in RunIds /\ pc'[w] = "running" /\ job'[w] = r /\ lockedBy'[r] = w
      BY <2>3, <2>6 DEF CommitClaim, HolderOK, Busy, GoTo, KeepJob, Claimed, TypeOK
    <3>2. \A q \in RunIds : q # r => status'[q] = status[q] /\ lockedBy'[q] = lockedBy[q]
      BY <3>1, <2>6 DEF CommitClaim, Claimed, TypeOK
    <3>3. pc[w] = "claiming"
      BY <2>6 DEF CommitClaim
    <3>4. FailsBeforeReport'
      BY <2>2, <2>3, <2>4, <3>1, <3>2, <3>3 DEF FailsBeforeReport, HolderOK, Busy, Holding
    <3>5. NoLockLeftBehind'
      BY <2>2, <3>1, <3>2, <3>3 DEF NoLockLeftBehind, Holds, Holding
    <3>6. QED
      BY <3>4, <3>5
  <2>7. CASE SaveReport(w)
    <3> DEFINE r == job[w]
    <3>1. r \in RunIds /\ pc'[w] = "reported" /\ job'[w] = r /\ lockedBy' = lockedBy
      BY <2>3, <2>7 DEF SaveReport, HolderOK, Busy, Holding, GoTo, KeepJob, Reported, TypeOK
    <3>2. \A q \in RunIds : q # r => status'[q] = status[q]
      BY <3>1, <2>7 DEF SaveReport, Reported, TypeOK
    <3>3. pc[w] = "running" /\ lockedBy[r] = w
      BY <2>3, <2>7 DEF SaveReport, HolderOK
    <3>4. FailsBeforeReport'
      BY <2>2, <2>3, <2>4, <3>1, <3>2, <3>3 DEF FailsBeforeReport, HolderOK, Busy, Holding
    <3>5. NoLockLeftBehind'
      BY <2>2, <3>1, <3>2, <3>3 DEF NoLockLeftBehind, Holds, Holding
    <3>6. QED
      BY <3>4, <3>5
  <2>8. CASE MarkSucceeded(w) \/ MarkFailed(w)
    <3> DEFINE r == job[w]
    <3>1. r \in RunIds /\ pc'[w] = "idle" /\ lockedBy'[r] = None /\ status'[r] # "running"
      BY <2>3, <2>8 DEF MarkSucceeded, MarkFailed, HolderOK, Busy, Holding, GoTo,
         MarkedSucceeded, MarkedFailed, StatusOf, TypeOK
    <3>2. \A q \in RunIds : q # r => status'[q] = status[q] /\ lockedBy'[q] = lockedBy[q]
      BY <3>1, <2>8 DEF MarkSucceeded, MarkFailed, MarkedSucceeded, MarkedFailed, TypeOK
    <3>3. pc[w] \in Holding
      BY <2>8 DEF MarkSucceeded, MarkFailed, Holding
    <3>4. FailsBeforeReport'
      BY <2>2, <2>3, <2>4, <3>1, <3>2, <3>3 DEF FailsBeforeReport, HolderOK, Busy, Holding
    <3>5. NoLockLeftBehind'
      BY <2>2, <3>1, <3>2, <3>3 DEF NoLockLeftBehind, Holds, Holding
    <3>6. QED
      BY <3>4, <3>5
  <2>9. QED
    BY <1>2, <2>5, <2>6, <2>7, <2>8 DEF WorkerStep
<1>3. ASSUME NEW w \in Workers, RequestStop(w) \/ Restart(w) PROVE Tidy'
  <2>1. UNCHANGED <<job, status, lockedBy>>
    BY <1>3 DEF RequestStop, Restart, Queue
  <2>2. \A v \in Workers : pc'[v] = pc[v] \/ (pc[v] \notin Holding /\ pc'[v] = "idle")
    BY <1>3 DEF RequestStop, Restart, Alive, Holding, TypeOK
  <2>3. QED
    BY <2>1, <2>2 DEF FailsBeforeReport, NoLockLeftBehind, Holds, Holding
<1>4. CASE UNCHANGED vars
  BY <1>4 DEF vars, rows, api, worker, FailsBeforeReport, NoLockLeftBehind, Holds
<1>5. QED
  BY <1>1, <1>2, <1>3, <1>4 DEF Next, FaultStep, ClaimRaises, SaveReportRaises,
     MarkSucceededRaises, MarkFailedRaises, Kill

\* Without faults no lock and no running status is ever left without a live
\* worker, in particular when workers stop on SIGTERM or drain the queue.
THEOREM NothingLeftLocked == ~Faults => (Spec => []NoLockLeftBehind)
<1> SUFFICES ASSUME ~Faults PROVE Spec => []NoLockLeftBehind
  OBVIOUS
<1>1. Init => Tidy
  BY SetsAssumption DEF Init, Tidy, FailsBeforeReport, NoLockLeftBehind
<1>2. TypeOK /\ Safe /\ Safe' /\ Tidy /\ [Next]_vars => Tidy'
  BY TidyStep
<1>3. Tidy => NoLockLeftBehind
  BY DEF Tidy
<1>4. QED
  BY <1>1, <1>2, <1>3, TypeCorrect, QueueInvariant, PTL DEF Spec

--------------------------------------------------------------------------------
(* Refinement of ImportRun *)

\* Each statement of a worker is a step of its run, or leaves its status.
LEMMA WorkerImplements ==
    ASSUME TypeOK, Safe, ~Faults => FailsBeforeReport,
           NEW w \in Workers, WorkerStep(w) \/ FaultStep(w)
    PROVE  Runs!Next \/ UNCHANGED status
<1> DEFINE r == job[w]
<1> USE DEF Holding, Busy
<1>1. HolderOK(w)
  BY DEF Safe, JobStatus
<1>2. CASE Unwritten
  BY <1>2 DEF Unwritten
<1>3. CASE pc[w] = "claiming" /\ Claimed(w)
  <2>1. r \in RunIds /\ status[r] = "pending" /\ status' = [status EXCEPT ![r] = "running"]
    BY <1>1, <1>3 DEF HolderOK, Claimed
  <2>2. Runs!Claim(r)
    BY <2>1 DEF Runs!Claim, Runs!Become
  <2>3. QED
    BY <2>1, <2>2 DEF Runs!Next
<1>4. ASSUME NEW outcome \in {"clean", "rejections"}, pc[w] = "running", Reported(w, outcome)
      PROVE  Runs!Next \/ UNCHANGED status
  <2>1. /\ r \in RunIds /\ status[r] = "running"
        /\ status' = [status EXCEPT ![r] = StatusOf(outcome)]
    BY <1>1, <1>4 DEF HolderOK, Reported
  <2>2. StatusOf(outcome) \in Runs!Final
    BY DEF StatusOf, Runs!Final
  <2>3. Runs!Settle(r)
    BY <2>1, <2>2 DEF Runs!Settle, Runs!Become
  <2>4. QED
    BY <2>1, <2>3 DEF Runs!Next
<1>5. CASE pc[w] = "reported" /\ MarkedSucceeded(w)
  <2>1. r \in RunIds /\ status[r] = StatusOf(report[r])
    BY <1>1, <1>5 DEF HolderOK, Safe, StatusMatchesReport, StatusOf
  <2>2. status' = [status EXCEPT ![r] = status[r]]
    BY <2>1, <1>5 DEF MarkedSucceeded
  <2>3. QED
    BY <2>1, <2>2 DEF TypeOK
<1>6. CASE pc[w] = "failing" /\ MarkedFailed(w)
  <2>1. r \in RunIds /\ status' = [status EXCEPT ![r] = "failed"]
    BY <1>1, <1>6 DEF HolderOK, MarkedFailed
  <2>2. CASE status[r] = "running"
    <3>1. Runs!Settle(r)
      BY <2>1, <2>2 DEF Runs!Settle, Runs!Become, Runs!Final
    <3>2. QED
      BY <2>1, <3>1 DEF Runs!Next
  <2>3. CASE status[r] \in {"succeeded", "partial"}
    <3>1. Faults
      BY <1>6, <2>3 DEF FailsBeforeReport
    <3>2. Runs!Overturn(r)
      BY <2>1, <2>3, <3>1 DEF Runs!Overturn, Runs!Become
    <3>3. QED
      BY <2>1, <3>2 DEF Runs!Next
  <2>4. QED
    BY <1>1, <1>6, <2>2, <2>3 DEF HolderOK
<1>7. QED
  BY <1>2, <1>3, <1>4, <1>5, <1>6
     DEF WorkerStep, FaultStep, LockOldest, CommitClaim, ImportFails, SaveReport, MarkSucceeded,
         MarkFailed, LeaveLoop, ClaimRaises, SaveReportRaises, MarkSucceededRaises,
         MarkFailedRaises, Kill

\* Through all the interleavings of requests, claims, reports and faults, a
\* poller only ever sees the transitions ImportRun allows.
THEOREM Implements == Spec => RunsSpec
<1>1. Init => Runs!Init
  BY DEF Init, Runs!Init
<1>2. TypeOK /\ Safe /\ (~Faults => FailsBeforeReport) /\ [Next]_vars => [Runs!Next]_status
  <2> SUFFICES ASSUME TypeOK, Safe, ~Faults => FailsBeforeReport, [Next]_vars
               PROVE  Runs!Next \/ UNCHANGED status
    OBVIOUS
  <2>1. CASE ClientNext
    <3>1. \/ UNCHANGED status
          \/ \E r \in RunIds : status[r] = "absent" /\ status' = [status EXCEPT ![r] = "pending"]
      BY <2>1 DEF ClientNext, BeginRequest, ListRuns, AbortRequest, CheckRun, Refuse,
         InsertRun, Supersede, Queue
    <3>2. QED
      BY <3>1 DEF Runs!Next, Runs!Create, Runs!Become
  <2>2. ASSUME NEW w \in Workers, WorkerStep(w) \/ FaultStep(w)
        PROVE  Runs!Next \/ UNCHANGED status
    BY <2>2, WorkerImplements
  <2>3. ASSUME NEW w \in Workers, RequestStop(w) \/ Restart(w)
        PROVE  UNCHANGED status
    BY <2>3 DEF RequestStop, Restart, Queue
  <2>4. CASE UNCHANGED vars
    BY <2>4 DEF vars
  <2>5. QED
    BY <2>1, <2>2, <2>3, <2>4 DEF Next
<1>3. Init => (~Faults => Tidy)
  BY SetsAssumption DEF Init, Tidy, FailsBeforeReport, NoLockLeftBehind
<1>4. TypeOK /\ Safe /\ Safe' /\ (~Faults => Tidy) /\ [Next]_vars => (~Faults => Tidy)'
  BY TidyStep
<1>5. (~Faults => Tidy) => (~Faults => FailsBeforeReport)
  BY DEF Tidy
<1>6. QED
  BY <1>1, <1>2, <1>3, <1>4, <1>5, TypeCorrect, QueueInvariant, PTL
     DEF Spec, RunsSpec, Runs!Spec

\* Without faults a final status is final, so that a poller may stop at it.
THEOREM FinalStatusStays == ~Faults => (Spec => SettledForGood)
<1> SUFFICES ASSUME ~Faults PROVE Spec => SettledForGood
  OBVIOUS
<1>1. TypeOK /\ [Runs!Next]_status => (\A r \in RunIds : status[r] \in Final => status'[r] = status[r])
  BY DEF TypeOK, Final, Runs!Next, Runs!Create, Runs!Claim, Runs!Settle, Runs!Overturn, Runs!Become
<1>2. [Runs!Next]_status /\ TypeOK => [\A r \in RunIds : status[r] \in Final => status'[r] = status[r]]_vars
  BY <1>1
<1>3. QED
  BY <1>2, Implements, TypeCorrect, PTL DEF RunsSpec, Runs!Spec, SettledForGood

--------------------------------------------------------------------------------
(* Launches: the stamps of the requests and of the rows they insert *)

\* A request begins before its run is visible, and no stamp is in the future.
Stamps ==
    /\ \A c \in Clients : request[c].began <= clock
    /\ \A r \in RunIds : createdAt[r] <= clock
    /\ \A r \in RunIds : status[r] # "absent" => createdAt[r] < committedAt[r]

Same(c, q) == file[q] = request[c].file /\ mapping[q] = request[c].mapping

\* A run that blocks the request and is not on its list any more became
\* visible after the request began.
ChecksAreSound ==
    \A c \in Clients, q \in RunIds :
        request[c].step = "checking" /\ Same(c, q) /\ status[q] \in BLOCKING_STATUSES
            => q \in request[c].todo \/ request[c].began < committedAt[q]

Launched == Stamps /\ ChecksAreSound /\ NoDoubleLaunch

\* A step that makes no row: each status moves along the life of a run, and
\* only the claim that has locked a row takes it out of the queue.
Moved ==
    /\ UNCHANGED rows
    /\ \A r \in RunIds :
          \/ status'[r] = status[r]
          \/ status[r] = "pending" /\ status'[r] = "running" /\ RowLocked(r)
          \/ status[r] = "running" /\ status'[r] \in Final
          \/ status[r] \in {"succeeded", "partial"} /\ status'[r] = "failed"

\* What a worker writes never makes a run block a launch it did not block.
LEMMA WorkerMoves ==
    ASSUME TypeOK, Safe, NEW w \in Workers,
           WorkerStep(w) \/ FaultStep(w) \/ RequestStop(w) \/ Restart(w)
    PROVE  Moved /\ UNCHANGED api
<1> DEFINE r == job[w]
<1> USE DEF Holding, Busy
<1>1. UNCHANGED <<rows, api>>
  BY DEF WorkerStep, FaultStep, LockOldest, CommitClaim, ImportFails, SaveReport,
     MarkSucceeded, MarkFailed, LeaveLoop, ClaimRaises, SaveReportRaises,
     MarkSucceededRaises, MarkFailedRaises, Kill, GoTo, RequestStop, Restart, Queue
<1>2. HolderOK(w)
  BY DEF Safe, JobStatus
<1>3. CASE Unwritten \/ UNCHANGED status
  BY <1>1, <1>3 DEF Moved, Unwritten
<1>4. CASE pc[w] = "claiming" /\ Claimed(w)
  <2>1. r \in RunIds /\ status[r] = "pending" /\ RowLocked(r)
    BY <1>2, <1>4 DEF HolderOK, RowLocked
  <2>2. \A q \in RunIds : status'[q] = IF q = r THEN "running" ELSE status[q]
    BY <1>4, <2>1 DEF Claimed, TypeOK
  <2>3. QED
    BY <1>1, <2>1, <2>2 DEF Moved
<1>5. ASSUME NEW outcome \in {"clean", "rejections"}, pc[w] = "running", Reported(w, outcome)
      PROVE  Moved
  <2>1. r \in RunIds /\ status[r] = "running"
    BY <1>2, <1>5 DEF HolderOK
  <2>2. \A q \in RunIds : status'[q] = IF q = r THEN StatusOf(outcome) ELSE status[q]
    BY <1>5, <2>1 DEF Reported, TypeOK
  <2>3. QED
    BY <1>1, <2>1, <2>2 DEF Moved, StatusOf, Final
<1>6. CASE pc[w] = "reported" /\ MarkedSucceeded(w)
  <2>1. r \in RunIds /\ status[r] = StatusOf(report[r])
    BY <1>2, <1>6 DEF HolderOK, Safe, StatusMatchesReport, StatusOf
  <2>2. \A q \in RunIds : status'[q] = status[q]
    BY <1>6, <2>1 DEF MarkedSucceeded, TypeOK
  <2>3. QED
    BY <1>1, <2>2 DEF Moved
<1>7. CASE pc[w] = "failing" /\ MarkedFailed(w)
  <2>1. r \in RunIds /\ status[r] \in {"running", "succeeded", "partial"}
    BY <1>2, <1>7 DEF HolderOK
  <2>2. \A q \in RunIds : status'[q] = IF q = r THEN "failed" ELSE status[q]
    BY <1>7, <2>1 DEF MarkedFailed, TypeOK
  <2>3. QED
    BY <1>1, <2>1, <2>2 DEF Moved, Final
<1>8. QED
  BY <1>1, <1>3, <1>4, <1>5, <1>6, <1>7
     DEF WorkerStep, FaultStep, LockOldest, CommitClaim, ImportFails, SaveReport, MarkSucceeded,
         MarkFailed, LeaveLoop, ClaimRaises, SaveReportRaises, MarkSucceededRaises,
         MarkFailedRaises, Kill, RequestStop, Restart, Queue

\* The row an accepted request inserts, column by column.
LEMMA Inserted ==
    ASSUME TypeOK, NEW c \in Clients, NEW r \in RunIds, InsertRun(c, r)
    PROVE  /\ status[r] = "absent" /\ clock' = clock + 1
           /\ \A q \in RunIds :
                 /\ file'[q] = IF q = r THEN request[c].file ELSE file[q]
                 /\ mapping'[q] = IF q = r THEN request[c].mapping ELSE mapping[q]
                 /\ createdAt'[q] = IF q = r THEN request[c].began ELSE createdAt[q]
                 /\ committedAt'[q] = IF q = r THEN clock + 1 ELSE committedAt[q]
                 /\ status'[q] = IF q = r THEN "pending" ELSE status[q]
           /\ \A d \in Clients : request'[d] = IF d = c THEN NoRequest ELSE request[d]
BY DEF InsertRun, TypeOK

\* The insertion: every run that could block it began to be visible after the
\* request began.
LEMMA InsertLaunched ==
    ASSUME TypeOK, Launched, NEW c \in Clients, NEW r \in RunIds, InsertRun(c, r)
    PROVE  Launched'
<1>1. /\ clock \in Nat /\ \A d \in Clients : request[d] \in Request /\ request[d].began \in Nat
      /\ \A q \in RunIds : createdAt[q] \in Nat /\ committedAt[q] \in Nat
  BY DEF TypeOK, Request
<1>2. Stamps'
  <2>1. \A d \in Clients : request'[d].began <= clock'
    BY <1>1, Inserted DEF Launched, Stamps, NoRequest
  <2>2. \A q \in RunIds : createdAt'[q] <= clock'
    BY <1>1, Inserted DEF Launched, Stamps
  <2>3. \A q \in RunIds : status'[q] # "absent" => createdAt'[q] < committedAt'[q]
    BY <1>1, Inserted DEF Launched, Stamps
  <2>4. QED
    BY <2>1, <2>2, <2>3 DEF Stamps
<1>3. ChecksAreSound'
  <2> SUFFICES ASSUME NEW d \in Clients, NEW q \in RunIds, request'[d].step = "checking",
                      Same(d, q)', status'[q] \in BLOCKING_STATUSES
               PROVE  q \in request'[d].todo \/ request'[d].began < committedAt'[q]
    BY DEF ChecksAreSound
  <2>1. d # c /\ request'[d] = request[d]
    BY Inserted DEF NoRequest
  <2>2. CASE q = r
    BY <1>1, <2>1, <2>2, Inserted DEF Launched, Stamps
  <2>3. CASE q # r
    BY <2>1, <2>3, Inserted DEF Launched, ChecksAreSound, Same
  <2>4. QED
    BY <2>2, <2>3
<1>4. \A q \in RunIds :
         q # r /\ Same(c, q) /\ status[q] \in BLOCKING_STATUSES
             => createdAt[q] < clock + 1 /\ request[c].began < committedAt[q]
  BY <1>1 DEF InsertRun, Launched, Stamps, ChecksAreSound
<1>5. NoDoubleLaunch'
  BY <1>4, Inserted DEF Launched, NoDoubleLaunch, Same
<1>6. QED
  BY <1>2, <1>3, <1>5 DEF Launched

\* The other steps of a request change no row.
LEMMA ReadLaunched ==
    ASSUME TypeOK, Launched, NEW c \in Clients,
           \/ ListRuns(c) \/ AbortRequest(c)
           \/ \E f \in Files, m \in Mappings : BeginRequest(c, f, m)
           \/ \E r \in RunIds : CheckRun(c, r) \/ Refuse(c, r)
    PROVE  Launched'
<1>1. /\ clock \in Nat /\ \A d \in Clients : request[d] \in Request /\ request[d].began \in Nat
      /\ \A q \in RunIds : createdAt[q] \in Nat
  BY DEF TypeOK, Request
<1>2. UNCHANGED <<file, mapping, createdAt, committedAt, status>>
  BY DEF ListRuns, AbortRequest, BeginRequest, CheckRun, Refuse, Queue, rows
<1>3. clock' \in {clock, clock + 1} /\ \A d \in Clients : d # c => request'[d] = request[d]
  BY DEF ListRuns, AbortRequest, BeginRequest, CheckRun, Refuse, TypeOK
<1>4. request'[c].began <= clock'
  <2>1. CASE \E f \in Files, m \in Mappings : BeginRequest(c, f, m)
    BY <1>1, <2>1 DEF BeginRequest, TypeOK
  <2>2. CASE ListRuns(c) \/ \E r \in RunIds : CheckRun(c, r)
    <3>1. UNCHANGED clock
      BY <2>2 DEF ListRuns, CheckRun
    <3>2. ListRuns(c) => request'[c].began = request[c].began
      BY <1>1 DEF ListRuns, TypeOK, Request
    <3>3. \A r \in RunIds : CheckRun(c, r) => request'[c].began = request[c].began
      BY <1>1 DEF CheckRun, TypeOK, Request
    <3>4. QED
      BY <2>2, <3>1, <3>2, <3>3 DEF Launched, Stamps
  <2>3. CASE AbortRequest(c) \/ \E r \in RunIds : Refuse(c, r)
    BY <1>1, <2>3 DEF AbortRequest, Refuse, NoRequest, TypeOK
  <2>4. QED
    BY <2>1, <2>2, <2>3
<1>5. Stamps'
  BY <1>1, <1>2, <1>3, <1>4 DEF Launched, Stamps
<1>6. NoDoubleLaunch'
  BY <1>2 DEF Launched, NoDoubleLaunch
<1>7. ASSUME NEW q \in RunIds, request'[c].step = "checking", Same(c, q)',
             status'[q] \in BLOCKING_STATUSES
      PROVE  q \in request'[c].todo \/ request'[c].began < committedAt'[q]
  <2>1. ListRuns(c) \/ \E r \in RunIds : CheckRun(c, r)
    <3>1. ASSUME NEW f \in Files, NEW m \in Mappings, BeginRequest(c, f, m) PROVE FALSE
      <4>1. request'[c].step = "listing"
        BY <3>1 DEF BeginRequest, TypeOK
      <4>2. QED
        BY <1>7, <4>1
    <3>2. request'[c] # NoRequest
      BY <1>7 DEF NoRequest
    <3>3. ~AbortRequest(c) /\ ~\E r \in RunIds : Refuse(c, r)
      BY <3>2 DEF AbortRequest, Refuse, TypeOK
    <3>4. QED
      BY <3>1, <3>3
  <2>2. CASE ListRuns(c)
    <3>1. /\ request'[c].file = request[c].file
          /\ request'[c].todo = {p \in RunIds : status[p] # "absent" /\ file[p] = request[c].file}
      BY <1>1, <2>2 DEF ListRuns, TypeOK, Request
    <3>2. QED
      BY <1>2, <1>7, <3>1 DEF Same, BLOCKING_STATUSES
  <2>3. ASSUME NEW r \in RunIds, CheckRun(c, r)
        PROVE  q \in request'[c].todo \/ request'[c].began < committedAt'[q]
    <3>1. /\ request[c].step = "checking" /\ request'[c].file = request[c].file
          /\ request'[c].mapping = request[c].mapping /\ request'[c].began = request[c].began
          /\ request'[c].todo = request[c].todo \ {r}
      BY <1>1, <2>3 DEF CheckRun, TypeOK, Request
    <3>2. Same(c, q)
      BY <1>2, <1>7, <3>1 DEF Same
    <3>3. q # r
      BY <1>2, <1>7, <2>3, <3>2 DEF CheckRun, Blocks, Same
    <3>4. QED
      BY <1>2, <1>7, <3>1, <3>2, <3>3 DEF Launched, ChecksAreSound
  <2>4. QED
    BY <2>1, <2>2, <2>3
<1>8. ChecksAreSound'
  BY <1>2, <1>3, <1>7 DEF Launched, ChecksAreSound, Same
<1>9. QED
  BY <1>5, <1>6, <1>8 DEF Launched

\* Stamps, lists and launches stay consistent through every interleaving.
LEMMA LaunchedAlways == Spec => []Launched
<1>1. Init => Launched
  BY DEF Init, Launched, Stamps, ChecksAreSound, NoDoubleLaunch, NoRequest, BLOCKING_STATUSES
<1>2. TypeOK /\ Safe /\ Launched /\ [Next]_vars => Launched'
  <2> SUFFICES ASSUME TypeOK, Safe, Launched, [Next]_vars PROVE Launched'
    OBVIOUS
  <2>1. CASE ClientNext /\ \E c \in Clients, r \in RunIds : InsertRun(c, r)
    BY <2>1, InsertLaunched
  <2>2. CASE \E c \in Clients :
               \/ ListRuns(c) \/ AbortRequest(c)
               \/ \E f \in Files, m \in Mappings : BeginRequest(c, f, m)
               \/ \E r \in RunIds : CheckRun(c, r) \/ Refuse(c, r)
    BY <2>2, ReadLaunched
  <2>3. CASE Moved /\ UNCHANGED <<request, clock>>
    BY <2>3 DEF Moved, rows, Launched, Stamps, ChecksAreSound, NoDoubleLaunch, Same,
       BLOCKING_STATUSES, Final
  <2>4. CASE (\E m \in Mappings : Supersede(m)) \/ UNCHANGED vars
    BY <2>3, <2>4 DEF Supersede, Queue, vars, api, Moved
  <2>5. CASE \E w \in Workers : WorkerStep(w) \/ RequestStop(w) \/ Restart(w) \/ FaultStep(w)
    BY <2>3, <2>5, WorkerMoves DEF api
  <2>6. QED
    BY <2>1, <2>2, <2>4, <2>5 DEF Next, ClientNext
<1>3. QED
  BY <1>1, <1>2, TypeCorrect, QueueInvariant, PTL DEF Spec

\* A launch that is asked again after its run is visible is never queued
\* beside it, whatever fails: of two runs of one file with one mapping that
\* wait, run or succeeded, the requests overlapped.
THEOREM LaunchesOnce == Spec => []NoDoubleLaunch
<1>1. Launched => NoDoubleLaunch
  BY DEF Launched
<1>2. QED
  BY <1>1, LaunchedAlways, PTL

--------------------------------------------------------------------------------
(* The order of the queue, without faults *)

\* A row that another one should precede is not even being claimed.
InOrder ==
    \A q, r \in RunIds :
        status[q] = "pending" /\ ~RowLocked(q) /\ committedAt[q] < createdAt[r]
            => status[r] \in {"absent", "pending"} /\ ~RowLocked(r)

\* A claim in progress is only left by its commit.
LEMMA OrderStep ==
    ASSUME ~Faults, TypeOK, Safe, Stamps, Stamps', InOrder, [Next]_vars
    PROVE  InOrder'
<1>1. /\ clock \in Nat
      /\ \A q \in RunIds : createdAt[q] \in Nat /\ committedAt[q] \in Nat
      /\ \A c \in Clients : request[c].began \in Nat
  BY DEF TypeOK, Request
<1>2. ASSUME NEW c \in Clients, NEW r \in RunIds, InsertRun(c, r) PROVE InOrder'
  <2>1. \A q \in RunIds : RowLocked(q)' = RowLocked(q)
    BY <1>2 DEF InsertRun, worker, RowLocked
  <2>2. ~RowLocked(r)
    BY <1>2 DEF InsertRun, RowLocked, Safe, JobStatus, HolderOK, Busy
  <2> SUFFICES ASSUME NEW q \in RunIds, NEW p \in RunIds, status'[q] = "pending",
                      ~RowLocked(q)', committedAt'[q] < createdAt'[p]
               PROVE  status'[p] \in {"absent", "pending"} /\ ~RowLocked(p)'
    BY DEF InOrder
  <2>3. q # r
    BY <1>1, <1>2, Inserted DEF Stamps
  <2>4. CASE p = r
    BY <1>2, <2>1, <2>2, <2>4, Inserted
  <2>5. CASE p # r
    BY <1>2, <2>1, <2>3, <2>5, Inserted DEF InOrder
  <2>6. QED
    BY <2>4, <2>5
<1>3. CASE UNCHANGED <<rows, status, pc, job>>
  BY <1>3 DEF InOrder, rows, RowLocked
<1>4. ASSUME NEW w \in Workers, NEW r \in RunIds, LockOldest(w, r) PROVE InOrder'
  <2>1. UNCHANGED <<status, createdAt, committedAt>>
    BY <1>4 DEF LockOldest, Unwritten, GoTo, rows
  <2>2. \A q \in RunIds : RowLocked(q)' <=> RowLocked(q) \/ q = r
    BY <1>4 DEF LockOldest, GoTo, RowLocked, TypeOK
  <2>3. \A q \in RunIds : status[q] = "pending" /\ ~RowLocked(q) => createdAt[r] < committedAt[q]
    BY <1>1, <1>4 DEF LockOldest, Oldest, Claimable, Stamps
  <2>4. QED
    BY <1>1, <2>1, <2>2, <2>3 DEF InOrder
<1>5. ASSUME NEW w \in Workers, WorkerStep(w), ~\E r \in RunIds : LockOldest(w, r)
      PROVE  InOrder'
  <2>1. Moved
    BY <1>5, WorkerMoves
  <2>2. pc'[w] # "claiming" /\ \A v \in Workers : v # w => pc'[v] = pc[v] /\ job'[v] = job[v]
    BY <1>5 DEF WorkerStep, CommitClaim, ImportFails, SaveReport, MarkSucceeded, MarkFailed,
       LeaveLoop, GoTo, KeepJob, DropJob, TypeOK
  <2>3. pc[w] = "claiming" => job[w] \in RunIds /\ status'[job[w]] = "running"
    BY <1>5 DEF WorkerStep, CommitClaim, Claimed, ImportFails, SaveReport, MarkSucceeded,
       MarkFailed, LeaveLoop, TypeOK, Safe, JobStatus, HolderOK, Busy
  <2>4. \A q \in RunIds : RowLocked(q)' => RowLocked(q)
    BY <2>2 DEF RowLocked
  <2>5. \A q \in RunIds : status'[q] = "pending" /\ RowLocked(q) => RowLocked(q)'
    BY <2>2, <2>3 DEF RowLocked
  <2>6. QED
    BY <2>1, <2>4, <2>5 DEF Moved, rows, InOrder, Final
<1>6. ASSUME NEW w \in Workers, RequestStop(w) \/ Restart(w) PROVE InOrder'
  <2>1. UNCHANGED <<rows, status>>
    BY <1>6 DEF RequestStop, Restart, Queue
  <2>2. \A q \in RunIds : RowLocked(q)' = RowLocked(q)
    BY <1>6 DEF RequestStop, Restart, Alive, RowLocked, TypeOK
  <2>3. QED
    BY <2>1, <2>2 DEF InOrder, rows
<1>7. CASE ClientNext
  BY <1>2, <1>3, <1>7 DEF ClientNext, BeginRequest, ListRuns, AbortRequest, CheckRun, Refuse,
     Supersede, Queue, worker
<1>8. QED
  BY <1>3, <1>4, <1>5, <1>6, <1>7 DEF Next, vars, worker, FaultStep, ClaimRaises,
     SaveReportRaises, MarkSucceededRaises, MarkFailedRaises, Kill

\* Without faults the runs leave the queue in the order of the requests that
\* did not overlap, for any number of workers.
THEOREM QueueIsOrdered == ~Faults => (Spec => []RealTimeOrder)
<1> SUFFICES ASSUME ~Faults PROVE Spec => []RealTimeOrder
  OBVIOUS
<1>1. Init => InOrder
  BY DEF Init, InOrder
<1>2. TypeOK /\ Safe /\ Launched /\ Launched' /\ InOrder /\ [Next]_vars => InOrder'
  BY OrderStep DEF Launched
<1>3. InOrder => RealTimeOrder
  BY DEF InOrder, RealTimeOrder
<1>4. QED
  BY <1>1, <1>2, <1>3, LaunchedAlways, TypeCorrect, QueueInvariant, PTL DEF Spec
================================================================================
