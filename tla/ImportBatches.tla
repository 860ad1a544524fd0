----------------------------- MODULE ImportBatches -----------------------------
(***************************************************************************)
(* RunImport: the workers' runs write their files batch by batch, one      *)
(* READ COMMITTED transaction per batch.  Rows with a natural key are      *)
(* inserted ON CONFLICT DO NOTHING: the insertion of a key that another    *)
(* open transaction has inserted waits for that transaction to end, so    *)
(* two runs may deadlock, and Postgres then aborts one of them.            *)
(*                                                                         *)
(* A run starts here when a worker has claimed it (ImportQueue), and each  *)
(* run is executed at most once.  All runs read files of one data source.  *)
(***************************************************************************)
EXTENDS Naturals, FiniteSets, Sequences, SequencesExt

CONSTANTS
    Runs,        \* the rows of import_run
    None,        \* no natural key, or no declared sequence_index
    Content,     \* Content[r]: the physical lines of the file of run r
    BatchSize,   \* IMPORT_BATCH_SIZE
    MaxRunning,  \* how many workers there are
    Faults       \* TRUE: connections fail and workers are killed

ASSUME BoundsAssumption == BatchSize \in Nat \ {0} /\ MaxRunning \in Nat \ {0}

ASSUME ContentAssumption ==
    \A r \in Runs :
        /\ IsFiniteSet(DOMAIN Content[r])
        /\ \A n \in DOMAIN Content[r] : Content[r][n].kind \in {"record", "blank", "malformed"}

VARIABLES
    store,       \* the committed rows of the fact and referential tables
    draft,       \* the rows the open transaction of a run has inserted
    phase,
    lineNumber,  \* records in the batches the run has committed
    todo,        \* the places of the rows the open transaction has still to insert
    counters

vars == <<store, draft, phase, lineNumber, todo, counters>>

--------------------------------------------------------------------------------
(* The rows a record becomes.  A row is identified by its natural key: the *)
(* table and the unique columns.                                           *)

NotBlank(r) == {n \in DOMAIN Content[r] : Content[r][n].kind # "blank"}

\* The number of a line among those that are not blank
NumberOf(r, n) == Cardinality({m \in NotBlank(r) : m <= n})

\* The reader skips blank lines; records are numbered without them
Records ==
    [r \in Runs |-> [k \in 1 .. Cardinality(NotBlank(r)) |->
        Content[r][CHOOSE n \in NotBlank(r) : NumberOf(r, n) = k]]]

ASSUME ListsAssumption ==
    \A r \in Runs : \A n \in DOMAIN Records[r] : LET line == Records[r][n] IN
        /\ IsFiniteSet(DOMAIN line.names)
        /\ IsFiniteSet(DOMAIN line.model_calls)
        /\ IsFiniteSet(DOMAIN line.tool_calls)

NameKeys(line) == [i \in DOMAIN line.names |-> <<"name", line.names[i]>>]

SessionKeys(line) == IF line.session = None THEN <<>> ELSE << <<"session", line.session>> >>

\* An iterated call without a declared index takes its position in the list
IndexOf(calls, i) == IF calls[i].index = None THEN i - 1 ELSE calls[i].index

\* Calls whose session was rejected are rejected with it
CallKeys(table, line, calls) ==
    IF line.session = None THEN <<>>
    ELSE [i \in DOMAIN calls |-> <<table, line.session, IndexOf(calls, i)>>]

ModelCallKeys(line) == CallKeys("model_call", line, line.model_calls)

ToolCallKeys(line) == CallKeys("tool_call", line, line.tool_calls)

\* Referentials first, then sessions, model calls and tool calls
Tables == <<"name", "session", "model_call", "tool_call">>

KeysOf(table, line) ==
    CASE table = "name"       -> NameKeys(line)
      [] table = "session"    -> SessionKeys(line)
      [] table = "model_call" -> ModelCallKeys(line)
      [] table = "tool_call"  -> ToolCallKeys(line)

\* All the natural keys a record states
StatedBy(line) == UNION {ToSet(KeysOf(table, line)) : table \in ToSet(Tables)}

\* What each record of each file states
Facts == [r \in Runs |-> [n \in DOMAIN Records[r] |-> StatedBy(Records[r][n])]]

IsSession(key) == key[1] = "session"

IsCall(key) == key[1] \in {"model_call", "tool_call"}

Rejected(line) == line.rejected \/ line.session = None

Keys(rows) == {row.key : row \in rows}

--------------------------------------------------------------------------------
(* The batch a run is about to read or is writing *)

BatchEnd(r) ==
    IF lineNumber[r] + BatchSize <= Len(Records[r])
    THEN lineNumber[r] + BatchSize
    ELSE Len(Records[r])

BatchLines(r) == lineNumber[r] + 1 .. BatchEnd(r)

\* Mutant: the lines of each batch are numbered from 1 again.
LineOfBatch(r, i) == i

\* start_line + position
LineOf(r, i) == lineNumber[r] + i

\* The rows of the batch by their places: the table, the record in the batch, the
\* row among those the record has in that table
RowsToWrite(r) ==
    UNION {{<<t, i, j>> : j \in DOMAIN KeysOf(Tables[t], Records[r][lineNumber[r] + i])} :
               t \in DOMAIN Tables, i \in 1 .. BatchEnd(r) - lineNumber[r]}

KeyAt(r, at) == KeysOf(Tables[at[1]], Records[r][lineNumber[r] + at[2]])[at[3]]

RowAt(r, at) == [key |-> KeyAt(r, at), run |-> r, line |-> LineOf(r, at[2])]

\* Table by table for the whole batch, in line order
Before(p, q) ==
    \/ p[1] < q[1]
    \/ p[1] = q[1] /\ p[2] < q[2]
    \/ p[1] = q[1] /\ p[2] = q[2] /\ p[3] < q[3]

IsNext(r, at) == \A other \in todo[r] \ {at} : Before(at, other)

CallsToWrite(r) == Cardinality({at \in RowsToWrite(r) : IsCall(KeyAt(r, at))})

NoCount == [imported |-> 0, duplicate |-> 0, rejected |-> 0, sessions |-> {}]

TypeOK ==
    /\ \A row \in store : row.run \in Runs /\ row.line \in DOMAIN Records[row.run]
    /\ \A r \in Runs : \A row \in draft[r] : row.run = r /\ row.line \in BatchLines(r)
    /\ phase \in [Runs -> {"queued", "reading", "writing", "reported", "failed"}]
    /\ \A r \in Runs :
        /\ lineNumber[r] \in 0 .. Len(Records[r])
        /\ todo[r] \subseteq RowsToWrite(r)
        /\ counters[r].imported \in Nat /\ counters[r].duplicate \in Nat
        /\ counters[r].rejected \in Nat
        /\ counters[r].sessions \subseteq Keys(store)

Init ==
    /\ store = {}
    /\ draft = [r \in Runs |-> {}]
    /\ phase = [r \in Runs |-> "queued"]
    /\ lineNumber = [r \in Runs |-> 0]
    /\ todo = [r \in Runs |-> {}]
    /\ counters = [r \in Runs |-> NoCount]

--------------------------------------------------------------------------------
(* RunImport.execute *)

Become(r, there) == phase' = [phase EXCEPT ![r] = there]

Start(r) ==
    /\ phase[r] = "queued"
    /\ Cardinality({q \in Runs : phase[q] \in {"reading", "writing"}}) < MaxRunning
    /\ Become(r, "reading")
    /\ UNCHANGED <<store, draft, lineNumber, todo, counters>>

Malformed(r) == \E n \in BatchLines(r) : Records[r][n].kind = "malformed"

\* The next batch is read, and its transaction begins
ReadBatch(r) ==
    /\ phase[r] = "reading"
    /\ lineNumber[r] < Len(Records[r])
    /\ ~Malformed(r)
    /\ todo' = [todo EXCEPT ![r] = RowsToWrite(r)]
    /\ Become(r, "writing")
    /\ UNCHANGED <<store, draft, lineNumber, counters>>

\* Another open transaction has inserted the key r wants to insert
WaitsFor(r, q) ==
    /\ q # r
    /\ phase[r] = "writing"
    /\ \E at \in todo[r] : IsNext(r, at) /\ KeyAt(r, at) \in Keys(draft[q])

\* Mutant: a key in an uncommitted row of another run counts as stored.
InsertTrustingDrafts(r) ==
    /\ phase[r] = "writing"
    /\ \E at \in todo[r] :
        /\ IsNext(r, at)
        /\ draft' = [draft EXCEPT ![r] =
              IF KeyAt(r, at) \in Keys(store \cup UNION {draft[q] : q \in Runs})
              THEN @ ELSE @ \cup {RowAt(r, at)}]
        /\ todo' = [todo EXCEPT ![r] = @ \ {at}]
    /\ UNCHANGED <<store, phase, lineNumber, counters>>

\* INSERT ... ON CONFLICT DO NOTHING of one row.  A key met twice in the batch
\* keeps its first candidate; one already stored is only looked up.
Insert(r) ==
    /\ phase[r] = "writing"
    /\ ~ \E q \in Runs : WaitsFor(r, q)
    /\ \E at \in todo[r] :
        /\ IsNext(r, at)
        /\ draft' = [draft EXCEPT ![r] =
              IF KeyAt(r, at) \in Keys(store \cup @) THEN @ ELSE @ \cup {RowAt(r, at)}]
        /\ todo' = [todo EXCEPT ![r] = @ \ {at}]
    /\ UNCHANGED <<store, phase, lineNumber, counters>>

\* The sessions that records of a run state
SessionsIn(r, lines) ==
    {SessionKeys(Records[r][n])[1] : n \in {m \in lines : Records[r][m].session # None}}

SessionsOfOthers(r) == {row.key : row \in {s \in store : IsSession(s.key) /\ s.run # r}}

\* The sessions of the batch that another run has stored
DuplicateSessions(r) == SessionsOfOthers(r) \cap SessionsIn(r, BatchLines(r))

\* Mutant: a session of another import is a duplicate once per batch.
CountedPerBatch(r) ==
    LET count    == counters[r]
        sessions == {row \in draft[r] : IsSession(row.key)}
        calls    == {row \in draft[r] : IsCall(row.key)}
    IN  [imported  |-> count.imported + Cardinality(sessions) + Cardinality(calls),
         duplicate |-> count.duplicate + Cardinality(DuplicateSessions(r))
                         + CallsToWrite(r) - Cardinality(calls),
         rejected  |-> count.rejected
                         + Cardinality({n \in BatchLines(r) : Rejected(Records[r][n])}),
         sessions  |-> count.sessions \cup DuplicateSessions(r)]

\* One session counts once for the run, one call each time it is met again
Counted(r) ==
    LET count    == counters[r]
        sessions == {row \in draft[r] : IsSession(row.key)}
        calls    == {row \in draft[r] : IsCall(row.key)}
    IN  [imported  |-> count.imported + Cardinality(sessions) + Cardinality(calls),
         duplicate |-> count.duplicate
                         + Cardinality(DuplicateSessions(r) \ count.sessions)
                         + CallsToWrite(r) - Cardinality(calls),
         rejected  |-> count.rejected
                         + Cardinality({n \in BatchLines(r) : Rejected(Records[r][n])}),
         sessions  |-> count.sessions \cup DuplicateSessions(r)]

Commit(r) ==
    /\ phase[r] = "writing"
    /\ todo[r] = {}
    /\ store' = store \cup draft[r]
    /\ counters' = [counters EXCEPT ![r] = Counted(r)]
    /\ lineNumber' = [lineNumber EXCEPT ![r] = BatchEnd(r)]
    /\ draft' = [draft EXCEPT ![r] = {}]
    /\ Become(r, "reading")
    /\ UNCHANGED todo

\* No batch is left: the counts are saved with the status
SaveReport(r) ==
    /\ phase[r] = "reading"
    /\ lineNumber[r] = Len(Records[r])
    /\ Become(r, "reported")
    /\ UNCHANGED <<store, draft, lineNumber, todo, counters>>

\* Mutant: closing the connection commits what was written.
RollBackNothing(r) ==
    /\ store' = store \cup draft[r]
    /\ draft' = [draft EXCEPT ![r] = {}]
    /\ todo' = [todo EXCEPT ![r] = {}]
    /\ Become(r, "failed")
    /\ UNCHANGED <<lineNumber, counters>>

\* Mutant: the run goes back to the queue and is started again.
RollBackAndRetry(r) ==
    /\ draft' = [draft EXCEPT ![r] = {}]
    /\ todo' = [todo EXCEPT ![r] = {}]
    /\ Become(r, "queued")
    /\ UNCHANGED <<store, lineNumber, counters>>

\* An exception leaves the unit of work, which rolls back, and fails the run
RollBack(r) ==
    /\ draft' = [draft EXCEPT ![r] = {}]
    /\ todo' = [todo EXCEPT ![r] = {}]
    /\ Become(r, "failed")
    /\ UNCHANGED <<store, lineNumber, counters>>

\* The reader raises ValueError before it yields the batch
ReaderRaises(r) ==
    /\ phase[r] = "reading"
    /\ Malformed(r)
    /\ RollBack(r)

\* r is on a cycle of waiting transactions: each of them waits for one of the
\* others and is waited for
Deadlocked(r) ==
    \E cycle \in SUBSET Runs :
        /\ r \in cycle
        /\ \A q \in cycle : (\E s \in cycle : WaitsFor(q, s)) /\ (\E s \in cycle : WaitsFor(s, q))

\* Postgres aborts one transaction of the cycle
DeadlockVictim(r) == Deadlocked(r) /\ RollBack(r)

\* The connection fails, the worker is killed, or the answer of the last commit
\* was lost
Interrupt(r) ==
    /\ Faults
    /\ phase[r] \in {"reading", "writing"}
    /\ RollBack(r)

RunStep(r) ==
    \/ Start(r)
    \/ ReadBatch(r)
    \/ ReaderRaises(r)
    \/ Insert(r)
    \/ Commit(r)
    \/ SaveReport(r)
    \/ DeadlockVictim(r)

Next == \E r \in Runs : RunStep(r) \/ Interrupt(r)

Spec == Init /\ [][Next]_vars

\* A live worker goes on with its run, and Postgres resolves deadlocks
FairSpec == Spec /\ \A r \in Runs : WF_vars(RunStep(r))

--------------------------------------------------------------------------------
(* Properties *)

\* Whatever is already stored, in flight or rolled back meanwhile, a run that
\* saved its report leaves every name, session and call of its file in the database.
NothingLost ==
    \A r \in Runs : phase[r] = "reported" => UNION ToSet(Facts[r]) \subseteq Keys(store)

\* From any stored row back to the record that states it, also when the
\* session is described by several lines, batches and files.
Provenance ==
    \A row \in store : row.key \in Facts[row.run][row.line]

\* The sessions and calls that point at a run
OwnRows(r) == {row \in store : row.run = r /\ (IsSession(row.key) \/ IsCall(row.key))}

\* The calls of records of a run: the table, the record, the call among its calls
CallsIn(r, lines) ==
    UNION {{<<t, n, i>> : i \in DOMAIN KeysOf(Tables[t], Records[r][n])} : t \in {3, 4}, n \in lines}

\* The report of a run is an exact account of its file: what it says imported
\* are the rows that point at it, and every distinct session and every call
\* met is either imported or a duplicate.
ReportIsExact ==
    \A r \in Runs : phase[r] = "reported" =>
        LET lines == DOMAIN Records[r] IN
        /\ counters[r].imported = Cardinality(OwnRows(r))
        /\ counters[r].imported + counters[r].duplicate
             = Cardinality(SessionsIn(r, lines)) + Cardinality(CallsIn(r, lines))
        /\ counters[r].rejected = Cardinality({n \in lines : Rejected(Records[r][n])})

\* Every run ends, also when it is caught in a deadlock.
EveryRunEnds == \A r \in Runs : <>(phase[r] \in {"reported", "failed"})

\* The database grows by prefixes of the files.
Traces == INSTANCE TraceStore WITH
    stored  <- Keys(store),
    done    <- lineNumber,
    outcome <- [r \in Runs |->
                   CASE phase[r] = "reported" -> "complete"
                     [] phase[r] = "failed"   -> "failed"
                     [] OTHER                 -> "open"]
StoreSpec == Traces!Spec
================================================================================
