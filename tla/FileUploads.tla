------------------------------ MODULE FileUploads ------------------------------
(***************************************************************************)
(* POST /files: the body is streamed to a staging file, the staging file   *)
(* becomes the content-addressed file, and a row of file_upload names it.  *)
(* Disk operations run in threads, which a cancelled request does not      *)
(* stop: neither the thread that opens the staging file nor the one that   *)
(* places it.  A path is an entry of a directory and an entry names an     *)
(* inode: a file that is open keeps its inode when its entry moves or goes.*)
(***************************************************************************)
EXTENDS Naturals, FiniteSets

CONSTANTS
    Requests,      \* the requests POST /files made, each with one body
    Contents,      \* the different bodies, each standing for its hash
    Names,         \* staging names: the pid and the id() of the stream
    None,
    ContentOf,     \* the content each request sends
    StagingOf,     \* the staging name each request computes
    Size,          \* the length of each content, in chunks
    Unrecognised,  \* the contents detect_format refuses
    Cancellable,   \* the requests that may be cancelled
    MaxCrashes     \* bound: deaths of the API process

ASSUME SetsAssumption ==
    /\ ContentOf \in [Requests -> Contents]
    /\ StagingOf \in [Requests -> Names]
    /\ Size \in [Contents -> Nat]
    /\ MaxCrashes \in Nat
    /\ Unrecognised \subseteq Contents
    /\ Cancellable \subseteq Requests
    /\ Names \cap Contents = {}
    /\ None \notin Requests \cup Names \cup Contents

\* The staging names, and <root>/<hash[:2]>/<hash>
Paths == Names \cup Contents

VARIABLES
    pc,         \* where the handler of each request is
    thread,     \* where the thread that opens or places its file is
    fd,         \* the inode each request writes to
    sent,       \* the chunks each request has hashed and written
    entry,      \* the inode at each path
    data,       \* what each inode holds: chunks of contents
    row,        \* the request that inserted the row of a content
    committed,  \* the contents whose row is committed
    answer,     \* already_seen, as answered to each request
    knew,       \* history: the row was committed when the request began
    crashes

disk   == <<entry, data>>
table  == <<row, committed>>
client == <<answer, knew>>
vars   == <<pc, thread, fd, sent, disk, table, client, crashes>>

\* execute: store() opens, streams and places; get_by_hash, create, commit
Live == {"opening", "streaming", "placing", "reading", "creating", "committing"}

Pc == {"none", "done", "refused", "cancelled", "lost"} \cup Live

\* "opened", "moved" and "raised": the thread has returned, or raised
Thread == {"off", "open", "opened", "detect", "look", "drop", "move", "moved", "raised"}

\* A chunk and its place in a file; a place that is not written is a hole
Chunks == Contents \X Nat

Prefix(c, n) == {c} \X (1 .. n)

Whole(c) == Prefix(c, Size[c])

TypeOK ==
    /\ pc \in [Requests -> Pc]
    /\ thread \in [Requests -> Thread]
    /\ fd \in [Requests -> Requests \cup {None}]
    /\ entry \in [Paths -> Requests \cup {None}]
    /\ sent \in [Requests -> Nat]
    /\ data \in [Requests -> SUBSET Chunks]
    /\ row \in [Contents -> Requests \cup {None}]
    /\ committed \subseteq Contents
    /\ answer \in [Requests -> {"none", "new", "seen"}]
    /\ knew \in [Requests -> BOOLEAN]
    /\ crashes \in Nat

Init ==
    /\ pc = [r \in Requests |-> "none"]
    /\ thread = [r \in Requests |-> "off"]
    /\ fd = [r \in Requests |-> None]
    /\ entry = [p \in Paths |-> None]
    /\ sent = [r \in Requests |-> 0]
    /\ data = [r \in Requests |-> {}]
    /\ row = [c \in Contents |-> None]
    /\ committed = {}
    /\ answer = [r \in Requests |-> "none"]
    /\ knew = [r \in Requests |-> FALSE]
    /\ crashes = 0

GoTo(r, there) == pc' = [pc EXCEPT ![r] = there]

ThreadAt(r, there) == thread' = [thread EXCEPT ![r] = there]

Staging(r) == StagingOf[r]

Hash(r) == ContentOf[r]

--------------------------------------------------------------------------------
(* LocalFileStorage.store *)

\* Streams that are alive have different ids
NameIsFree(r) == \A q \in Requests : pc[q] \in Live => StagingOf[q] # StagingOf[r]

\* The suffix is allowed, the root is there, the name is computed, and the
\* thread that opens it is asked for.  Nothing of the handler's try protects
\* this await.
Begin(r) ==
    /\ pc[r] = "none"
    /\ NameIsFree(r)
    /\ knew' = [knew EXCEPT ![r] = Hash(r) \in committed]
    /\ GoTo(r, "opening")
    /\ ThreadAt(r, "open")
    /\ UNCHANGED <<fd, sent, disk, table, answer, crashes>>

\* open(staging, "wb"), in its thread: it creates the file, or empties the one
\* that is there, whosever it is and whether or not the request still waits.
\* The inode is named after the request that created it.
Open(r) ==
    /\ thread[r] = "open"
    /\ LET inode == IF entry[Staging(r)] = None THEN r ELSE entry[Staging(r)] IN
       /\ entry' = [entry EXCEPT ![Staging(r)] = inode]
       /\ data' = [data EXCEPT ![inode] = {}]
       /\ fd' = [fd EXCEPT ![r] = inode]
    /\ ThreadAt(r, "opened")
    /\ UNCHANGED <<pc, sent, table, client, crashes>>

\* The await returns and the handler enters its try
Entered(r) ==
    /\ pc[r] = "opening"
    /\ thread[r] = "opened"
    /\ GoTo(r, "streaming")
    /\ ThreadAt(r, "off")
    /\ UNCHANGED <<fd, sent, disk, table, client, crashes>>

\* One more chunk, written where the last one ended; too many of them are a
\* failure of the stream
Append(r) ==
    /\ pc[r] = "streaming"
    /\ sent[r] < Size[Hash(r)]
    /\ sent' = [sent EXCEPT ![r] = @ + 1]
    /\ data' = [data EXCEPT ![fd[r]] = @ \cup {<<Hash(r), sent[r] + 1>>}]
    /\ UNCHANGED <<pc, thread, fd, entry, table, client, crashes>>

Unlinked(p) == entry' = [entry EXCEPT ![p] = None]

\* Mutant: the staging file of a failed upload stays.
StreamFailsAndKeeps(r) ==
    /\ pc[r] = "streaming"
    /\ GoTo(r, "refused")
    /\ UNCHANGED <<thread, fd, sent, disk, table, client, crashes>>

\* Too large, a malformed or truncated body, the client gone: except BaseException
StreamFails(r) ==
    /\ pc[r] = "streaming"
    /\ Unlinked(Staging(r))
    /\ GoTo(r, "refused")
    /\ UNCHANGED <<thread, fd, sent, data, table, client, crashes>>

\* Mutant: the file is placed as soon as the stream pauses.
StartPlaceEarly(r) ==
    /\ pc[r] = "streaming"
    /\ GoTo(r, "placing")
    /\ ThreadAt(r, "detect")
    /\ UNCHANGED <<fd, sent, disk, table, client, crashes>>

\* The stream ends, out is closed and the thread of _place starts
StartPlace(r) ==
    /\ pc[r] = "streaming"
    /\ sent[r] = Size[Hash(r)]
    /\ GoTo(r, "placing")
    /\ ThreadAt(r, "detect")
    /\ UNCHANGED <<fd, sent, disk, table, client, crashes>>

--------------------------------------------------------------------------------
(* _place, in its thread *)

\* staging.open("rb") and detect_file_format; a missing file raises
Detect(r) ==
    /\ thread[r] = "detect"
    /\ ThreadAt(r, IF entry[Staging(r)] = None \/ Hash(r) \in Unrecognised
                       THEN "raised" ELSE "look")
    /\ UNCHANGED <<pc, fd, sent, disk, table, client, crashes>>

\* Mutant: the directory of the hash is looked for, not the file.
LookForDirectory(r) ==
    /\ thread[r] = "look"
    /\ ThreadAt(r, "drop")
    /\ UNCHANGED <<pc, fd, sent, disk, table, client, crashes>>

\* final.exists()
Look(r) ==
    /\ thread[r] = "look"
    /\ ThreadAt(r, IF entry[Hash(r)] # None THEN "drop" ELSE "move")
    /\ UNCHANGED <<pc, fd, sent, disk, table, client, crashes>>

\* The same content is there: staging.unlink(missing_ok=True)
Drop(r) ==
    /\ thread[r] = "drop"
    /\ Unlinked(Staging(r))
    /\ ThreadAt(r, "moved")
    /\ UNCHANGED <<pc, fd, sent, data, table, client, crashes>>

\* staging.replace(final), atomic; a missing staging file raises
Move(r) ==
    /\ thread[r] = "move"
    /\ IF entry[Staging(r)] = None
       THEN /\ ThreadAt(r, "raised")
            /\ UNCHANGED entry
       ELSE /\ ThreadAt(r, "moved")
            /\ entry' = [entry EXCEPT ![Hash(r)] = entry[Staging(r)], ![Staging(r)] = None]
    /\ UNCHANGED <<pc, fd, sent, data, table, client, crashes>>

\* _place returned
Stored(r) ==
    /\ pc[r] = "placing"
    /\ thread[r] = "moved"
    /\ GoTo(r, "reading")
    /\ UNCHANGED <<thread, fd, sent, disk, table, client, crashes>>

\* _place raised: the handler of store() unlinks what is left
PlaceFails(r) ==
    /\ pc[r] = "placing"
    /\ thread[r] = "raised"
    /\ Unlinked(Staging(r))
    /\ GoTo(r, "refused")
    /\ UNCHANGED <<thread, fd, sent, data, table, client, crashes>>

--------------------------------------------------------------------------------
(* UploadFile.execute after the file is stored *)

Answered(r, what) == answer' = [answer EXCEPT ![r] = what] /\ UNCHANGED knew

\* get_by_hash finds the row
FindRow(r) ==
    /\ pc[r] = "reading"
    /\ Hash(r) \in committed
    /\ Answered(r, "seen")
    /\ GoTo(r, "done")
    /\ UNCHANGED <<thread, fd, sent, disk, table, crashes>>

MissRow(r) ==
    /\ pc[r] = "reading"
    /\ Hash(r) \notin committed
    /\ GoTo(r, "creating")
    /\ UNCHANGED <<thread, fd, sent, disk, table, client, crashes>>

\* INSERT ... ON CONFLICT DO NOTHING, no row with this hash
Insert(r) ==
    /\ pc[r] = "creating"
    /\ row[Hash(r)] = None
    /\ row' = [row EXCEPT ![Hash(r)] = r]
    /\ GoTo(r, "committing")
    /\ UNCHANGED <<thread, fd, sent, disk, committed, client, crashes>>

\* Conflict with a committed row, which is read and returned as a new one.  With
\* a row that is not committed yet the insertion waits.
LoseRace(r) ==
    /\ pc[r] = "creating"
    /\ Hash(r) \in committed
    /\ Answered(r, "new")
    /\ GoTo(r, "done")
    /\ UNCHANGED <<thread, fd, sent, disk, table, crashes>>

Commit(r) ==
    /\ pc[r] = "committing"
    /\ committed' = committed \cup {Hash(r)}
    /\ Answered(r, "new")
    /\ GoTo(r, "done")
    /\ UNCHANGED <<thread, fd, sent, disk, row, crashes>>

\* What a transaction that does not commit has inserted
RolledBack(rs) == row' = [c \in Contents |->
    IF row[c] \in rs /\ c \notin committed THEN None ELSE row[c]]

\* Mutant: the insertion of a lost transaction stays.
AbortKeepingRow(r) ==
    /\ pc[r] \in {"reading", "creating", "committing"}
    /\ GoTo(r, "refused")
    /\ UNCHANGED <<thread, fd, sent, disk, table, client, crashes>>

\* The connection is lost after the commit, before its answer
CommitUnanswered(r) ==
    /\ pc[r] = "committing"
    /\ committed' = committed \cup {Hash(r)}
    /\ GoTo(r, "refused")
    /\ UNCHANGED <<thread, fd, sent, disk, row, client, crashes>>

\* The connection to the database is lost: 500
Abort(r) ==
    /\ pc[r] \in {"reading", "creating", "committing"}
    /\ RolledBack({r})
    /\ GoTo(r, "refused")
    /\ UNCHANGED <<thread, fd, sent, disk, committed, client, crashes>>

--------------------------------------------------------------------------------
(* Cancellation and death of the process *)

\* CancelledError while the file is being opened: nothing is unlinked.  The
\* thread goes on, unless it has not started
CancelOpen(r) ==
    /\ r \in Cancellable
    /\ pc[r] = "opening"
    /\ GoTo(r, "cancelled")
    /\ \/ UNCHANGED thread
       \/ thread[r] = "open" /\ ThreadAt(r, "off")
    /\ UNCHANGED <<fd, sent, disk, table, client, crashes>>

\* CancelledError in the try: store() closes and unlinks, synchronously, while a thread
\* that runs _place goes on
CancelStore(r) ==
    /\ r \in Cancellable
    /\ pc[r] \in {"streaming", "placing"}
    /\ Unlinked(Staging(r))
    /\ GoTo(r, "cancelled")
    /\ UNCHANGED <<thread, fd, sent, data, table, client, crashes>>

\* The same after store(): the transaction rolls back
CancelTransaction(r) ==
    /\ r \in Cancellable
    /\ pc[r] \in {"reading", "creating", "committing"}
    /\ RolledBack({r})
    /\ GoTo(r, "cancelled")
    /\ UNCHANGED <<thread, fd, sent, disk, committed, client, crashes>>

\* Requests and threads die with the process; the disk stays as it is
Crash ==
    /\ crashes < MaxCrashes
    /\ crashes' = crashes + 1
    /\ pc' = [r \in Requests |-> IF pc[r] \in Live THEN "lost" ELSE pc[r]]
    /\ thread' = [r \in Requests |-> "off"]
    /\ RolledBack({r \in Requests : pc[r] \in Live})
    /\ UNCHANGED <<fd, sent, disk, committed, client>>

StoreStep(r) ==
    \/ Open(r) \/ Entered(r) \/ Append(r) \/ StartPlace(r)
    \/ Detect(r) \/ Look(r) \/ Drop(r) \/ Move(r)
    \/ Stored(r) \/ PlaceFails(r)

RowStep(r) == FindRow(r) \/ MissRow(r) \/ Insert(r) \/ LoseRace(r) \/ Commit(r)

Failure(r) ==
    \/ CancelOpen(r) \/ StreamFails(r) \/ CancelStore(r)
    \/ CommitUnanswered(r) \/ Abort(r) \/ CancelTransaction(r)

Next ==
    \/ \E r \in Requests : Begin(r) \/ StoreStep(r) \/ RowStep(r) \/ Failure(r)
    \/ Crash

Spec == Init /\ [][Next]_vars

\* A body is finite, disk operations return, and a statement ends unless it waits
\* for another transaction.  Failures owe nothing.
FairSpec == Spec /\ \A r \in Requests : WF_vars(StoreStep(r) \/ RowStep(r))

--------------------------------------------------------------------------------
(* Properties *)

\* A file only becomes visible at its content-addressed path once it is
\* complete, whatever uploads fail, are cancelled or die on the way.
OnlyWholeFiles ==
    \A c \in Contents : entry[c] # None => data[entry[c]] = Whole(c)

\* A row never refers to a file that is not there, so an import or a profile
\* that opens storage_path finds the bytes that were hashed.
RowHasItsFile == \A c \in committed : entry[c] # None /\ c \notin Unrecognised

\* The await that opened its file was cancelled, after the thread or before it
CancelledAtOpen(r) == pc[r] = "cancelled" /\ thread[r] = "opened"

\* A staging file belongs to an upload in progress, or to one that was cancelled
\* while its file was being opened: every other failure and cancellation, at any
\* point of store() and of the thread, leaves nothing behind.
StagingIsOwned ==
    crashes = 0 =>
        \A s \in Names : entry[s] # None =>
            \E r \in Requests :
                /\ Staging(r) = s
                /\ pc[r] \in {"opening", "streaming", "placing"} \/ CancelledAtOpen(r)

\* Of all the uploads of one content at most one creates its row, a row that is
\* not committed belongs to a transaction in progress, and what was committed
\* when an upload began is reported as seen.
RowsAreUnique ==
    /\ \A c \in Contents : row[c] # None =>
          c \in committed \/ (pc[row[c]] = "committing" /\ Hash(row[c]) = c)
    /\ \A r \in Requests : pc[r] = "committing" => row[Hash(r)] = r
    /\ \A r \in Requests : knew[r] => answer[r] # "new"

\* Every upload is answered, also when it waits for the row of another one.
EveryUploadEnds == \A r \in Requests : pc[r] = "opening" ~> pc[r] \notin Live

\* Disk and table together behave as ContentStore promises.
Store == INSTANCE ContentStore WITH
    files <- {c \in Contents : entry[c] # None /\ data[entry[c]] = Whole(c)},
    catalogue <- committed
StoreSpec == Store!Spec
================================================================================
