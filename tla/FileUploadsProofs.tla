---------------------------- MODULE FileUploadsProofs ----------------------------
(***************************************************************************)
(* What FileUploads guarantees for any number of uploads, contents and     *)
(* crashes, as long as the staging name of a request that may be cancelled *)
(* is nobody else's: a thread that outlives its request opens or places    *)
(* then no file of another one.                                            *)
(***************************************************************************)
EXTENDS FileUploads, TLAPS

ExclusiveNames ==
    \A r \in Cancellable : \A q \in Requests \ {r} : StagingOf[q] # StagingOf[r]

Later == {"reading", "creating", "committing"}

Running == {"detect", "look", "drop", "move"}

\* Requests in progress have names of their own, and paths inodes of their own
NamesApart ==
    \A r, q \in Requests :
        r # q /\ pc[r] \in Live /\ pc[q] \in Live => Staging(r) # Staging(q)

EntriesApart ==
    \A p, q \in Paths : entry[p] # None /\ entry[p] = entry[q] => p = q

\* An inode is there once the thread of its request has opened it
InodesOpened ==
    \A p \in Paths : entry[p] # None => pc[entry[p]] # "none" /\ thread[entry[p]] # "open"

\* What the file of a request is at each point
Owner(r) ==
    /\ thread[r] \in Running => pc[r] = "placing" \/ (pc[r] = "cancelled" /\ r \in Cancellable)
    /\ thread[r] = "open" => pc[r] = "opening" \/ (pc[r] = "cancelled" /\ r \in Cancellable)
    /\ pc[r] = "opening" => thread[r] \in {"open", "opened"}
    /\ pc[r] \in {"none", "streaming"} => thread[r] = "off"
    /\ pc[r] = "placing" => thread[r] \notin {"off", "open", "opened"}
    /\ pc[r] \in {"none", "opening"} => sent[r] = 0

StagingOK(r) ==
    /\ (pc[r] = "opening" /\ thread[r] = "opened") \/ pc[r] = "streaming" =>
          fd[r] # None /\ entry[Staging(r)] = fd[r] /\ data[fd[r]] = Prefix(Hash(r), sent[r])
    /\ pc[r] = "placing" /\ thread[r] \in Running =>
          entry[Staging(r)] # None /\ data[entry[Staging(r)]] = Whole(Hash(r))
    /\ pc[r] = "placing" /\ thread[r] = "moved" => entry[Staging(r)] = None
    /\ r \in Cancellable /\ (pc[r] = "none" \/ thread[r] = "open") => entry[Staging(r)] = None
    /\ r \in Cancellable /\ pc[r] = "cancelled" /\ thread[r] \in Running => entry[Staging(r)] = None

FinalOK(r) ==
    /\ thread[r] \in {"look", "drop", "move", "moved"} => Hash(r) \notin Unrecognised
    /\ thread[r] \in {"drop", "moved"} => entry[Hash(r)] # None
    /\ pc[r] \in Later => entry[Hash(r)] # None /\ Hash(r) \notin Unrecognised

\* Whose file may stay at its staging name
Keeps(r) == pc[r] \in {"opening", "streaming", "placing"} \/ CancelledAtOpen(r)

EachRequest == \A r \in Requests : Owner(r) /\ StagingOK(r) /\ FinalOK(r)

Inv ==
    /\ TypeOK
    /\ NamesApart
    /\ EntriesApart
    /\ InodesOpened
    /\ EachRequest
    /\ OnlyWholeFiles
    /\ RowHasItsFile
    /\ StagingIsOwned

--------------------------------------------------------------------------------

LEMMA PathTypes ==
    ASSUME NEW r \in Requests
    PROVE  /\ Staging(r) \in Names /\ Staging(r) \in Paths /\ Staging(r) \notin Contents
           /\ Hash(r) \in Contents /\ Hash(r) \in Paths /\ Hash(r) \notin Names
           /\ None \notin Requests /\ Size[Hash(r)] \in Nat
BY SetsAssumption DEF Staging, Hash, Paths

LEMMA StepKeepsTypes == TypeOK /\ [Next]_vars => TypeOK'
<1> SUFFICES ASSUME TypeOK, [Next]_vars PROVE TypeOK'
  OBVIOUS
<1> USE DEF TypeOK, disk, table, client
<1>1. ASSUME NEW r \in Requests, Begin(r) PROVE TypeOK'
  BY <1>1 DEF Begin, GoTo, ThreadAt, Pc, Live, Thread
<1>2. ASSUME NEW r \in Requests, StoreStep(r) PROVE TypeOK'
  <2>1. Staging(r) \in Paths /\ Hash(r) \in Paths /\ None \notin Requests
    BY PathTypes
  <2>2. CASE Append(r)
    <3>1. Size[Hash(r)] \in Nat /\ <<Hash(r), sent[r] + 1>> \in Chunks
      BY PathTypes DEF Chunks
    <3>2. sent' \in [Requests -> Nat]
      BY <2>2 DEF Append
    <3>3. data' \in [Requests -> SUBSET Chunks]
      BY <2>2, <3>1 DEF Append
    <3> QED BY <2>2, <3>2, <3>3 DEF Append
  <2>3. CASE Entered(r) \/ StartPlace(r)
    BY <2>3 DEF Entered, StartPlace, GoTo, ThreadAt, Pc, Live, Thread
  <2>10. CASE Open(r)
    <3>1. PICK inode \in Requests : /\ entry' = [entry EXCEPT ![Staging(r)] = inode]
                                    /\ data' = [data EXCEPT ![inode] = {}]
                                    /\ fd' = [fd EXCEPT ![r] = inode]
      BY <2>1, <2>10 DEF Open
    <3> QED BY <2>1, <2>10, <3>1 DEF Open, ThreadAt, Thread
  <2>4. CASE Detect(r)
    BY <2>4 DEF Detect, ThreadAt, Thread
  <2>5. CASE Look(r)
    BY <2>5 DEF Look, ThreadAt, Thread
  <2>6. CASE Drop(r)
    BY <2>1, <2>6 DEF Drop, Unlinked, ThreadAt, Thread
  <2>7. CASE Move(r)
    <3>1. entry[Staging(r)] \in Requests \cup {None}
      BY <2>1
    <3> QED BY <2>1, <2>7, <3>1 DEF Move, ThreadAt, Thread
  <2>8. CASE Stored(r)
    BY <2>8 DEF Stored, GoTo, Pc, Live
  <2>9. CASE PlaceFails(r)
    BY <2>1, <2>9 DEF PlaceFails, Unlinked, GoTo, Pc
  <2> QED BY <1>2, <2>2, <2>3, <2>4, <2>5, <2>6, <2>7, <2>8, <2>9, <2>10 DEF StoreStep
<1>3. ASSUME NEW r \in Requests, RowStep(r) PROVE TypeOK'
  <2>1. Hash(r) \in Contents
    BY PathTypes
  <2> QED BY <1>3, <2>1 DEF RowStep, FindRow, MissRow, Insert, LoseRace, Commit, Answered, GoTo, Pc, Live
<1>4. ASSUME NEW r \in Requests, Failure(r) PROVE TypeOK'
  <2>1. Hash(r) \in Contents /\ Staging(r) \in Paths
    BY PathTypes
  <2> QED BY <1>4, <2>1 DEF Failure, CancelOpen, StreamFails, CancelStore, CommitUnanswered, Abort,
                            CancelTransaction, RolledBack, Unlinked, GoTo, ThreadAt, Pc, Thread
<1>5. CASE Crash
  BY <1>5 DEF Crash, RolledBack, Pc, Thread
<1>6. CASE UNCHANGED vars
  BY <1>6 DEF vars
<1> QED BY <1>1, <1>2, <1>3, <1>4, <1>5, <1>6 DEF Next

\* Every variable keeps its type: the handler, the thread and the inode of each
\* request, the entries of the directories and the rows.
THEOREM TypeCorrect == Spec => []TypeOK
<1>1. Init => TypeOK
  BY SetsAssumption DEF Init, TypeOK, Pc, Thread
<1> QED BY <1>1, StepKeepsTypes, PTL DEF Spec

--------------------------------------------------------------------------------
(* The inductive invariant *)

LEMMA InitInv == Init => Inv
<1> SUFFICES ASSUME Init PROVE Inv
  OBVIOUS
<1>1. TypeOK
  BY SetsAssumption DEF Init, TypeOK, Pc, Thread
<1>2. \A p \in Paths : entry[p] = None
  BY DEF Init
<1>3. \A r \in Requests : pc[r] = "none" /\ thread[r] = "off"
  BY DEF Init
<1>4. EachRequest
  <2>1. \A r \in Requests : sent[r] = 0 /\ entry[Staging(r)] = None
    BY <1>2, PathTypes DEF Init
  <2> QED BY <1>3, <2>1 DEF EachRequest, Owner, StagingOK, FinalOK, Later, Running
<1>5. OnlyWholeFiles /\ RowHasItsFile /\ StagingIsOwned
  BY <1>2 DEF Init, OnlyWholeFiles, RowHasItsFile, StagingIsOwned, Paths
<1> QED BY <1>1, <1>2, <1>3, <1>4, <1>5 DEF Inv, NamesApart, EntriesApart, InodesOpened, Live

\* A step of the transaction leaves the disk alone: what it commits has its file
LEMMA RowStepsKeepInv ==
    ASSUME Inv, TypeOK', NEW r \in Requests, pc[r] \in Later,
           NEW there, there \in Later \cup {"done", "refused"}
                      \/ (there = "cancelled" /\ r \in Cancellable),
           GoTo(r, there), UNCHANGED <<thread, fd, sent, disk, crashes>>,
           committed' \subseteq committed \cup {Hash(r)}
    PROVE  Inv'
<1> USE DEF disk
<1>1. \A q \in Requests : pc'[q] = IF q = r THEN there ELSE pc[q]
  BY DEF Inv, TypeOK, GoTo
<1>2. NamesApart'
  BY <1>1 DEF Inv, NamesApart, Live, Later, Staging
<1>3. EntriesApart' /\ OnlyWholeFiles'
  BY DEF Inv, EntriesApart, OnlyWholeFiles
<1>4. InodesOpened'
  BY <1>1 DEF Inv, InodesOpened, Later, TypeOK
<1>5. EachRequest'
  BY <1>1 DEF Inv, EachRequest, Owner, StagingOK, FinalOK, Later, Running, Hash, Staging
<1>6. RowHasItsFile'
  BY DEF Inv, RowHasItsFile, EachRequest, FinalOK
<1>7. StagingIsOwned'
  BY <1>1 DEF Inv, StagingIsOwned, CancelledAtOpen, Later, Staging
<1> QED BY <1>2, <1>3, <1>4, <1>5, <1>6, <1>7 DEF Inv

\* The staging file of a request that leaves store() goes with it
LEMMA UnlinkingKeepsInv ==
    ASSUME Inv, TypeOK', NEW r \in Requests, pc[r] \in {"streaming", "placing"},
           NEW there, \/ there = "refused" /\ (pc[r] = "streaming" \/ thread[r] = "raised")
                      \/ there = "cancelled" /\ r \in Cancellable,
           GoTo(r, there), Unlinked(Staging(r)),
           UNCHANGED <<thread, fd, sent, data, committed, crashes>>
    PROVE  Inv'
<1>1. \A q \in Requests : pc'[q] = IF q = r THEN there ELSE pc[q]
  BY DEF Inv, TypeOK, GoTo
<1>2. \A p \in Paths : entry'[p] = IF p = Staging(r) THEN None ELSE entry[p]
  BY PathTypes DEF Inv, TypeOK, Unlinked
<1>3. NamesApart'
  BY <1>1 DEF Inv, NamesApart, Live, Staging
<1>4. EntriesApart'
  BY <1>2 DEF Inv, EntriesApart
<1>5. InodesOpened'
  BY <1>1, <1>2 DEF Inv, InodesOpened, TypeOK
<1>6. \A c \in Contents : entry'[c] = entry[c]
  BY <1>2, PathTypes DEF Paths
<1>7. OnlyWholeFiles' /\ RowHasItsFile'
  BY <1>6 DEF Inv, OnlyWholeFiles, RowHasItsFile, TypeOK, Whole
<1>8. ASSUME NEW q \in Requests PROVE Owner(q)'
  BY <1>1 DEF Inv, EachRequest, Owner, Running
<1>9. ASSUME NEW q \in Requests PROVE FinalOK(q)'
  BY <1>1, <1>6, PathTypes DEF Inv, EachRequest, FinalOK, Later, Hash
<1>10. ASSUME NEW q \in Requests PROVE StagingOK(q)'
  <2>1. entry'[Staging(q)] = IF Staging(q) = Staging(r) THEN None ELSE entry[Staging(q)]
    BY <1>2, PathTypes
  <2>2. CASE q = r
    BY <1>1, <2>1, <2>2 DEF StagingOK, Later, Staging
  <2>3. CASE q # r
    <3>1. pc[q] \in Live => Staging(q) # Staging(r)
      BY <2>3 DEF Inv, NamesApart, Live
    <3> QED BY <1>1, <2>1, <2>3, <3>1 DEF Inv, EachRequest, StagingOK, Live, Later, Staging, Hash, Whole
  <2> QED BY <2>2, <2>3
<1>11. StagingIsOwned'
  <2> SUFFICES ASSUME crashes = 0, NEW n \in Names, entry'[n] # None
               PROVE  \E q \in Requests : Keeps(q)' /\ Staging(q) = n
    BY DEF StagingIsOwned, Keeps, Staging
  <2>1. n # Staging(r) /\ entry[n] # None
    BY <1>2 DEF Paths
  <2>2. PICK q \in Requests : Keeps(q) /\ Staging(q) = n
    BY <2>1 DEF Inv, StagingIsOwned, Keeps
  <2> QED BY <1>1, <2>1, <2>2 DEF Keeps, CancelledAtOpen
<1> QED BY <1>3, <1>4, <1>5, <1>7, <1>8, <1>9, <1>10, <1>11 DEF Inv, EachRequest

\* A request that begins has a name nobody uses, and leaves the disk alone
LEMMA BeginKeepsInv ==
    ASSUME Inv, TypeOK', NEW r \in Requests, Begin(r)
    PROVE  Inv'
<1> USE DEF disk, table
<1>1. \A q \in Requests : /\ pc'[q] = IF q = r THEN "opening" ELSE pc[q]
                          /\ thread'[q] = IF q = r THEN "open" ELSE thread[q]
  BY DEF Inv, TypeOK, GoTo, ThreadAt, Begin
<1>2. pc[r] = "none" /\ UNCHANGED <<fd, sent, entry, data, committed, crashes>>
  BY DEF Begin
<1>3. \A q \in Requests : pc[q] \in Live => Staging(q) # Staging(r)
  BY DEF Begin, NameIsFree, Staging
<1>4. NamesApart'
  BY <1>1, <1>3 DEF Inv, NamesApart, Live, Staging
<1>5. InodesOpened'
  BY <1>1, <1>2 DEF Inv, InodesOpened, TypeOK
<1>6. ASSUME NEW q \in Requests PROVE Owner(q)'
  BY <1>1, <1>2 DEF Inv, EachRequest, Owner, Running
<1>7. ASSUME NEW q \in Requests PROVE StagingOK(q)'
  BY <1>1, <1>2 DEF Inv, EachRequest, StagingOK, Running, Staging, Hash, Whole, Prefix
<1>8. ASSUME NEW q \in Requests PROVE FinalOK(q)'
  BY <1>1, <1>2 DEF Inv, EachRequest, FinalOK, Later, Hash
<1>9. StagingIsOwned'
  <2> SUFFICES ASSUME crashes = 0, NEW n \in Names, entry[n] # None
               PROVE  \E q \in Requests : Keeps(q)' /\ Staging(q) = n
    BY <1>2 DEF StagingIsOwned, Keeps, Staging
  <2>1. PICK q \in Requests : Keeps(q) /\ Staging(q) = n
    BY DEF Inv, StagingIsOwned, Keeps
  <2> QED BY <1>1, <1>2, <2>1 DEF Keeps, CancelledAtOpen
<1> QED BY <1>2, <1>4, <1>5, <1>6, <1>7, <1>8, <1>9
        DEF Inv, EachRequest, EntriesApart, OnlyWholeFiles, RowHasItsFile, Whole, Prefix

\* The thread that opens a staging file creates it, or empties one that nobody
\* uses, whether or not its request still waits
LEMMA OpenKeepsInv ==
    ASSUME Inv, TypeOK', ExclusiveNames, NEW r \in Requests, Open(r)
    PROVE  Inv'
<1> USE DEF table
<1> DEFINE inode == IF entry[Staging(r)] = None THEN r ELSE entry[Staging(r)]
<1>1. \A q \in Requests : thread'[q] = IF q = r THEN "opened" ELSE thread[q]
  BY DEF Inv, TypeOK, ThreadAt, Open
<1>2. \A p \in Paths : entry'[p] = IF p = Staging(r) THEN inode ELSE entry[p]
  BY PathTypes DEF Inv, TypeOK, Open
<1>3. \A i \in Requests : i # inode => data'[i] = data[i]
  BY DEF Inv, TypeOK, Open
<1>4. \A q \in Requests : fd'[q] = IF q = r THEN inode ELSE fd[q]
  BY DEF Inv, TypeOK, Open
<1>5. inode \in Requests
  BY PathTypes DEF Inv, TypeOK
<1>6. data'[inode] = {}
  BY <1>5 DEF Inv, TypeOK, Open
<1>7. \A p \in Paths \ {Staging(r)} : entry[p] # inode
  BY PathTypes DEF Inv, EntriesApart, InodesOpened, Open
<1>8. thread[r] = "open" /\ UNCHANGED <<pc, sent, committed, crashes>>
  BY DEF Open
<1>9. pc[r] = "opening" \/ (pc[r] = "cancelled" /\ r \in Cancellable)
  BY <1>8 DEF Inv, EachRequest, Owner
<1>10. entry[Staging(r)] # None =>
          pc[entry[Staging(r)]] # "none" /\ thread[entry[Staging(r)]] # "open"
  BY PathTypes DEF Inv, InodesOpened
<1> HIDE DEF inode
<1>11. EntriesApart'
  BY <1>2, <1>7 DEF Inv, EntriesApart
<1>12. InodesOpened'
  <2> SUFFICES ASSUME NEW p \in Paths, entry'[p] # None
               PROVE  pc[entry'[p]] # "none" /\ thread'[entry'[p]] # "open"
    BY <1>8 DEF InodesOpened
  <2>1. CASE p # Staging(r)
    BY <1>1, <1>2, <2>1 DEF Inv, TypeOK, InodesOpened
  <2>2. CASE p = Staging(r)
    BY <1>1, <1>2, <1>5, <1>9, <1>10, <2>2 DEF inode
  <2> QED BY <2>1, <2>2
<1>13. \A c \in Contents : entry'[c] = entry[c] /\ entry[c] # inode
  BY <1>2, <1>7, PathTypes DEF Paths
<1>14. \A p \in Paths : entry'[p] # None => entry'[p] \in Requests
  BY DEF TypeOK
<1>15. OnlyWholeFiles'
  BY <1>3, <1>13, <1>14 DEF Inv, OnlyWholeFiles, Paths, Whole, Prefix
<1>16. RowHasItsFile'
  BY <1>8, <1>13 DEF Inv, RowHasItsFile, TypeOK
<1>17. ASSUME NEW q \in Requests PROVE Owner(q)'
  BY <1>1, <1>8, <1>9 DEF Inv, EachRequest, Owner, Running
<1>18. ASSUME NEW q \in Requests PROVE FinalOK(q)'
  BY <1>1, <1>8, <1>9, <1>13, PathTypes DEF Inv, EachRequest, FinalOK, Later, Hash
<1>19. StagingOK(r)'
  <2>1. CASE pc[r] = "opening"
    <3>1. sent[r] = 0
      BY <2>1 DEF Inv, EachRequest, Owner
    <3>2. data'[inode] = Prefix(Hash(r), sent[r])
      BY <1>6, <3>1 DEF Prefix
    <3>3. fd'[r] = inode /\ entry'[Staging(r)] = inode /\ inode # None
      BY <1>2, <1>4, <1>5, PathTypes
    <3> QED BY <1>1, <1>8, <2>1, <3>2, <3>3 DEF StagingOK, Running, Staging, Hash, Prefix
  <2>2. CASE pc[r] = "cancelled"
    BY <1>1, <1>8, <2>2 DEF StagingOK, Running
  <2> QED BY <1>9, <2>1, <2>2
<1>20. ASSUME NEW q \in Requests, q # r PROVE StagingOK(q)'
  <2>1. pc[q] \in Live \/ q \in Cancellable => Staging(q) # Staging(r)
    BY <1>9, <1>20 DEF Inv, NamesApart, Live, ExclusiveNames, Staging
  <2>2. fd'[q] = fd[q] /\ thread'[q] = thread[q]
    BY <1>1, <1>4, <1>20
  <2>3. Staging(q) # Staging(r) => entry'[Staging(q)] = entry[Staging(q)] /\ entry[Staging(q)] # inode
    BY <1>2, <1>7, PathTypes
  <2>4. Staging(q) # Staging(r) /\ entry[Staging(q)] # None
           => data'[entry[Staging(q)]] = data[entry[Staging(q)]]
    BY <1>3, <2>3, PathTypes DEF Inv, TypeOK
  <2>5. StagingOK(q)
    BY DEF Inv, EachRequest
  <2> QED BY <2>1, <2>2, <2>3, <2>4, <2>5, <1>8
          DEF StagingOK, Live, Later, Running, Staging, Hash, Whole, Prefix
<1>21. StagingIsOwned'
  <2> SUFFICES ASSUME crashes = 0, NEW n \in Names, entry'[n] # None
               PROVE  \E q \in Requests : Keeps(q)' /\ Staging(q) = n
    BY <1>8 DEF StagingIsOwned, Keeps, Staging
  <2>1. CASE n = Staging(r)
    BY <1>1, <1>8, <1>9, <2>1 DEF Keeps, CancelledAtOpen
  <2>2. CASE n # Staging(r)
    <3>1. PICK q \in Requests : Keeps(q) /\ Staging(q) = n
      BY <1>2, <2>2 DEF Inv, StagingIsOwned, Keeps, Paths
    <3> QED BY <1>1, <1>8, <3>1 DEF Keeps, CancelledAtOpen
  <2> QED BY <2>1, <2>2
<1> QED BY <1>8, <1>11, <1>12, <1>15, <1>16, <1>17, <1>18, <1>19, <1>20, <1>21
        DEF Inv, EachRequest, NamesApart, Staging

\* A request that is cancelled while its file is being opened leaves its name to
\* the thread, and may leave the file
LEMMA CancelOpenKeepsInv ==
    ASSUME Inv, TypeOK', NEW r \in Requests, CancelOpen(r)
    PROVE  Inv'
<1> USE DEF disk, table
<1>1. \A q \in Requests : pc'[q] = IF q = r THEN "cancelled" ELSE pc[q]
  BY DEF Inv, TypeOK, GoTo, CancelOpen
<1>2. \A q \in Requests \ {r} : thread'[q] = thread[q]
  BY DEF Inv, TypeOK, ThreadAt, CancelOpen
<1>3. thread'[r] = thread[r] \/ (thread[r] = "open" /\ thread'[r] = "off")
  BY DEF Inv, TypeOK, ThreadAt, CancelOpen
<1>4. /\ r \in Cancellable /\ pc[r] = "opening" /\ thread[r] \in {"open", "opened"}
      /\ UNCHANGED <<fd, sent, entry, data, committed, crashes>>
  BY DEF Inv, EachRequest, Owner, CancelOpen
<1>5. NamesApart'
  BY <1>1 DEF Inv, NamesApart, Live, Staging
<1>6. InodesOpened'
  BY <1>1, <1>2, <1>3, <1>4 DEF Inv, InodesOpened, TypeOK
<1>7. ASSUME NEW q \in Requests PROVE Owner(q)'
  BY <1>1, <1>2, <1>3, <1>4 DEF Inv, EachRequest, Owner, Running
<1>8. ASSUME NEW q \in Requests PROVE StagingOK(q)'
  BY <1>1, <1>2, <1>3, <1>4 DEF Inv, EachRequest, StagingOK, Running, Staging, Hash, Whole, Prefix
<1>9. ASSUME NEW q \in Requests PROVE FinalOK(q)'
  BY <1>1, <1>2, <1>3, <1>4 DEF Inv, EachRequest, FinalOK, Later, Hash
<1>10. StagingIsOwned'
  <2> SUFFICES ASSUME crashes = 0, NEW n \in Names, entry[n] # None
               PROVE  \E q \in Requests : Keeps(q)' /\ Staging(q) = n
    BY <1>4 DEF StagingIsOwned, Keeps, Staging
  <2>1. PICK q \in Requests : Keeps(q) /\ Staging(q) = n
    BY DEF Inv, StagingIsOwned, Keeps
  <2>2. CASE q # r
    BY <1>1, <1>2, <2>1, <2>2 DEF Keeps, CancelledAtOpen
  <2>3. CASE q = r
    <3>1. thread[r] = "opened"
      <4>1. StagingOK(r)
        BY DEF Inv, EachRequest
      <4>2. entry[Staging(r)] # None
        BY <2>1, <2>3
      <4> QED BY <1>4, <4>1, <4>2 DEF StagingOK
    <3> QED BY <1>1, <1>3, <2>1, <2>3, <3>1 DEF Keeps, CancelledAtOpen
  <2> QED BY <2>2, <2>3
<1> QED BY <1>4, <1>5, <1>6, <1>7, <1>8, <1>9, <1>10
        DEF Inv, EachRequest, EntriesApart, OnlyWholeFiles, RowHasItsFile, Whole, Prefix

LEMMA OneMore ==
    ASSUME NEW c, NEW n \in Nat
    PROVE  Prefix(c, n) \cup {<<c, n + 1>>} = Prefix(c, n + 1)
<1>1. \A k : k \in 1 .. n + 1 <=> k \in 1 .. n \/ k = n + 1
  OBVIOUS
<1> QED BY <1>1 DEF Prefix

\* Only the file of the request grows
LEMMA AppendKeepsInv ==
    ASSUME Inv, TypeOK', NEW r \in Requests, Append(r)
    PROVE  Inv'
<1> USE DEF table
<1>1. /\ pc[r] = "streaming" /\ fd[r] \in Requests /\ entry[Staging(r)] = fd[r]
      /\ UNCHANGED <<pc, thread, fd, entry, committed, crashes>>
      /\ \A q \in Requests \ {r} : sent'[q] = sent[q]
  BY DEF Append, Inv, EachRequest, StagingOK, TypeOK
<1>2. \A i \in Requests : i # fd[r] => data'[i] = data[i]
  BY DEF Append, Inv, TypeOK
<1>3. sent'[r] = sent[r] + 1 /\ data'[fd[r]] = Prefix(Hash(r), sent[r] + 1)
  <2>1. data[fd[r]] = Prefix(Hash(r), sent[r]) /\ sent[r] \in Nat
    BY <1>1 DEF Inv, EachRequest, StagingOK, TypeOK
  <2>2. data'[fd[r]] = data[fd[r]] \cup {<<Hash(r), sent[r] + 1>>} /\ sent'[r] = sent[r] + 1
    BY <1>1 DEF Append, Inv, TypeOK
  <2> QED BY <2>1, <2>2, OneMore
<1>4. \A p \in Paths \ {Staging(r)} : entry[p] # fd[r]
  BY <1>1, PathTypes DEF Inv, EntriesApart
<1>5. OnlyWholeFiles'
  BY <1>1, <1>2, <1>4, PathTypes DEF Inv, OnlyWholeFiles, Paths, Whole, Prefix, TypeOK
<1>6. ASSUME NEW q \in Requests PROVE StagingOK(q)'
  <2>1. CASE q = r
    BY <1>1, <1>3, <2>1 DEF Inv, EachRequest, StagingOK, Running, Staging, Hash, Prefix
  <2>2. CASE q # r
    <3>1. pc[q] \in Live => Staging(q) # Staging(r)
      BY <1>1, <2>2 DEF Inv, NamesApart, Live
    <3>2. pc[q] \in Live /\ entry[Staging(q)] # None
             => data'[entry[Staging(q)]] = data[entry[Staging(q)]]
      BY <1>2, <1>4, <3>1, PathTypes DEF Inv, TypeOK
    <3>3. StagingOK(q)
      BY DEF Inv, EachRequest
    <3> QED BY <1>1, <2>2, <3>2, <3>3 DEF StagingOK, Live, Running, Staging, Hash, Whole, Prefix
  <2> QED BY <2>1, <2>2
<1>7. \A q \in Requests : Owner(q)' /\ FinalOK(q)'
  BY <1>1 DEF Inv, EachRequest, Owner, FinalOK, Hash
<1> QED BY <1>1, <1>5, <1>6, <1>7
        DEF Inv, EachRequest, NamesApart, EntriesApart, InodesOpened, RowHasItsFile, StagingIsOwned, CancelledAtOpen, Staging

\* The thread looks at the files and decides; only where it stands changes
LEMMA LookingKeepsInv ==
    ASSUME Inv, TypeOK', NEW r \in Requests, thread[r] \in {"detect", "look"},
           NEW there, ThreadAt(r, there),
           there \in {"raised", "look", "drop", "move"},
           there = "raised" \/ (there = "look" /\ Hash(r) \notin Unrecognised) \/ thread[r] = "look",
           there = "drop" => entry[Hash(r)] # None,
           UNCHANGED <<pc, fd, sent, disk, committed, crashes>>
    PROVE  Inv'
<1> USE DEF disk
<1>1. \A q \in Requests : thread'[q] = IF q = r THEN there ELSE thread[q]
  BY DEF Inv, TypeOK, ThreadAt
<1>2. ASSUME NEW q \in Requests PROVE Owner(q)'
  BY <1>1 DEF Inv, EachRequest, Owner, Running
<1>3. ASSUME NEW q \in Requests PROVE StagingOK(q)'
  BY <1>1 DEF Inv, EachRequest, StagingOK, Running, Staging, Hash
<1>4. ASSUME NEW q \in Requests PROVE FinalOK(q)'
  BY <1>1 DEF Inv, EachRequest, FinalOK, Hash
<1>5. StagingIsOwned' /\ InodesOpened'
  BY <1>1 DEF Inv, StagingIsOwned, CancelledAtOpen, Staging, InodesOpened, TypeOK
<1> QED BY <1>2, <1>3, <1>4, <1>5 DEF Inv, EachRequest, NamesApart, EntriesApart,
                               OnlyWholeFiles, RowHasItsFile

\* The thread removes its staging file, or finds it gone, or renames it: what
\* the other requests have at their paths stays
LEMMA ThreadKeepsInv ==
    ASSUME Inv, TypeOK', ExclusiveNames, NEW r \in Requests, Drop(r) \/ Move(r)
    PROVE  Inv'
<1> USE DEF table
<1>1. /\ thread[r] \in {"drop", "move"}
      /\ UNCHANGED <<pc, fd, sent, data, committed, crashes>>
  BY DEF Drop, Move
<1>2. \A q \in Requests : q # r => thread'[q] = thread[q]
  BY DEF Inv, TypeOK, Drop, Move, ThreadAt
<1>3. thread'[r] \in {"moved", "raised"} /\ (pc[r] = "placing" => thread'[r] = "moved")
  BY <1>1 DEF Inv, TypeOK, EachRequest, StagingOK, Running, Drop, Move, ThreadAt
<1>4. \A p \in Paths \ {Staging(r), Hash(r)} : entry'[p] = entry[p]
  BY PathTypes DEF Inv, TypeOK, Drop, Move, Unlinked
<1>5. entry'[Staging(r)] = None
  BY PathTypes DEF Inv, TypeOK, Drop, Move, Unlinked
<1>6. entry'[Hash(r)] = entry[Hash(r)] \/ (entry[Staging(r)] # None /\ entry'[Hash(r)] = entry[Staging(r)])
  BY PathTypes DEF Inv, TypeOK, Drop, Move, Unlinked
<1>7. pc[r] = "placing" \/ (pc[r] = "cancelled" /\ r \in Cancellable)
  BY <1>1 DEF Inv, EachRequest, Owner, Running
<1>8. entry[Staging(r)] # None => pc[r] = "placing" /\ data[entry[Staging(r)]] = Whole(Hash(r))
  BY <1>1, <1>7 DEF Inv, EachRequest, StagingOK, Running
<1>9. thread'[r] = "moved" => entry'[Hash(r)] # None
  <2>1. CASE Drop(r)
    BY <1>6, <2>1 DEF Drop, Inv, EachRequest, FinalOK
  <2>2. CASE Move(r)
    BY <2>2, PathTypes DEF Move, Inv, TypeOK, ThreadAt
  <2> QED BY <2>1, <2>2
<1>10. \A c \in Contents : entry[c] # None => entry'[c] # None
  BY <1>4, <1>6, PathTypes DEF Paths
<1>11. NamesApart'
  BY <1>1 DEF Inv, NamesApart, Staging
<1>12. EntriesApart'
  <2> SUFFICES ASSUME NEW p \in Paths, NEW q \in Paths, p # q, entry'[p] # None
               PROVE  entry'[p] # entry'[q]
    BY DEF EntriesApart
  <2>1. p # Staging(r)
    BY <1>5
  <2>2. CASE q = Staging(r)
    BY <1>5, <2>2
  <2>3. CASE q # Staging(r) /\ p # Hash(r) /\ q # Hash(r)
    BY <1>4, <2>1, <2>3 DEF Inv, EntriesApart
  <2>4. CASE p = Hash(r) /\ q # Staging(r)
    BY <1>4, <1>6, <2>4, PathTypes DEF Inv, EntriesApart
  <2>5. CASE q = Hash(r)
    BY <1>4, <1>6, <2>1, <2>5, PathTypes DEF Inv, EntriesApart
  <2> QED BY <2>2, <2>3, <2>4, <2>5
<1>13. InodesOpened'
  BY <1>1, <1>2, <1>3, <1>4, <1>5, <1>6, PathTypes DEF Inv, InodesOpened, TypeOK
<1>14. OnlyWholeFiles'
  <2> SUFFICES ASSUME NEW c \in Contents, entry'[c] # None PROVE data[entry'[c]] = Whole(c)
    BY <1>1 DEF OnlyWholeFiles, Whole
  <2>1. c # Staging(r) /\ c \in Paths
    BY PathTypes DEF Paths
  <2>2. CASE c # Hash(r)
    BY <1>4, <2>1, <2>2 DEF Inv, OnlyWholeFiles
  <2>3. CASE c = Hash(r)
    BY <1>6, <1>8, <2>3 DEF Inv, OnlyWholeFiles
  <2> QED BY <2>2, <2>3
<1>15. RowHasItsFile'
  BY <1>1, <1>10 DEF Inv, RowHasItsFile, TypeOK
<1>16. StagingIsOwned'
  BY <1>1, <1>2, <1>4, <1>5, PathTypes DEF Inv, StagingIsOwned, CancelledAtOpen, Staging, Paths
<1>17. ASSUME NEW q \in Requests PROVE Owner(q)'
  BY <1>1, <1>2, <1>3, <1>7 DEF Inv, EachRequest, Owner, Running
<1>18. ASSUME NEW q \in Requests PROVE FinalOK(q)'
  BY <1>1, <1>2, <1>3, <1>9, <1>10, PathTypes DEF Inv, EachRequest, FinalOK, Later, Hash
<1>19. ASSUME NEW q \in Requests PROVE StagingOK(q)'
  <2>1. CASE q = r
    BY <1>1, <1>3, <1>5, <1>7, <2>1 DEF StagingOK, Running, Staging
  <2>2. CASE q # r
    <3>1. pc[q] \in Live => Staging(q) # Staging(r)
      BY <1>7, <2>2 DEF Inv, NamesApart, Live, ExclusiveNames, Staging
    <3>2. entry'[Staging(q)] = IF Staging(q) = Staging(r) THEN None ELSE entry[Staging(q)]
      BY <1>4, <1>5, PathTypes
    <3>3. StagingOK(q)
      BY DEF Inv, EachRequest
    <3> QED BY <1>1, <1>2, <2>2, <3>1, <3>2, <3>3 DEF StagingOK, Live, Running, Staging, Hash, Whole, Prefix
  <2> QED BY <2>1, <2>2
<1> QED BY <1>11, <1>12, <1>13, <1>14, <1>15, <1>16, <1>17, <1>18, <1>19 DEF Inv, EachRequest

\* The handler goes on: StartPlace with the whole file, Stored after the thread
LEMMA HandlerKeepsInv ==
    ASSUME Inv, TypeOK', NEW r \in Requests, Entered(r) \/ StartPlace(r) \/ Stored(r)
    PROVE  Inv'
<1> USE DEF disk, table
<1>1. \A q \in Requests \ {r} : pc'[q] = pc[q] /\ thread'[q] = thread[q]
  BY DEF Inv, TypeOK, Entered, StartPlace, Stored, GoTo, ThreadAt
<1>2. UNCHANGED <<fd, sent, entry, data, committed, crashes>>
  BY DEF Entered, StartPlace, Stored
<1>3. \/ /\ pc[r] = "streaming" /\ pc'[r] = "placing" /\ thread'[r] = "detect"
         /\ sent[r] = Size[Hash(r)]
      \/ pc[r] = "opening" /\ thread[r] = "opened" /\ pc'[r] = "streaming" /\ thread'[r] = "off"
      \/ pc[r] = "placing" /\ thread[r] = "moved" /\ pc'[r] = "reading" /\ thread'[r] = "moved"
  BY DEF Inv, TypeOK, Entered, StartPlace, Stored, GoTo, ThreadAt
<1>4. NamesApart'
  BY <1>1, <1>3 DEF Inv, NamesApart, Live, Staging
<1>5. InodesOpened'
  BY <1>1, <1>2, <1>3 DEF Inv, InodesOpened, TypeOK
<1>6. ASSUME NEW q \in Requests PROVE Owner(q)'
  BY <1>1, <1>2, <1>3 DEF Inv, EachRequest, Owner, Running
<1>7. ASSUME NEW q \in Requests PROVE FinalOK(q)'
  BY <1>1, <1>2, <1>3 DEF Inv, EachRequest, FinalOK, Later, Hash
<1>8. StagingOK(r)'
  <2>1. CASE pc[r] = "streaming"
    <3>1. fd[r] \in Requests /\ entry[Staging(r)] = fd[r] /\ data[fd[r]] = Prefix(Hash(r), sent[r])
      BY <2>1 DEF Inv, EachRequest, StagingOK, TypeOK
    <3>3. data[fd[r]] = Whole(Hash(r))
      BY <1>3, <2>1, <3>1 DEF Whole
    <3>4. entry[Staging(r)] # None
      BY <3>1, PathTypes
    <3> QED BY <1>2, <1>3, <2>1, <3>1, <3>3, <3>4 DEF StagingOK, Running, Staging, Hash, Whole, Prefix
  <2>2. CASE pc[r] = "placing"
    BY <1>2, <1>3, <2>2 DEF Inv, EachRequest, StagingOK, Running, Staging
  <2>3. CASE pc[r] = "opening"
    BY <1>2, <1>3, <2>3 DEF Inv, EachRequest, StagingOK, Running, Staging, Hash, Prefix
  <2> QED BY <1>3, <2>1, <2>2, <2>3
<1>9. ASSUME NEW q \in Requests, q # r PROVE StagingOK(q)'
  BY <1>1, <1>2, <1>9 DEF Inv, EachRequest, StagingOK, Running, Staging, Hash, Whole, Prefix
<1>10. StagingIsOwned'
  <2> SUFFICES ASSUME crashes = 0, NEW n \in Names, entry[n] # None
               PROVE  \E q \in Requests : Keeps(q)' /\ Staging(q) = n
    BY <1>2 DEF StagingIsOwned, Keeps, Staging
  <2>1. PICK q \in Requests : Keeps(q) /\ Staging(q) = n
    BY DEF Inv, StagingIsOwned, Keeps
  <2>2. Keeps(q)'
    BY <1>1, <1>3, <2>1 DEF Inv, EachRequest, StagingOK, Keeps, CancelledAtOpen
  <2> QED BY <2>1, <2>2
<1>11. EntriesApart' /\ OnlyWholeFiles' /\ RowHasItsFile'
  BY <1>2 DEF Inv, EntriesApart, OnlyWholeFiles, RowHasItsFile, Whole, Prefix
<1> QED BY <1>4, <1>5, <1>6, <1>7, <1>8, <1>9, <1>10, <1>11 DEF Inv, EachRequest

\* The process dies: no request and no thread is left
LEMMA CrashKeepsInv ==
    ASSUME Inv, TypeOK', Crash
    PROVE  Inv'
<1> USE DEF disk
<1>1. \A q \in Requests : /\ thread'[q] = "off"
                          /\ pc'[q] = IF pc[q] \in Live THEN "lost" ELSE pc[q]
  BY DEF Crash
<1>2. UNCHANGED <<sent, entry, data, committed>> /\ crashes' # 0
  BY DEF Crash, Inv, TypeOK
<1>3. NamesApart' /\ InodesOpened'
  BY <1>1, <1>2 DEF Inv, NamesApart, InodesOpened, Live, TypeOK
<1>4. ASSUME NEW q \in Requests PROVE Owner(q)' /\ FinalOK(q)'
  BY <1>1, <1>2 DEF Inv, EachRequest, Owner, FinalOK, Running, Later, Live
<1>5. ASSUME NEW q \in Requests PROVE StagingOK(q)'
  BY <1>1, <1>2 DEF Inv, EachRequest, StagingOK, Running, Later, Live, Staging
<1> QED BY <1>2, <1>3, <1>4, <1>5
        DEF Inv, EachRequest, EntriesApart, OnlyWholeFiles, RowHasItsFile, StagingIsOwned, Whole, Prefix

LEMMA NextInv == ExclusiveNames /\ Inv /\ [Next]_vars => Inv'
<1> SUFFICES ASSUME ExclusiveNames, Inv, [Next]_vars PROVE Inv'
  OBVIOUS
<1> USE DEF disk, table, client
<1>1. TypeOK'
  BY StepKeepsTypes DEF Inv
<1>2. ASSUME NEW r \in Requests, StoreStep(r) PROVE Inv'
  <2>1. CASE Detect(r)
    BY <1>1, <2>1, LookingKeepsInv DEF Detect
  <2>2. CASE Look(r)
    BY <1>1, <2>2, LookingKeepsInv DEF Look
  <2>3. CASE PlaceFails(r)
    <3>1. /\ pc[r] = "placing" /\ thread[r] = "raised" /\ GoTo(r, "refused")
          /\ Unlinked(Staging(r)) /\ UNCHANGED <<thread, fd, sent, data, committed, crashes>>
      BY <2>3 DEF PlaceFails
    <3> HIDE DEF disk, table, client
    <3> QED BY <1>1, <3>1, UnlinkingKeepsInv
  <2> QED BY <1>1, <1>2, <2>1, <2>2, <2>3, AppendKeepsInv, OpenKeepsInv, HandlerKeepsInv,
          ThreadKeepsInv
          DEF StoreStep
<1>3. ASSUME NEW r \in Requests, RowStep(r) PROVE Inv'
  BY <1>1, <1>3, RowStepsKeepInv
     DEF RowStep, FindRow, MissRow, Insert, LoseRace, Commit, Answered, Later
<1>4. ASSUME NEW r \in Requests, Failure(r) PROVE Inv'
  <2>1. CASE StreamFails(r)
    <3>1. /\ pc[r] = "streaming" /\ GoTo(r, "refused")
          /\ Unlinked(Staging(r)) /\ UNCHANGED <<thread, fd, sent, data, committed, crashes>>
      BY <2>1 DEF StreamFails
    <3> HIDE DEF disk, table, client
    <3> QED BY <1>1, <3>1, UnlinkingKeepsInv
  <2>2. CASE CancelStore(r)
    BY <1>1, <2>2, UnlinkingKeepsInv DEF CancelStore
  <2>3. CASE CommitUnanswered(r) \/ Abort(r) \/ CancelTransaction(r)
    BY <1>1, <2>3, RowStepsKeepInv DEF CommitUnanswered, Abort, CancelTransaction, Later
  <2> QED BY <1>1, <1>4, <2>1, <2>2, <2>3, CancelOpenKeepsInv DEF Failure
<1>5. CASE UNCHANGED vars
  BY <1>5 DEF vars, Inv, TypeOK, NamesApart, EntriesApart, InodesOpened, EachRequest, Owner, StagingOK,
              FinalOK, OnlyWholeFiles, RowHasItsFile, StagingIsOwned, CancelledAtOpen,
              Staging, Hash, Whole, Prefix
<1> QED BY <1>1, <1>2, <1>3, <1>4, <1>5, BeginKeepsInv, CrashKeepsInv DEF Next

--------------------------------------------------------------------------------
(* The theorems *)

\* What every upload finds at its paths, and what its rows and files are to each
\* other, holds whatever requests fail, are cancelled or die.
THEOREM UploadsInvariant == ASSUME ExclusiveNames PROVE Spec => []Inv
<1>1. Inv /\ [Next]_vars => Inv'
  BY NextInv
<1> QED BY <1>1, InitInv, PTL DEF Spec

\* A file at its content-addressed path is complete, whatever uploads fail, are
\* cancelled or die on the way (local_storage.py).
THEOREM FilesAreWhole == ASSUME ExclusiveNames PROVE Spec => []OnlyWholeFiles
<1>1. Inv => OnlyWholeFiles
  BY DEF Inv
<1> QED BY <1>1, UploadsInvariant, PTL

\* A committed row names a file that is there and is of a format that is read.
THEOREM RowsHaveTheirFiles == ASSUME ExclusiveNames PROVE Spec => []RowHasItsFile
<1>1. Inv => RowHasItsFile
  BY DEF Inv
<1> QED BY <1>1, UploadsInvariant, PTL

\* Until the process dies, a staging file belongs to an upload in progress or to
\* one that was cancelled while its file was being opened: nothing else that
\* fails or is cancelled leaves a file behind (local_storage.py).
THEOREM NothingIsLeftBehind == ASSUME ExclusiveNames PROVE Spec => []StagingIsOwned
<1>1. Inv => StagingIsOwned
  BY DEF Inv
<1> QED BY <1>1, UploadsInvariant, PTL

\* The files at the paths of the contents
Placed == {c \in Contents : entry[c] # None}

LEMMA PlacedIsWhole ==
    Inv => {c \in Contents : entry[c] # None /\ data[entry[c]] = Whole(c)} = Placed
BY DEF Inv, OnlyWholeFiles, Placed

\* Only the rename changes what is placed
LEMMA PlacedGrows ==
    ASSUME Inv, NEW r \in Requests, Begin(r) \/ StoreStep(r) \/ RowStep(r) \/ Failure(r)
    PROVE  Placed' = Placed \/ Placed' = Placed \cup {Hash(r)}
<1> USE DEF disk, table, client
<1>1. CASE Move(r)
  <2>1. \A c \in Contents \ {Hash(r)} : entry'[c] = entry[c]
    BY <1>1, PathTypes DEF Move, Inv, TypeOK, Paths
  <2>2. entry'[Hash(r)] = entry[Hash(r)] \/ entry'[Hash(r)] # None
    BY <1>1, PathTypes DEF Move, Inv, TypeOK
  <2> QED BY <2>1, <2>2, PathTypes DEF Placed
<1>2. CASE ~Move(r)
  <2>1. entry' = entry \/ \E i \in Requests \cup {None} : entry' = [entry EXCEPT ![Staging(r)] = i]
    BY <1>2, PathTypes
       DEF Begin, StoreStep, Open, Entered, Append, StartPlace, Detect, Look, Drop, Stored, PlaceFails, Unlinked,
           RowStep, FindRow, MissRow, Insert, LoseRace, Commit, Failure, CancelOpen, StreamFails, CancelStore,
           CommitUnanswered, Abort, CancelTransaction, Inv, TypeOK
  <2>2. \A c \in Contents : entry'[c] = entry[c]
    BY <2>1, PathTypes DEF Inv, TypeOK, Paths
  <2> QED BY <2>2 DEF Placed
<1> QED BY <1>1, <1>2

\* Disk and table behave as ContentStore: a content is placed whole, then
\* registered, and neither is taken back (upload_file.py, local_storage.py).
THEOREM Implements == ASSUME ExclusiveNames PROVE Spec => StoreSpec
<1> DEFINE whole == {c \in Contents : entry[c] # None /\ data[entry[c]] = Whole(c)}
<1>1. Init => Store!Init
  BY DEF Init, Store!Init, Paths
<1>2. ASSUME Inv, Inv', [Next]_vars PROVE [Store!Next]_Store!vars
  <2>1. whole = Placed /\ whole' = Placed'
    <3>1. whole = Placed
      BY <1>2, PlacedIsWhole
    <3>2. whole' = Placed'
      BY <1>2 DEF Inv, OnlyWholeFiles, Placed
    <3> QED BY <3>1, <3>2
  <2>2. ASSUME NEW r \in Requests, Begin(r) \/ StoreStep(r) \/ RowStep(r) \/ Failure(r)
        PROVE  [Store!Next]_Store!vars
    <3>1. CASE Commit(r) \/ CommitUnanswered(r)
      <4>1. pc[r] = "committing" /\ committed' = committed \cup {Hash(r)} /\ UNCHANGED <<entry, data>>
        BY <3>1 DEF Commit, CommitUnanswered, disk
      <4>2. Hash(r) \in Placed /\ Placed' = Placed
        BY <1>2, <4>1, PathTypes DEF Inv, EachRequest, FinalOK, Later, Placed
      <4>3. CASE Hash(r) \in committed
        BY <2>1, <4>1, <4>2, <4>3 DEF Store!vars
      <4>4. CASE Hash(r) \notin committed
        <5>1. Store!Register(Hash(r))
          BY <2>1, <4>1, <4>2, <4>4 DEF Store!Register
        <5> QED BY <5>1, PathTypes DEF Store!Next
      <4> QED BY <4>3, <4>4
    <3>2. CASE ~(Commit(r) \/ CommitUnanswered(r))
      <4>1. committed' = committed
        BY <2>2, <3>2
           DEF Begin, StoreStep, Open, Entered, Append, StartPlace, Detect, Look, Drop, Move, Stored, PlaceFails,
               RowStep, FindRow, MissRow, Insert, LoseRace, Failure, CancelOpen, StreamFails, CancelStore,
               Abort, CancelTransaction, table
      <4>2. Placed' = Placed \/ Placed' = Placed \cup {Hash(r)}
        BY <1>2, <2>2, PlacedGrows
      <4>3. CASE Placed' = Placed
        BY <2>1, <4>1, <4>3 DEF Store!vars
      <4>4. CASE Placed' = Placed \cup {Hash(r)}
        <5>1. Store!Place(Hash(r))
          BY <2>1, <4>1, <4>4 DEF Store!Place
        <5> QED BY <5>1, PathTypes DEF Store!Next
      <4> QED BY <4>2, <4>3, <4>4
    <3> QED BY <3>1, <3>2
  <2>3. CASE Crash \/ UNCHANGED vars
    <3>1. committed' = committed /\ entry' = entry
      BY <2>3 DEF Crash, vars, disk, table
    <3> QED BY <2>1, <3>1 DEF Store!vars, Placed
  <2> QED BY <1>2, <2>2, <2>3 DEF Next
<1> QED BY <1>1, <1>2, UploadsInvariant, PTL DEF Spec, StoreSpec, Store!Spec
================================================================================
