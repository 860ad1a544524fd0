---------------------------- MODULE MappingVersions ----------------------------
(***************************************************************************)
(* POST /mappings and PUT /mappings/{id}: SaveMapping on the table         *)
(* mapping, whose rows are the versions of named documents.  A save is one *)
(* READ COMMITTED transaction of several statements: what it reads are     *)
(* committed rows, what it writes is its own until it commits.  The        *)
(* document itself is absent; an invalid one is refused before any write.  *)
(***************************************************************************)
EXTENDS Naturals, FiniteSets

CONSTANTS
    Clients,    \* concurrent callers
    Names,      \* the names of the mappings of one data source
    None,
    MaxRows     \* bound: rows of the table

ASSUME BoundsAssumption == MaxRows \in Nat

Ids == 1..MaxRows

VARIABLES
    rows,       \* the committed rows of mapping
    tx,         \* the transaction each client has open, with what it wrote
    answer      \* the status code of the last answer to each client

vars == <<rows, tx, answer>>

--------------------------------------------------------------------------------
(* The table *)

Absent == [name |-> None, version |-> 0, status |-> "absent", base |-> 0]

\* base is history: the row the writer had read and replaced
Row ==
    [name : Names \cup {None}, version : Nat,
     status : {"absent", "active", "superseded"}, base : Ids \cup {0}]

Stored == {i \in Ids : rows[i] # Absent}

Versions(n) == {i \in Stored : rows[i].name = n}

IsLatest(i) == \A j \in Versions(rows[i].name) : rows[j].version <= rows[i].version

--------------------------------------------------------------------------------
(* Transactions.  replaced is the row it has superseded, inserted the row it *)
(* has added, under the id it took from the sequence.                        *)

NoTx ==
    [step |-> "none", name |-> None, base |-> 0, replaced |-> 0, id |-> 0, inserted |-> Absent]

Tx ==
    [step : {"none", "latest", "supersede", "insert", "commit"}, name : Names \cup {None},
     base : Ids \cup {0}, replaced : Ids \cup {0}, id : Ids \cup {0}, inserted : Row]

TypeOK ==
    /\ rows \in [Ids -> Row]
    /\ tx \in [Clients -> Tx]
    /\ answer \in [Clients -> {"none", "2xx", "409", "500"}]

Init ==
    /\ rows = [i \in Ids |-> Absent]
    /\ tx = [c \in Clients |-> NoTx]
    /\ answer = [c \in Clients |-> "none"]

Open(c, t) == tx' = [tx EXCEPT ![c] = t] /\ UNCHANGED <<rows, answer>>

\* The unit of work is left without a commit
Close(c, code) ==
    /\ tx' = [tx EXCEPT ![c] = NoTx]
    /\ answer' = [answer EXCEPT ![c] = code]
    /\ UNCHANGED rows

\* POST: the name is looked for among the stored mappings of the source
BeginCreate(c, n) ==
    /\ tx[c].step = "none"
    /\ Versions(n) = {}
    /\ Open(c, [NoTx EXCEPT !.step = "insert", !.name = n])

RefuseName(c, n) ==
    /\ tx[c].step = "none"
    /\ Versions(n) # {}
    /\ Close(c, "409")

\* PUT: the row the caller names is read
BeginUpdate(c, i) ==
    /\ tx[c].step = "none"
    /\ i \in Stored
    /\ Open(c, [NoTx EXCEPT !.step = "latest", !.name = rows[i].name, !.base = i])

\* SELECT max(version): an edited document that has been replaced is refused
CheckLatest(c) ==
    /\ tx[c].step = "latest"
    /\ IF IsLatest(tx[c].base)
       THEN Open(c, [tx[c] EXCEPT !.step = "supersede"])
       ELSE Close(c, "409")

\* Mutant: the previous version stays active.
SupersedeNothing(c) ==
    /\ tx[c].step = "supersede"
    /\ Open(c, [tx[c] EXCEPT !.step = "insert"])

\* Mutant: the status is written in a transaction of its own.
SupersedeAlone(c) ==
    /\ tx[c].step = "supersede"
    /\ tx' = [tx EXCEPT ![c].step = "insert"]
    /\ rows' = [rows EXCEPT ![tx[c].base].status = "superseded"]
    /\ UNCHANGED answer

\* UPDATE: waits while another transaction holds the row
Supersede(c) ==
    /\ tx[c].step = "supersede"
    /\ \A d \in Clients : tx[d].replaced # tx[c].base
    /\ Open(c, [tx[c] EXCEPT !.step = "insert", !.replaced = tx[c].base])

\* Mutant: the version is derived from the highest one stored.
NewRowAfterLatest(c) ==
    [name    |-> tx[c].name,
     version |-> Cardinality(Versions(tx[c].name)) + 1,
     status  |-> "active",
     base    |-> tx[c].base]

\* Version 1, or the one after the version that was read
NewRow(c) ==
    [name    |-> tx[c].name,
     version |-> IF tx[c].base = 0 THEN 1 ELSE rows[tx[c].base].version + 1,
     status  |-> "active",
     base    |-> tx[c].base]

\* Mutant: the table has no unique constraint.
SameKeyNever(s, t) == FALSE

\* The columns of uq_mapping_name_version, within one data source
SameKey(s, t) == s.name = t.name /\ s.version = t.version

\* INSERT: waits while another transaction has inserted the key of
\* uq_mapping_name_version, and raises IntegrityError if it is stored
Insert(c) ==
    /\ tx[c].step = "insert"
    /\ \A d \in Clients : ~SameKey(tx[d].inserted, NewRow(c))
    /\ \E i \in Ids :
        /\ rows[i] = Absent /\ \A d \in Clients : tx[d].id # i
        /\ \A j \in 1 .. i - 1 : rows[j] # Absent \/ \E d \in Clients : tx[d].id = j
        /\ IF \E j \in Stored : SameKey(rows[j], NewRow(c))
           THEN Close(c, "500")
           ELSE Open(c, [tx[c] EXCEPT !.step = "commit", !.id = i, !.inserted = NewRow(c)])

Commit(c) ==
    /\ tx[c].step = "commit"
    /\ rows' = [i \in Ids |->
          IF i = tx[c].id THEN tx[c].inserted
          ELSE IF i = tx[c].replaced THEN [rows[i] EXCEPT !.status = "superseded"]
          ELSE rows[i]]
    /\ tx' = [tx EXCEPT ![c] = NoTx]
    /\ answer' = [answer EXCEPT ![c] = "2xx"]

\* The connection is lost and Postgres rolls back
Abort(c) == tx[c].step # "none" /\ Close(c, "none")

Next ==
    \E c \in Clients :
        \/ \E n \in Names : BeginCreate(c, n) \/ RefuseName(c, n)
        \/ \E i \in Ids : BeginUpdate(c, i)
        \/ CheckLatest(c) \/ Supersede(c) \/ Insert(c) \/ Commit(c) \/ Abort(c)

Spec == Init /\ [][Next]_vars

--------------------------------------------------------------------------------
(* Properties *)

\* A named mapping has one active version at any time, the latest one, so a
\* selector that offers the active mappings offers each name once.
OneActiveVersion ==
    \A i \in Stored : rows[i].status = "active" <=> IsLatest(i)

\* Nobody's edit is overwritten unnoticed: version N + 1 was written by a
\* caller who had read version N of the same mapping.
NoSilentOverwrite ==
    \A i \in Stored :
        IF rows[i].version = 1 THEN rows[i].base = 0
        ELSE /\ rows[i].base # 0
             /\ rows[rows[i].base].name = rows[i].name
             /\ rows[rows[i].base].version + 1 = rows[i].version

\* A past import stays explainable: a stored version is never modified but for
\* its status, and it is superseded in the very step that publishes its
\* successor.
HistoryIsKept ==
    [][\A i \in Stored : rows'[i] # rows[i] =>
          /\ rows'[i] = [rows[i] EXCEPT !.status = "superseded"]
          /\ \E j \in Ids \ Stored :
                rows'[j].name = rows[i].name /\ rows'[j].version = rows[i].version + 1]_vars

\* An ordinary double click on save is not a server error: of two PUTs against
\* one version the second is answered 409.
NoServerErrorOnUpdate ==
    [][\A c \in Clients :
          tx[c].base # 0 /\ tx'[c].step = "none" => answer'[c] # "500"]_vars

\* The statements of a save, of any number of callers, behave as MappingHistory:
\* as one compare-and-set at the commit.
History == INSTANCE MappingHistory WITH
    Documents <- Ids,
    published <- [n \in Names |-> Versions(n)],
    count     <- [n \in Names |-> Cardinality(Versions(n))],
    number    <- [i \in Ids |-> rows[i].version],
    current   <- [n \in Names |-> {i \in Versions(n) : rows[i].status = "active"}],
    edit      <- [c \in Clients |->
                    IF tx[c].step = "none" THEN None
                    ELSE [name |-> tx[c].name, read |-> {tx[c].base} \ {0}]]

HistorySpec == History!Spec
================================================================================
