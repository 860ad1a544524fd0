------------------------- MODULE MappingVersionsProofs -------------------------
(***************************************************************************)
(* What the table mapping guarantees for any number of clients, names and  *)
(* rows.  The invariant rests on uq_mapping_name_version: the key that a   *)
(* transaction has inserted and not yet committed is stored nowhere, so    *)
(* the version it was derived from is still the latest at the commit.      *)
(***************************************************************************)
EXTENDS MappingVersions, FiniteSetTheorems, FunctionTheorems, TLAPS

\* The versions of a name are 1, 2, 3, ... each written once, in any order of
\* requests.
VersionsAreContiguous ==
    \A n \in Names :
        {rows[i].version : i \in Versions(n)} = 1 .. Cardinality(Versions(n))

\* The rows: what is stored is complete, and no key is stored twice
RowsAreComplete ==
    \A i \in Stored :
        rows[i].name \in Names /\ rows[i].version >= 1
        /\ rows[i].status \in {"active", "superseded"}

KeysAreUnique ==
    \A i, j \in Stored : SameKey(rows[i], rows[j]) => i = j

\* Below a stored version all the versions of its name are stored
NoVersionIsMissing ==
    \A i \in Stored : \A v \in 1 .. rows[i].version :
        \E j \in Stored : rows[j].name = rows[i].name /\ rows[j].version = v

\* A name that is stored has a latest version
SomeVersionIsLatest ==
    \A i \in Stored : \E j \in Stored : rows[j].name = rows[i].name /\ IsLatest(j)

\* The document that a row replaces is stored, one version before it
BasesAreStored ==
    \A i \in Stored :
        IF rows[i].base = 0 THEN rows[i].version = 1
        ELSE /\ rows[i].base \in Stored
             /\ rows[rows[i].base].name = rows[i].name
             /\ rows[rows[i].base].version + 1 = rows[i].version

RowsOK ==
    /\ RowsAreComplete
    /\ KeysAreUnique
    /\ NoVersionIsMissing
    /\ SomeVersionIsLatest
    /\ OneActiveVersion
    /\ BasesAreStored

\* The transactions: what each has read and written at each of its steps
BaseIsRead(c) ==
    /\ tx[c].step # "none" => tx[c].name \in Names
    /\ tx[c].step \in {"latest", "supersede"} => tx[c].base # 0
    /\ tx[c].step # "none" /\ tx[c].base # 0 =>
          tx[c].base \in Stored /\ rows[tx[c].base].name = tx[c].name

WrittenInOrder(c) ==
    /\ tx[c].step \in {"insert", "commit"} => tx[c].replaced = tx[c].base
    /\ tx[c].step \notin {"insert", "commit"} => tx[c].replaced = 0
    /\ tx[c].step # "commit" => tx[c].id = 0 /\ tx[c].inserted = Absent

InsertedIsNew(c) ==
    tx[c].step = "commit" =>
        /\ tx[c].id \in Ids
        /\ rows[tx[c].id] = Absent
        /\ tx[c].inserted = NewRow(c)
        /\ \A j \in Stored : ~SameKey(rows[j], tx[c].inserted)

Apart(c, d) ==
    tx[c].step = "commit" /\ tx[d].step = "commit" =>
        tx[c].id # tx[d].id /\ ~SameKey(tx[c].inserted, tx[d].inserted)

TxOK ==
    /\ \A c \in Clients : BaseIsRead(c) /\ WrittenInOrder(c) /\ InsertedIsNew(c)
    /\ \A c, d \in Clients : c # d => Apart(c, d)

Inv == TypeOK /\ RowsOK /\ TxOK

--------------------------------------------------------------------------------

\* A row that a transaction writes has the types of the columns.
LEMMA NewRowType ==
    ASSUME TypeOK, NEW c \in Clients
    PROVE  NewRow(c) \in Row /\ NewRow(c).version >= 1
<1>1. tx[c] \in Tx
  BY DEF TypeOK
<1>2. CASE tx[c].base = 0
  BY <1>1, <1>2 DEF NewRow, Tx, Row
<1>3. CASE tx[c].base # 0
  <2>1. rows[tx[c].base] \in Row
    BY <1>1, <1>3 DEF TypeOK, Tx
  <2>2. rows[tx[c].base].version + 1 \in Nat /\ rows[tx[c].base].version + 1 >= 1
    BY <2>1 DEF Row
  <2>3. QED
    BY <1>1, <1>3, <2>2 DEF NewRow, Tx, Row
<1>4. QED
  BY <1>2, <1>3

LEMMA NoTxType == NoTx \in Tx /\ Absent \in Row
BY DEF NoTx, Tx, Row, Absent, Ids

\* A transaction that goes on, or ends without a commit
LEMMA TypeOfTx ==
    ASSUME TypeOK, NEW c \in Clients, NEW t \in Tx,
           tx' = [tx EXCEPT ![c] = t], UNCHANGED rows,
           answer' = answer \/ answer' = [answer EXCEPT ![c] = "none"]
           \/ answer' = [answer EXCEPT ![c] = "409"] \/ answer' = [answer EXCEPT ![c] = "500"]
    PROVE  TypeOK'
BY DEF TypeOK

\* The columns keep their types whatever the clients do.
THEOREM TypeCorrect == Spec => []TypeOK
<1>1. Init => TypeOK
  BY NoTxType DEF Init, TypeOK
<1>2. TypeOK /\ [Next]_vars => TypeOK'
  <2> SUFFICES ASSUME TypeOK, [Next]_vars PROVE TypeOK'
    OBVIOUS
  <2> USE NoTxType DEF Open, Close
  <2>1. ASSUME NEW c \in Clients, NEW n \in Names, BeginCreate(c, n) PROVE TypeOK'
    <3>1. [NoTx EXCEPT !.step = "insert", !.name = n] \in Tx
      BY DEF Tx, NoTx
    <3>2. QED
      BY <2>1, <3>1, TypeOfTx DEF BeginCreate
  <2>2. ASSUME NEW c \in Clients, NEW n \in Names, RefuseName(c, n) PROVE TypeOK'
    BY <2>2, TypeOfTx DEF RefuseName
  <2>3. ASSUME NEW c \in Clients, NEW i \in Ids, BeginUpdate(c, i) PROVE TypeOK'
    <3>1. rows[i] \in Row
      BY DEF TypeOK
    <3>2. [NoTx EXCEPT !.step = "latest", !.name = rows[i].name, !.base = i] \in Tx
      BY <3>1 DEF Tx, NoTx, Row
    <3>3. QED
      BY <2>3, <3>2, TypeOfTx DEF BeginUpdate
  <2>4. ASSUME NEW c \in Clients, CheckLatest(c) PROVE TypeOK'
    <3>1. [tx[c] EXCEPT !.step = "supersede"] \in Tx
      BY DEF TypeOK, Tx
    <3>2. QED
      BY <2>4, <3>1, TypeOfTx DEF CheckLatest
  <2>5. ASSUME NEW c \in Clients, Supersede(c) PROVE TypeOK'
    <3>1. [tx[c] EXCEPT !.step = "insert", !.replaced = tx[c].base] \in Tx
      BY DEF TypeOK, Tx
    <3>2. QED
      BY <2>5, <3>1, TypeOfTx DEF Supersede
  <2>6. ASSUME NEW c \in Clients, Insert(c) PROVE TypeOK'
    <3>1. \A i \in Ids : [tx[c] EXCEPT !.step = "commit", !.id = i, !.inserted = NewRow(c)] \in Tx
      BY NewRowType DEF TypeOK, Tx
    <3>2. QED
      BY <2>6, <3>1, TypeOfTx DEF Insert
  <2>7. ASSUME NEW c \in Clients, Commit(c) PROVE TypeOK'
    <3>1. tx[c] \in Tx
      BY DEF TypeOK
    <3>2. ASSUME NEW i \in Ids PROVE [rows[i] EXCEPT !.status = "superseded"] \in Row
      BY DEF TypeOK, Row
    <3>3. rows' \in [Ids -> Row]
      BY <2>7, <3>1, <3>2 DEF Commit, TypeOK, Tx
    <3>4. QED
      BY <2>7, <3>3 DEF Commit, TypeOK
  <2>8. ASSUME NEW c \in Clients, Abort(c) PROVE TypeOK'
    BY <2>8, TypeOfTx DEF Abort
  <2>9. CASE UNCHANGED vars
    BY <2>9 DEF vars, TypeOK
  <2>10. QED
    BY <2>1, <2>2, <2>3, <2>4, <2>5, <2>6, <2>7, <2>8, <2>9 DEF Next
<1>3. QED
  BY <1>1, <1>2, PTL DEF Spec

--------------------------------------------------------------------------------

LEMMA InitInv == Init => Inv
<1> SUFFICES ASSUME Init PROVE Inv
  OBVIOUS
<1>1. TypeOK
  BY NoTxType DEF Init, TypeOK
<1>2. Stored = {}
  BY DEF Init, Stored
<1>3. RowsOK
  BY <1>2 DEF RowsOK, RowsAreComplete, KeysAreUnique, NoVersionIsMissing, SomeVersionIsLatest,
              OneActiveVersion, BasesAreStored
<1>4. TxOK
  BY DEF Init, TxOK, BaseIsRead, WrittenInOrder, InsertedIsNew, Apart, NoTx
<1>5. QED
  BY <1>1, <1>3, <1>4 DEF Inv

\* What the rows satisfy does not depend on the transactions.
LEMMA RowsStay == RowsOK /\ UNCHANGED rows => RowsOK'
BY DEF RowsOK, RowsAreComplete, KeysAreUnique, NoVersionIsMissing, SomeVersionIsLatest,
       OneActiveVersion, BasesAreStored, Stored, Versions, IsLatest, SameKey

\* A statement of c concerns the transaction of c.
LEMMA OneStatement ==
    ASSUME Inv, NEW c \in Clients, NEW t \in Tx, UNCHANGED rows, tx' = [tx EXCEPT ![c] = t],
           BaseIsRead(c)', WrittenInOrder(c)', InsertedIsNew(c)',
           \A d \in Clients \ {c} : Apart(c, d)'
    PROVE  TxOK'
<1>1. tx'[c] = t /\ \A d \in Clients \ {c} : tx'[d] = tx[d]
  BY DEF Inv, TypeOK
<1>2. Stored' = Stored
  BY DEF Stored
<1>3. ASSUME NEW d \in Clients \ {c}
      PROVE  BaseIsRead(d)' /\ WrittenInOrder(d)' /\ InsertedIsNew(d)'
  BY <1>1, <1>2, <1>3 DEF Inv, TxOK, BaseIsRead, WrittenInOrder, InsertedIsNew, NewRow, SameKey
<1>4. ASSUME NEW d \in Clients, NEW e \in Clients, d # e PROVE Apart(d, e)'
  <2>1. CASE d = c
    BY <1>4, <2>1
  <2>2. CASE e = c
    <3>1. Apart(c, d)'
      BY <1>4, <2>2
    <3>2. QED
      BY <2>2, <3>1 DEF Apart, SameKey
  <2>3. CASE d # c /\ e # c
    BY <1>1, <1>4, <2>3 DEF Inv, TxOK, Apart, SameKey
  <2>4. QED
    BY <2>1, <2>2, <2>3
<1>5. QED
  BY <1>3, <1>4 DEF TxOK

\* The version after the one a transaction has read is free until it commits: what
\* it inserts is newer than every stored version of its name, and the version it
\* replaces is still the latest.
LEMMA NothingNewerIsStored ==
    ASSUME Inv, NEW c \in Clients, tx[c].step = "commit",
           NEW j \in Stored, rows[j].name = tx[c].name
    PROVE  /\ rows[j].version < NewRow(c).version
           /\ tx[c].base # 0
           /\ rows[j].version <= rows[tx[c].base].version
<1> DEFINE b == tx[c].base
<1>1. tx[c] \in Tx /\ rows[j] \in Row /\ rows[j].version \in Nat
  BY DEF Inv, TypeOK, Stored, Row
<1>2. \A i \in Stored : ~(rows[i].name = tx[c].name /\ rows[i].version = NewRow(c).version)
  <2>1. NewRow(c).name = tx[c].name
    BY DEF NewRow
  <2>2. InsertedIsNew(c)
    BY DEF Inv, TxOK
  <2>3. QED
    BY <2>1, <2>2 DEF InsertedIsNew, SameKey
<1>3. \A v \in 1 .. rows[j].version :
          \E i \in Stored : rows[i].name = tx[c].name /\ rows[i].version = v
  BY DEF Inv, RowsOK, NoVersionIsMissing
<1>4. NewRow(c).version \notin 1 .. rows[j].version
  BY <1>2, <1>3
<1>5. NewRow(c).version \in Nat /\ NewRow(c).version >= 1
  BY NewRowType DEF Inv, Row
<1>6. rows[j].version < NewRow(c).version
  BY <1>1, <1>4, <1>5
<1>7. rows[j].version >= 1
  BY DEF Inv, RowsOK, RowsAreComplete
<1>8. b # 0
  BY <1>1, <1>6, <1>7 DEF NewRow
<1>9. rows[b] \in Row /\ NewRow(c).version = rows[b].version + 1
  BY <1>1, <1>8 DEF NewRow, Inv, TypeOK, Tx
<1>10. rows[b].version \in Nat
  BY <1>9 DEF Row
<1>11. QED
  BY <1>1, <1>6, <1>8, <1>9, <1>10

--------------------------------------------------------------------------------
(* A commit *)

\* The rows a commit leaves: the inserted one, the version it replaces, and the
\* others as they were.
LEMMA CommittedRows ==
    ASSUME Inv, NEW c \in Clients, Commit(c)
    PROVE  /\ tx[c].id \in Ids \ Stored
           /\ Stored' = Stored \cup {tx[c].id}
           /\ rows'[tx[c].id] = NewRow(c)
           /\ tx[c].base # 0 =>
                 /\ tx[c].base \in Stored
                 /\ rows[tx[c].base].name = tx[c].name
                 /\ rows'[tx[c].base] = [rows[tx[c].base] EXCEPT !.status = "superseded"]
           /\ \A i \in Ids \ {tx[c].id, tx[c].base} : rows'[i] = rows[i]
           /\ \A i \in Stored :
                 /\ rows'[i].name = rows[i].name
                 /\ rows'[i].version = rows[i].version
                 /\ rows'[i].base = rows[i].base
<1> DEFINE k == tx[c].id
           b == tx[c].base
<1>1. tx[c].step = "commit" /\ tx[c].replaced = b /\ tx[c].inserted = NewRow(c)
      /\ k \in Ids \ Stored /\ rows[k] = Absent
  <2>1. tx[c].step = "commit"
    BY DEF Commit
  <2>2. WrittenInOrder(c) /\ InsertedIsNew(c)
    BY DEF Inv, TxOK
  <2>3. QED
    BY <2>1, <2>2 DEF WrittenInOrder, InsertedIsNew, Stored
<1>2. b # 0 => b \in Stored /\ rows[b].name = tx[c].name
  <2>1. BaseIsRead(c)
    BY DEF Inv, TxOK
  <2>2. QED
    BY <1>1, <2>1 DEF BaseIsRead
<1>3. rows'[k] = NewRow(c)
  BY <1>1 DEF Commit
<1>4. b # 0 => rows'[b] = [rows[b] EXCEPT !.status = "superseded"]
  BY <1>1, <1>2 DEF Commit, Stored
<1>5. \A i \in Ids \ {k, b} : rows'[i] = rows[i]
  BY <1>1 DEF Commit
<1>6. \A i \in Ids : rows[i] \in Row
  BY DEF Inv, TypeOK
<1>7. \A i \in Stored : /\ rows'[i].name = rows[i].name
                        /\ rows'[i].version = rows[i].version
                        /\ rows'[i].base = rows[i].base
  <2> SUFFICES ASSUME NEW i \in Stored
               PROVE  /\ rows'[i].name = rows[i].name
                      /\ rows'[i].version = rows[i].version
                      /\ rows'[i].base = rows[i].base
    OBVIOUS
  <2>1. i \in Ids /\ i # k
    BY <1>1 DEF Stored
  <2>2. CASE i = b
    BY <1>2, <1>4, <1>6, <2>1, <2>2 DEF Row, Ids
  <2>3. CASE i # b
    BY <1>5, <2>1, <2>3
  <2>4. QED
    BY <2>2, <2>3
<1>8. \A i \in Stored : rows[i].version >= 1
  BY DEF Inv, RowsOK, RowsAreComplete
<1>9. Absent.version = 0 /\ NewRow(c).version >= 1
  BY NewRowType DEF Absent, Inv
<1>10. Stored' = Stored \cup {k}
  <2>1. \A i \in Stored : rows'[i] # Absent
    BY <1>7, <1>8, <1>9
  <2>2. rows'[k] # Absent
    BY <1>3, <1>9
  <2>3. \A i \in Ids : i \notin Stored /\ i # k => rows'[i] = Absent
    BY <1>2, <1>5 DEF Stored, Ids
  <2>4. \A i : i \in Stored' <=> i \in Ids /\ rows'[i] # Absent
    BY DEF Stored, Ids
  <2>5. QED
    BY <1>1, <2>1, <2>2, <2>3, <2>4 DEF Stored
<1>11. QED
  BY <1>1, <1>2, <1>3, <1>4, <1>5, <1>7, <1>10

LEMMA CommitKeepsRows ==
    ASSUME Inv, NEW c \in Clients, Commit(c)
    PROVE  RowsOK'
<1> DEFINE k == tx[c].id
           b == tx[c].base
           m == NewRow(c)
<1>1. /\ k \in Ids \ Stored
      /\ Stored' = Stored \cup {k}
      /\ rows'[k] = m
      /\ b # 0 => /\ b \in Stored
                  /\ rows[b].name = tx[c].name
                  /\ rows'[b] = [rows[b] EXCEPT !.status = "superseded"]
      /\ \A i \in Ids \ {k, b} : rows'[i] = rows[i]
      /\ \A i \in Stored : /\ rows'[i].name = rows[i].name
                           /\ rows'[i].version = rows[i].version
                           /\ rows'[i].base = rows[i].base
  BY CommittedRows
<1>2. /\ m.name = tx[c].name /\ m.status = "active" /\ m.base = b
      /\ m.version = IF b = 0 THEN 1 ELSE rows[b].version + 1
  BY DEF NewRow
<1>3. /\ \A i \in Stored : rows[i].version \in Nat /\ rows[i] \in Row
      /\ m.version \in Nat /\ m.version >= 1
  BY NewRowType DEF Inv, TypeOK, Stored, Row
<1>4. tx[c].step = "commit" /\ tx[c].name \in Names
  BY DEF Commit, Inv, TxOK, BaseIsRead
<1>5. \A j \in Stored : rows[j].name = tx[c].name =>
          rows[j].version < m.version /\ b # 0 /\ rows[j].version <= rows[b].version
  BY <1>4, NothingNewerIsStored
<1>6. RowsAreComplete /\ KeysAreUnique /\ NoVersionIsMissing /\ SomeVersionIsLatest
      /\ OneActiveVersion /\ BasesAreStored
  BY DEF Inv, RowsOK
<1>7. \A i \in Stored : IF i = b THEN rows'[i].status = "superseded"
                        ELSE rows'[i].status = rows[i].status
  <2> SUFFICES ASSUME NEW i \in Stored
               PROVE  IF i = b THEN rows'[i].status = "superseded"
                      ELSE rows'[i].status = rows[i].status
    OBVIOUS
  <2>1. CASE i = b
    <3>1. b # 0
      BY <2>1 DEF Stored, Ids
    <3>2. QED
      BY <1>1, <1>3, <2>1, <3>1 DEF Row
  <2>2. CASE i # b
    <3>1. i \in Ids \ {k, b}
      BY <1>1, <2>2 DEF Stored
    <3>2. QED
      BY <1>1, <2>2, <3>1
  <2>3. QED
    BY <2>1, <2>2
<1> HIDE DEF k, b, m
<1>8. RowsAreComplete'
  BY <1>1, <1>2, <1>3, <1>4, <1>6, <1>7 DEF RowsAreComplete
<1>9. KeysAreUnique'
  BY <1>1, <1>2, <1>3, <1>5, <1>6 DEF KeysAreUnique, SameKey
<1>10. NoVersionIsMissing'
  <2>1. ASSUME NEW i \in Stored, NEW v \in 1 .. rows'[i].version
        PROVE  \E j \in Stored' : rows'[j].name = rows'[i].name /\ rows'[j].version = v
    <3>1. PICK j \in Stored : rows[j].name = rows[i].name /\ rows[j].version = v
      BY <1>1, <1>6, <2>1 DEF NoVersionIsMissing
    <3>2. QED
      BY <1>1, <3>1
  <2>2. ASSUME NEW v \in 1 .. m.version
        PROVE  \E j \in Stored' : rows'[j].name = m.name /\ rows'[j].version = v
    <3>1. CASE v = m.version
      BY <1>1, <3>1
    <3>2. CASE v # m.version
      <4>1. b # 0 /\ b \in Stored /\ v \in 1 .. rows[b].version
        BY <1>1, <1>2, <1>3, <2>2, <3>2
      <4>2. PICK j \in Stored : rows[j].name = rows[b].name /\ rows[j].version = v
        BY <1>6, <4>1 DEF NoVersionIsMissing
      <4>3. QED
        BY <1>1, <1>2, <4>1, <4>2
    <3>3. QED
      BY <3>1, <3>2
  <2>3. QED
    BY <1>1, <2>1, <2>2 DEF NoVersionIsMissing
<1>11. \A i \in Stored' :
          IsLatest(i)' <=> \A j \in Stored' : rows'[j].name = rows'[i].name =>
                               rows'[j].version <= rows'[i].version
  BY DEF IsLatest, Versions
<1>12. \A i \in Stored :
          IsLatest(i) <=> \A j \in Stored : rows[j].name = rows[i].name =>
                               rows[j].version <= rows[i].version
  BY DEF IsLatest, Versions
<1>13. \A i \in Stored' : i = k => IsLatest(i)'
  BY <1>1, <1>2, <1>3, <1>5, <1>11
<1>14. \A i \in Stored : IsLatest(i)' <=> rows[i].name # m.name /\ IsLatest(i)
  BY <1>1, <1>2, <1>3, <1>5, <1>11, <1>12
<1>15. SomeVersionIsLatest'
  <2>1. ASSUME NEW i \in Stored'
        PROVE  \E j \in Stored' : rows'[j].name = rows'[i].name /\ IsLatest(j)'
    <3>1. CASE rows'[i].name = m.name
      BY <1>1, <1>13, <3>1
    <3>2. CASE rows'[i].name # m.name
      <4>1. i \in Stored /\ rows[i].name # m.name
        BY <1>1, <2>1, <3>2
      <4>2. PICK j \in Stored : rows[j].name = rows[i].name /\ IsLatest(j)
        BY <1>6, <4>1 DEF SomeVersionIsLatest
      <4>3. QED
        BY <1>1, <1>14, <4>1, <4>2
    <3>3. QED
      BY <3>1, <3>2
  <2>2. QED
    BY <2>1 DEF SomeVersionIsLatest
<1>16. OneActiveVersion'
  <2>1. ASSUME NEW i \in Stored PROVE rows'[i].status = "active" <=> IsLatest(i)'
    <3>1. CASE rows[i].name # m.name
      <4>1. i # b
        BY <1>1, <1>2, <3>1 DEF Stored, Ids
      <4>2. QED
        BY <1>6, <1>7, <1>14, <3>1, <4>1 DEF OneActiveVersion
    <3>2. CASE rows[i].name = m.name /\ i = b
      BY <1>7, <1>14, <3>2
    <3>3. CASE rows[i].name = m.name /\ i # b
      <4>1. b # 0 /\ b \in Stored /\ rows[b].name = rows[i].name
            /\ rows[i].version <= rows[b].version
        BY <1>1, <1>2, <1>5, <3>3
      <4>2. rows[i].version # rows[b].version
        BY <1>6, <3>3, <4>1 DEF KeysAreUnique, SameKey
      <4>3. ~IsLatest(i)
        BY <1>3, <1>12, <4>1, <4>2
      <4>4. QED
        BY <1>6, <1>7, <1>14, <3>3, <4>3 DEF OneActiveVersion
    <3>4. QED
      BY <3>1, <3>2, <3>3
  <2>2. QED
    BY <1>1, <1>2, <1>13, <2>1 DEF OneActiveVersion
<1>17. BasesAreStored'
  BY <1>1, <1>2, <1>3, <1>6 DEF BasesAreStored
<1>18. QED
  BY <1>8, <1>9, <1>10, <1>15, <1>16, <1>17 DEF RowsOK

LEMMA CommitKeepsTransactions ==
    ASSUME Inv, NEW c \in Clients, Commit(c)
    PROVE  TxOK'
<1>1. /\ tx[c].id \in Ids \ Stored
      /\ Stored' = Stored \cup {tx[c].id}
      /\ rows'[tx[c].id] = NewRow(c)
      /\ tx[c].base # 0 => tx[c].base \in Stored
      /\ \A i \in Ids \ {tx[c].id, tx[c].base} : rows'[i] = rows[i]
      /\ \A i \in Stored : /\ rows'[i].name = rows[i].name
                           /\ rows'[i].version = rows[i].version
                           /\ rows'[i].base = rows[i].base
  BY CommittedRows
<1>2. tx[c].step = "commit" /\ tx[c].inserted = NewRow(c)
  BY DEF Commit, Inv, TxOK, InsertedIsNew
<1>3. tx'[c] = NoTx /\ \A d \in Clients \ {c} : tx'[d] = tx[d]
  BY DEF Commit, Inv, TypeOK
<1>4. BaseIsRead(c)' /\ WrittenInOrder(c)' /\ InsertedIsNew(c)'
  BY <1>3 DEF BaseIsRead, WrittenInOrder, InsertedIsNew, NoTx
<1>5. ASSUME NEW d \in Clients \ {c}
      PROVE  BaseIsRead(d)' /\ WrittenInOrder(d)' /\ InsertedIsNew(d)'
  <2>1. tx'[d] = tx[d] /\ BaseIsRead(d) /\ WrittenInOrder(d) /\ InsertedIsNew(d) /\ Apart(c, d)
    BY <1>3 DEF Inv, TxOK
  <2>2. BaseIsRead(d)' /\ WrittenInOrder(d)'
    BY <1>1, <2>1 DEF BaseIsRead, WrittenInOrder
  <2>3. ASSUME tx[d].step = "commit"
        PROVE  /\ rows'[tx[d].id] = Absent
               /\ tx[d].inserted = NewRow(d)'
               /\ \A j \in Stored' : ~SameKey(rows'[j], tx[d].inserted)
    <3>1. tx[d].id \in Ids \ {tx[c].id, tx[c].base} /\ rows[tx[d].id] = Absent
      BY <1>1, <1>2, <2>1, <2>3 DEF InsertedIsNew, Apart, Stored, Ids
    <3>2. NewRow(d)' = NewRow(d)
      <4>1. tx[d].base # 0 => rows'[tx[d].base].version = rows[tx[d].base].version
        BY <1>1, <2>1, <2>3 DEF BaseIsRead
      <4>2. QED
        BY <2>1, <4>1 DEF NewRow
    <3>3. ~SameKey(NewRow(c), tx[d].inserted)
      BY <1>2, <2>1, <2>3 DEF Apart
    <3>4. \A j \in Stored : ~SameKey(rows[j], tx[d].inserted)
      BY <2>1, <2>3 DEF InsertedIsNew
    <3>5. QED
      BY <1>1, <2>1, <2>3, <3>1, <3>2, <3>3, <3>4 DEF InsertedIsNew, SameKey
  <2>4. QED
    BY <2>1, <2>2, <2>3 DEF InsertedIsNew
<1>6. \A d, e \in Clients : d # e => Apart(d, e)'
  BY <1>3 DEF Inv, TxOK, Apart, SameKey, NoTx
<1>7. QED
  BY <1>4, <1>5, <1>6 DEF TxOK

--------------------------------------------------------------------------------

\* A statement, or the end of a transaction without a commit, writes no row.
LEMMA StatementsKeepInv ==
    ASSUME Inv, TypeOK', NEW c \in Clients, NEW t \in Tx, UNCHANGED rows,
           tx' = [tx EXCEPT ![c] = t],
           BaseIsRead(c)', WrittenInOrder(c)', t.step # "commit"
    PROVE  Inv'
<1>1. tx'[c] = t
  BY DEF Inv, TypeOK
<1>2. InsertedIsNew(c)' /\ \A d \in Clients \ {c} : Apart(c, d)'
  BY <1>1 DEF InsertedIsNew, Apart
<1>3. QED
  BY <1>2, OneStatement, RowsStay DEF Inv

LEMMA EndsKeepInv ==
    ASSUME Inv, TypeOK', NEW c \in Clients, NEW code, Close(c, code)
    PROVE  Inv'
<1>1. tx'[c] = NoTx
  BY DEF Close, Inv, TypeOK
<1>2. BaseIsRead(c)' /\ WrittenInOrder(c)'
  BY <1>1 DEF BaseIsRead, WrittenInOrder, NoTx
<1>3. NoTx.step # "commit"
  BY DEF NoTx
<1>4. QED
  BY <1>2, <1>3, NoTxType, StatementsKeepInv DEF Close

\* The inserted key is that of no stored row and of no other transaction.
LEMMA InsertKeepsInv ==
    ASSUME Inv, TypeOK', NEW c \in Clients, Insert(c)
    PROVE  Inv'
<1>1. CASE Close(c, "500")
  BY <1>1, EndsKeepInv
<1>2. CASE ~Close(c, "500")
  <2> DEFINE t(i) == [tx[c] EXCEPT !.step = "commit", !.id = i, !.inserted = NewRow(c)]
  <2>1. PICK i \in Ids :
           /\ rows[i] = Absent /\ \A d \in Clients : tx[d].id # i
           /\ ~\E j \in Stored : SameKey(rows[j], NewRow(c))
           /\ Open(c, t(i))
    BY <1>2 DEF Insert
  <2>2. tx[c].step = "insert" /\ \A d \in Clients : ~SameKey(tx[d].inserted, NewRow(c))
    BY DEF Insert
  <2>3. tx[c] \in Tx /\ t(i) \in Tx
    <3>1. tx[c] \in Tx
      BY DEF Inv, TypeOK
    <3>2. NewRow(c) \in Row
      BY NewRowType DEF Inv
    <3>3. QED
      BY <2>1, <3>1, <3>2 DEF Tx
  <2>4. /\ tx' = [tx EXCEPT ![c] = t(i)] /\ tx'[c] = t(i) /\ UNCHANGED rows
        /\ \A d \in Clients \ {c} : tx'[d] = tx[d]
    BY <2>1 DEF Open, Inv, TypeOK
  <2>5. /\ t(i).step = "commit" /\ t(i).id = i /\ t(i).inserted = NewRow(c)
        /\ t(i).name = tx[c].name /\ t(i).base = tx[c].base
        /\ t(i).replaced = tx[c].replaced
    BY <2>3 DEF Tx
  <2>6. Stored' = Stored /\ NewRow(c)' = NewRow(c)
    BY <2>4, <2>5 DEF Stored, NewRow
  <2> HIDE DEF t
  <2>7. BaseIsRead(c)' /\ WrittenInOrder(c)'
    BY <2>2, <2>4, <2>5, <2>6 DEF Inv, TxOK, BaseIsRead, WrittenInOrder
  <2>8. InsertedIsNew(c)'
    BY <2>1, <2>4, <2>5, <2>6 DEF InsertedIsNew, SameKey
  <2>9. \A d \in Clients \ {c} : Apart(c, d)'
    BY <2>1, <2>2, <2>4, <2>5 DEF Apart, SameKey
  <2>10. TxOK'
    BY <2>3, <2>4, <2>7, <2>8, <2>9, OneStatement
  <2>11. QED
    BY <2>4, <2>10, RowsStay DEF Inv
<1>3. QED
  BY <1>1, <1>2

LEMMA NextInv == Inv /\ TypeOK' /\ [Next]_vars => Inv'
<1> SUFFICES ASSUME Inv, TypeOK', [Next]_vars PROVE Inv'
  OBVIOUS
<1>1. ASSUME NEW c \in Clients, NEW n \in Names, BeginCreate(c, n) PROVE Inv'
  <2> DEFINE t == [NoTx EXCEPT !.step = "insert", !.name = n]
  <2>1. t \in Tx /\ t.step = "insert" /\ t.name = n /\ t.base = 0 /\ t.replaced = 0
        /\ t.id = 0 /\ t.inserted = Absent
    BY NoTxType DEF Tx, NoTx
  <2>2. tx' = [tx EXCEPT ![c] = t] /\ tx'[c] = t /\ UNCHANGED rows
    BY <1>1 DEF BeginCreate, Open, Inv, TypeOK
  <2> HIDE DEF t
  <2>3. BaseIsRead(c)' /\ WrittenInOrder(c)'
    BY <2>1, <2>2 DEF BaseIsRead, WrittenInOrder
  <2>4. QED
    BY <2>1, <2>2, <2>3, StatementsKeepInv
<1>2. ASSUME NEW c \in Clients, NEW n \in Names, RefuseName(c, n) PROVE Inv'
  BY <1>2, EndsKeepInv DEF RefuseName
<1>3. ASSUME NEW c \in Clients, NEW i \in Ids, BeginUpdate(c, i) PROVE Inv'
  <2> DEFINE t == [NoTx EXCEPT !.step = "latest", !.name = rows[i].name, !.base = i]
  <2>1. i \in Stored /\ rows[i].name \in Names
    BY <1>3 DEF BeginUpdate, Inv, RowsOK, RowsAreComplete
  <2>2. t \in Tx /\ t.step = "latest" /\ t.name = rows[i].name /\ t.base = i
        /\ t.replaced = 0 /\ t.id = 0 /\ t.inserted = Absent
    BY <2>1, NoTxType DEF Tx, NoTx
  <2>3. tx' = [tx EXCEPT ![c] = t] /\ tx'[c] = t /\ UNCHANGED rows /\ Stored' = Stored
    BY <1>3 DEF BeginUpdate, Open, Inv, TypeOK, Stored
  <2> HIDE DEF t
  <2>4. BaseIsRead(c)' /\ WrittenInOrder(c)'
    BY <2>1, <2>2, <2>3 DEF BaseIsRead, WrittenInOrder, Stored, Ids
  <2>5. QED
    BY <2>2, <2>3, <2>4, StatementsKeepInv
<1>4. ASSUME NEW c \in Clients, CheckLatest(c) PROVE Inv'
  <2>1. CASE Close(c, "409")
    BY <2>1, EndsKeepInv
  <2>2. CASE ~Close(c, "409")
    <3> DEFINE t == [tx[c] EXCEPT !.step = "supersede"]
    <3>1. tx[c].step = "latest" /\ Open(c, t)
      BY <1>4, <2>2 DEF CheckLatest
    <3>2. t \in Tx /\ t.step = "supersede" /\ t.name = tx[c].name /\ t.base = tx[c].base
          /\ t.replaced = tx[c].replaced
          /\ t.id = tx[c].id /\ t.inserted = tx[c].inserted
      <4>1. tx[c] \in Tx
        BY DEF Inv, TypeOK
      <4>2. QED
        BY <4>1 DEF Tx
    <3>3. tx' = [tx EXCEPT ![c] = t] /\ tx'[c] = t /\ UNCHANGED rows /\ Stored' = Stored
      BY <3>1 DEF Open, Inv, TypeOK, Stored
    <3> HIDE DEF t
    <3>4. BaseIsRead(c)' /\ WrittenInOrder(c)'
      BY <3>1, <3>2, <3>3 DEF Inv, TxOK, BaseIsRead, WrittenInOrder
    <3>5. QED
      BY <3>2, <3>3, <3>4, StatementsKeepInv
  <2>3. QED
    BY <2>1, <2>2
<1>5. ASSUME NEW c \in Clients, Supersede(c) PROVE Inv'
  <2> DEFINE t == [tx[c] EXCEPT !.step = "insert", !.replaced = tx[c].base]
  <2>1. tx[c].step = "supersede" /\ Open(c, t)
    BY <1>5 DEF Supersede
  <2>2. t \in Tx /\ t.step = "insert" /\ t.name = tx[c].name /\ t.base = tx[c].base
        /\ t.replaced = tx[c].base /\ t.id = tx[c].id /\ t.inserted = tx[c].inserted
    <3>1. tx[c] \in Tx
      BY DEF Inv, TypeOK
    <3>2. QED
      BY <3>1 DEF Tx
  <2>3. tx' = [tx EXCEPT ![c] = t] /\ tx'[c] = t /\ UNCHANGED rows /\ Stored' = Stored
    BY <2>1 DEF Open, Inv, TypeOK, Stored
  <2> HIDE DEF t
  <2>4. BaseIsRead(c)' /\ WrittenInOrder(c)'
    BY <2>1, <2>2, <2>3 DEF Inv, TxOK, BaseIsRead, WrittenInOrder
  <2>5. QED
    BY <2>2, <2>3, <2>4, StatementsKeepInv
<1>6. ASSUME NEW c \in Clients, Insert(c) PROVE Inv'
  BY <1>6, InsertKeepsInv
<1>7. ASSUME NEW c \in Clients, Commit(c) PROVE Inv'
  BY <1>7, CommitKeepsRows, CommitKeepsTransactions DEF Inv
<1>8. ASSUME NEW c \in Clients, Abort(c) PROVE Inv'
  BY <1>8, EndsKeepInv DEF Abort
<1>9. CASE UNCHANGED vars
  BY <1>9, RowsStay
     DEF vars, Inv, TxOK, BaseIsRead, WrittenInOrder, InsertedIsNew, Apart, NewRow, Stored, SameKey
<1>10. QED
  BY <1>1, <1>2, <1>3, <1>4, <1>5, <1>6, <1>7, <1>8, <1>9 DEF Next

\* The inductive invariant: what the rows and the open transactions are to one
\* another at any point between two statements.
THEOREM VersionsInvariant == Spec => []Inv
<1>1. Spec => []TypeOK
  BY TypeCorrect
<1>2. QED
  BY <1>1, InitInv, NextInv, PTL DEF Spec

\* For any number of concurrent creations and updates, lost at any point, each name
\* has one active version, the latest.
THEOREM OneActive == Spec => []OneActiveVersion
<1>1. Inv => OneActiveVersion
  BY DEF Inv, RowsOK
<1>2. QED
  BY <1>1, VersionsInvariant, PTL

\* No edit is overwritten by a caller who has not read it.
THEOREM NothingOverwritten == Spec => []NoSilentOverwrite
<1>1. Inv => NoSilentOverwrite
  <2> SUFFICES ASSUME Inv, NEW i \in Stored
               PROVE  IF rows[i].version = 1 THEN rows[i].base = 0
                      ELSE /\ rows[i].base # 0
                           /\ rows[rows[i].base].name = rows[i].name
                           /\ rows[rows[i].base].version + 1 = rows[i].version
    BY DEF NoSilentOverwrite
  <2>1. IF rows[i].base = 0 THEN rows[i].version = 1
        ELSE /\ rows[i].base \in Stored
             /\ rows[rows[i].base].name = rows[i].name
             /\ rows[rows[i].base].version + 1 = rows[i].version
    BY DEF Inv, RowsOK, BasesAreStored
  <2>2. \A j \in Stored : rows[j].version \in Nat /\ rows[j].version >= 1
    BY DEF Inv, RowsOK, RowsAreComplete, TypeOK, Stored, Row
  <2>3. QED
    BY <2>1, <2>2
<1>2. QED
  BY <1>1, VersionsInvariant, PTL

\* Versions are numbered without a gap and without a repetition: the number of the
\* latest one is the number of the rows of its name.
LEMMA Contiguous == Inv => VersionsAreContiguous
<1> SUFFICES ASSUME Inv, NEW n \in Names
             PROVE  {rows[i].version : i \in Versions(n)} = 1 .. Cardinality(Versions(n))
  BY DEF VersionsAreContiguous
<1>1. CASE Versions(n) = {}
  <2>1. Cardinality(Versions(n)) = 0
    BY <1>1, FS_EmptySet
  <2>2. 1 .. 0 = {}
    OBVIOUS
  <2>3. QED
    BY <1>1, <2>1, <2>2
<1>2. CASE Versions(n) # {}
  <2>1. PICK k \in Versions(n) : IsLatest(k)
    BY <1>2 DEF Inv, RowsOK, SomeVersionIsLatest, Versions
  <2> DEFINE m == rows[k].version
             f == [v \in 1 .. m |-> CHOOSE j \in Versions(n) : rows[j].version = v]
  <2>2. \A i \in Versions(n) : rows[i].version \in 1 .. m
    BY <2>1 DEF Inv, RowsOK, RowsAreComplete, IsLatest, Versions, TypeOK, Stored, Row
  <2>3. m \in Nat
    BY <2>1, <2>2
  <2>4. \A v \in 1 .. m : \E j \in Versions(n) : rows[j].version = v
    BY <2>1 DEF Inv, RowsOK, NoVersionIsMissing, Versions
  <2>5. \A v \in 1 .. m : f[v] \in Versions(n) /\ rows[f[v]].version = v
    BY <2>4
  <2>6. \A i, j \in Versions(n) : rows[i].version = rows[j].version => i = j
    BY DEF Inv, RowsOK, KeysAreUnique, SameKey, Versions
  <2>7. f \in [1 .. m -> Versions(n)]
    BY <2>5
  <2> HIDE DEF f, m
  <2>8. f \in Bijection(1 .. m, Versions(n))
    <3>1. \A v, w \in 1 .. m : f[v] = f[w] => v = w
      BY <2>5
    <3>2. \A i \in Versions(n) : \E v \in 1 .. m : f[v] = i
      BY <2>2, <2>5, <2>6
    <3>3. QED
      BY <2>7, <3>1, <3>2, Fun_IsBij
  <2>9. IsFiniteSet(1 .. m) /\ Cardinality(1 .. m) = m
    BY <2>3, FS_Interval
  <2>10. Cardinality(Versions(n)) = m
    BY <2>8, <2>9, FS_Bijection, Fun_ExistsBij
  <2>11. {rows[i].version : i \in Versions(n)} = 1 .. m
    BY <2>2, <2>4
  <2>12. QED
    BY <2>10, <2>11
<1>3. QED
  BY <1>1, <1>2

\* Whatever the order of the requests, the versions of a name are 1, 2, 3, ...
THEOREM NumberedWithoutGaps == Spec => []VersionsAreContiguous
BY Contiguous, VersionsInvariant, PTL

\* A stored version changes only when its successor is published, in the same step,
\* and only its status does.
THEOREM PastVersionsStay == Spec => HistoryIsKept
<1> DEFINE Kept ==
      \A i \in Stored : rows'[i] # rows[i] =>
          /\ rows'[i] = [rows[i] EXCEPT !.status = "superseded"]
          /\ \E j \in Ids \ Stored :
                rows'[j].name = rows[i].name /\ rows'[j].version = rows[i].version + 1
<1>1. ASSUME Inv, NEW c \in Clients, Commit(c) PROVE Kept
  <2> SUFFICES ASSUME NEW i \in Stored, rows'[i] # rows[i]
               PROVE  /\ rows'[i] = [rows[i] EXCEPT !.status = "superseded"]
                      /\ \E j \in Ids \ Stored :
                            rows'[j].name = rows[i].name /\ rows'[j].version = rows[i].version + 1
    OBVIOUS
  <2>1. i = tx[c].base /\ i # 0
    <3>1. tx[c].id \in Ids \ Stored /\ \A j \in Ids \ {tx[c].id, tx[c].base} : rows'[j] = rows[j]
      BY <1>1, CommittedRows
    <3>2. i \in Ids /\ i # tx[c].id
      BY <3>1 DEF Stored
    <3>3. QED
      BY <3>1, <3>2 DEF Ids
  <2>2. NewRow(c).name = tx[c].name /\ NewRow(c).version = rows[i].version + 1
    BY <2>1 DEF NewRow
  <2>3. QED
    BY <1>1, <2>1, <2>2, CommittedRows
<1>2. Next => UNCHANGED rows \/ \E c \in Clients : Commit(c)
  BY DEF Next, BeginCreate, RefuseName, BeginUpdate, CheckLatest, Supersede, Insert, Abort,
         Open, Close
<1>3. Inv /\ [Next]_vars => [Kept]_vars
  BY <1>1, <1>2
<1>4. QED
  BY <1>3, VersionsInvariant, PTL DEF Spec, HistoryIsKept

--------------------------------------------------------------------------------
(* The compare-and-set *)

\* The state that MappingHistory sees
Published == [n \in Names |-> Versions(n)]

Count == [n \in Names |-> Cardinality(Versions(n))]

Number == [i \in Ids |-> rows[i].version]

InForce(n) == {i \in Versions(n) : rows[i].status = "active"}

Current == [n \in Names |-> InForce(n)]

EditOf(t) ==
    IF t.step = "none" THEN None ELSE [name |-> t.name, read |-> {t.base} \ {0}]

Edits == [c \in Clients |-> EditOf(tx[c])]

\* What a transaction replaces is, when it commits, what is in force: the version it
\* has read, or nothing for a name that is created.
LEMMA ReadIsInForce ==
    ASSUME Inv, NEW c \in Clients, tx[c].step = "commit"
    PROVE  InForce(tx[c].name) = {tx[c].base} \ {0}
<1> DEFINE b == tx[c].base
<1>1. \A j \in Versions(tx[c].name) : b # 0 /\ rows[j].version <= rows[b].version
  BY NothingNewerIsStored DEF Versions
<1>2. b # 0 => b \in Versions(tx[c].name) /\ b \in Stored
  BY DEF Inv, TxOK, BaseIsRead, Versions
<1>3. CASE b = 0
  BY <1>1, <1>3 DEF InForce
<1>4. CASE b # 0
  <2>1. IsLatest(b)
    BY <1>1, <1>2, <1>4 DEF IsLatest, Versions
  <2>2. rows[b].status = "active"
    BY <1>2, <1>4, <2>1 DEF Inv, RowsOK, OneActiveVersion
  <2>3. ASSUME NEW j \in Versions(tx[c].name), rows[j].status = "active" PROVE j = b
    <3>1. IsLatest(j) /\ j \in Stored /\ rows[j].name = rows[b].name
      BY <1>2, <1>4, <2>3 DEF Inv, RowsOK, OneActiveVersion, Versions
    <3>2. rows[b].version <= rows[j].version /\ rows[j].version <= rows[b].version
      BY <1>1, <1>2, <1>4, <3>1 DEF IsLatest, Versions
    <3>3. rows[b].version \in Nat /\ rows[j].version \in Nat
      BY <1>2, <1>4, <3>1 DEF Inv, TypeOK, Row, Stored
    <3>4. SameKey(rows[j], rows[b])
      BY <3>1, <3>2, <3>3 DEF SameKey
    <3>5. QED
      BY <1>2, <1>4, <3>1, <3>4 DEF Inv, RowsOK, KeysAreUnique
  <2>4. QED
    BY <1>2, <1>4, <2>2, <2>3 DEF InForce
<1>5. QED
  BY <1>3, <1>4

LEMMA VersionsAreFinite == \A n : IsFiniteSet(Versions(n))
<1> TAKE n
<1>1. IsFiniteSet(Ids)
  BY BoundsAssumption, FS_Interval DEF Ids
<1>2. Versions(n) \subseteq Ids
  BY DEF Versions, Stored
<1>3. QED
  BY <1>1, <1>2, FS_Subset

\* The version that is inserted is one more than the versions its name has at the
\* commit, although it was derived from a row read before.
LEMMA NumberIsNext ==
    ASSUME Inv, NEW c \in Clients, tx[c].step = "commit"
    PROVE  NewRow(c).version = Cardinality(Versions(tx[c].name)) + 1
<1> DEFINE b == tx[c].base
           n == tx[c].name
           last == Cardinality(Versions(n))
<1>1. \A j \in Versions(n) : b # 0 /\ rows[j].version <= rows[b].version
  BY NothingNewerIsStored DEF Versions
<1>2. n \in Names /\ (b # 0 => b \in Versions(n))
  BY DEF Inv, TxOK, BaseIsRead, Versions
<1>3. CASE b = 0
  <2>1. Versions(n) = {}
    BY <1>1, <1>3
  <2>2. last = 0
    BY <2>1, FS_EmptySet
  <2>3. QED
    BY <1>3, <2>2 DEF NewRow
<1>4. CASE b # 0
  <2>1. last \in Nat
    BY VersionsAreFinite, FS_CardinalityType
  <2>2. {rows[i].version : i \in Versions(n)} = 1 .. last
    BY <1>2, Contiguous DEF VersionsAreContiguous
  <2>3. rows[b].version \in 1 .. last
    BY <1>2, <1>4, <2>2
  <2>4. last \in 1 .. last
    BY <2>1, <2>3
  <2>5. PICK j \in Versions(n) : rows[j].version = last
    BY <2>2, <2>4
  <2>6. last <= rows[b].version
    BY <1>1, <2>5
  <2>7. rows[b].version = last
    BY <2>1, <2>3, <2>6
  <2>8. QED
    BY <1>4, <2>7 DEF NewRow
<1>5. QED
  BY <1>3, <1>4

LEMMA RowsAreTheHistory == UNCHANGED rows => UNCHANGED <<Published, Count, Number, Current>>
BY DEF Published, Count, Number, Current, InForce, Versions, Stored

LEMMA EditsOfOthersStay ==
    ASSUME TypeOK, NEW c \in Clients, NEW t, tx' = [tx EXCEPT ![c] = t]
    PROVE  Edits' = [Edits EXCEPT ![c] = EditOf(t)]
BY DEF TypeOK, Edits, EditOf

\* A statement of a transaction is not seen.
LEMMA StatementIsAStutter ==
    ASSUME TypeOK, NEW c \in Clients, NEW t, Open(c, t), tx[c].step # "none",
           t.step # "none", t.name = tx[c].name, t.base = tx[c].base
    PROVE  UNCHANGED <<Published, Count, Number, Current, Edits>>
<1>1. EditOf(t) = EditOf(tx[c])
  BY DEF EditOf
<1>2. Edits' = [Edits EXCEPT ![c] = EditOf(t)]
  BY EditsOfOthersStay DEF Open
<1>3. Edits[c] = EditOf(tx[c]) /\ Edits = [d \in Clients |-> Edits[d]]
  BY DEF Edits
<1>4. Edits' = Edits
  BY <1>1, <1>2, <1>3
<1>5. QED
  BY <1>4, RowsAreTheHistory DEF Open

\* Nor is a transaction that ends without a commit, but for its edit.
LEMMA EndIsAbandoned ==
    ASSUME TypeOK, NEW c \in Clients, NEW code, Close(c, code)
    PROVE  History!Abandon(c)
<1>1. EditOf(NoTx) = None
  BY DEF EditOf, NoTx
<1>2. Edits' = [Edits EXCEPT ![c] = None]
  BY <1>1, EditsOfOthersStay DEF Close
<1>3. UNCHANGED <<Published, Count, Number, Current>>
  BY RowsAreTheHistory DEF Close
<1>4. QED
  BY <1>2, <1>3 DEF History!Abandon, Published, Count, Number, Current, InForce, Edits, EditOf

\* A transaction begins with an edit of what it has read.
LEMMA BeginIsAnEdit ==
    ASSUME TypeOK, NEW c \in Clients, NEW n \in Names, NEW t, tx[c].step = "none",
           Open(c, t), t.step # "none", t.name = n,
           \/ t.base \in Versions(n)
           \/ t.base = 0 /\ Versions(n) = {}
    PROVE  History!Edit(c, n)
<1> DEFINE read == {t.base} \ {0}
<1>1. Edits[c] = None
  BY DEF Edits, EditOf
<1>2. Edits' = [Edits EXCEPT ![c] = [name |-> n, read |-> read]]
  <2>1. EditOf(t) = [name |-> n, read |-> read]
    BY DEF EditOf
  <2>2. QED
    BY <2>1, EditsOfOthersStay DEF Open
<1>3. Published[n] = Versions(n)
  BY DEF Published
<1>4. read \in {{d} : d \in Published[n]}
              \cup (IF Published[n] = {} THEN {{}} ELSE {})
  <2>1. CASE t.base \in Versions(n)
    <3>1. t.base # 0
      BY <2>1 DEF Versions, Stored, Ids
    <3>2. read = {t.base}
      BY <3>1
    <3>3. QED
      BY <1>3, <2>1, <3>2
  <2>2. CASE t.base = 0 /\ Versions(n) = {}
    BY <1>3, <2>2
  <2>3. QED
    BY <2>1, <2>2
<1>5. UNCHANGED <<Published, Count, Number, Current>>
  BY RowsAreTheHistory DEF Open
<1> HIDE DEF read
<1>6. QED
  BY <1>1, <1>2, <1>4, <1>5
     DEF History!Edit, Published, Count, Number, Current, InForce, Edits, EditOf

\* The rows a commit leaves, as MappingHistory sees them.
LEMMA CommittedHistory ==
    ASSUME Inv, NEW c \in Clients, NEW n \in Names, NEW k \in Ids, Commit(c),
           n = tx[c].name, k = tx[c].id
    PROVE  /\ \A m \in Names : k \notin Published[m]
           /\ Published' = [Published EXCEPT ![n] = @ \cup {k}]
           /\ Count' = [Count EXCEPT ![n] = @ + 1]
           /\ Number' = [Number EXCEPT ![k] = Count[n] + 1]
           /\ Current' = [Current EXCEPT ![n] = {k}]
<1> DEFINE b == tx[c].base
<1>1. /\ k \in Ids \ Stored
      /\ Stored' = Stored \cup {k}
      /\ rows'[k] = NewRow(c)
      /\ b # 0 => /\ b \in Stored
                  /\ rows[b].name = n
                  /\ rows'[b] = [rows[b] EXCEPT !.status = "superseded"]
      /\ \A i \in Ids \ {k, b} : rows'[i] = rows[i]
      /\ \A i \in Stored : /\ rows'[i].name = rows[i].name
                           /\ rows'[i].version = rows[i].version
                           /\ rows'[i].base = rows[i].base
  BY CommittedRows
<1>2. tx[c].step = "commit"
  BY DEF Commit
<1>3. NewRow(c).name = n /\ NewRow(c).status = "active"
  BY DEF NewRow
<1>4. NewRow(c).version = Cardinality(Versions(n)) + 1
  BY <1>2, NumberIsNext
<1>5. InForce(n) = {b} \ {0}
  BY <1>2, ReadIsInForce
<1> HIDE DEF b
<1>6. \A m \in Names : Versions(m)' = IF m = n THEN Versions(m) \cup {k} ELSE Versions(m)
  BY <1>1, <1>3 DEF Versions
<1>7. \A m \in Names : k \notin Versions(m)
  BY <1>1 DEF Versions
<1>8. \A i \in Stored : IF i = b THEN rows'[i].status = "superseded"
                        ELSE rows'[i].status = rows[i].status
  <2> SUFFICES ASSUME NEW i \in Stored
               PROVE  IF i = b THEN rows'[i].status = "superseded"
                      ELSE rows'[i].status = rows[i].status
    OBVIOUS
  <2>1. i \in Ids /\ i # k /\ i # 0
    BY <1>1 DEF Stored, Ids
  <2>2. rows[i] \in Row
    BY <2>1 DEF Inv, TypeOK
  <2>3. CASE i = b
    BY <1>1, <2>1, <2>2, <2>3 DEF Row
  <2>4. CASE i # b
    BY <1>1, <2>1, <2>4
  <2>5. QED
    BY <2>3, <2>4
<1>9. \A m \in Names : InForce(m)' = IF m = n THEN {k} ELSE InForce(m)
  <2>1. ASSUME NEW i \in Versions(n) PROVE rows'[i].status # "active"
    <3>1. i \in Stored /\ i # 0
      BY DEF Versions, Stored, Ids
    <3>2. CASE i = b
      BY <1>8, <3>1, <3>2
    <3>3. CASE i # b
      BY <1>5, <1>8, <3>1, <3>3 DEF InForce
    <3>4. QED
      BY <3>2, <3>3
  <2>2. InForce(n)' = {k}
    BY <1>1, <1>3, <1>6, <2>1 DEF InForce
  <2>3. ASSUME NEW m \in Names, m # n PROVE InForce(m)' = InForce(m)
    <3>1. Versions(m)' = Versions(m)
      BY <1>6, <2>3
    <3>2. \A i \in Versions(m) : i \in Stored /\ i # b
      BY <1>1, <2>3 DEF Versions, Stored, Ids
    <3>3. QED
      BY <1>8, <3>1, <3>2 DEF InForce
  <2>4. QED
    BY <2>2, <2>3
<1>10. \A i \in Ids : rows'[i].version = IF i = k THEN NewRow(c).version ELSE rows[i].version
  <2> SUFFICES ASSUME NEW i \in Ids, i # k PROVE rows'[i].version = rows[i].version
    BY <1>1
  <2>1. CASE i \in Stored
    BY <1>1, <2>1
  <2>2. CASE i \notin Stored
    <3>1. i # b
      BY <1>1, <2>2 DEF Ids
    <3>2. QED
      BY <1>1, <3>1
  <2>3. QED
    BY <2>1, <2>2
<1>11. Published' = [Published EXCEPT ![n] = @ \cup {k}]
  BY <1>6 DEF Published
<1>12. Number' = [Number EXCEPT ![k] = Count[n] + 1]
  <2>1. n \in Names
    BY <1>2 DEF Inv, TxOK, BaseIsRead
  <2>2. Count[n] = Cardinality(Versions(n))
    BY <2>1 DEF Count
  <2>3. QED
    BY <1>4, <1>10, <2>2 DEF Number
<1>13. Current' = [Current EXCEPT ![n] = {k}]
  BY <1>9 DEF Current
<1>14. Count' = [Count EXCEPT ![n] = @ + 1]
  <2>1. \A m \in Names : IsFiniteSet(Versions(m))
    BY VersionsAreFinite
  <2>2. \A m \in Names : Cardinality(Versions(m) \cup {k}) = Cardinality(Versions(m)) + 1
    BY <1>7, <2>1, FS_AddElement
  <2>3. \A m \in Names : Cardinality(Versions(m)') =
                             IF m = n THEN Cardinality(Versions(m)) + 1 ELSE Cardinality(Versions(m))
    BY <1>6, <2>2
  <2>4. QED
    BY <2>3 DEF Count
<1>15. QED
  BY <1>7, <1>11, <1>12, <1>13, <1>14 DEF Published

LEMMA CommitIsPublish ==
    ASSUME Inv, NEW c \in Clients, Commit(c)
    PROVE  \E n \in Names, k \in Ids : History!Publish(c, n, k)
<1> SUFFICES ASSUME NEW n \in Names, NEW k \in Ids, n = tx[c].name, k = tx[c].id
             PROVE  History!Publish(c, n, k)
  <2>1. tx[c].name \in Names /\ tx[c].id \in Ids
    BY CommittedRows DEF Commit, Inv, TxOK, BaseIsRead
  <2>2. QED
    BY <2>1
<1>1. tx[c].step = "commit"
  BY DEF Commit
<1>2. /\ \A m \in Names : k \notin Published[m]
      /\ Published' = [Published EXCEPT ![n] = @ \cup {k}]
      /\ Count' = [Count EXCEPT ![n] = @ + 1]
      /\ Number' = [Number EXCEPT ![k] = Count[n] + 1]
      /\ Current' = [Current EXCEPT ![n] = {k}]
  BY SMTT(30), CommittedHistory
<1>3. Published[n] = Versions(n) /\ Current[n] = {tx[c].base} \ {0}
  BY <1>1, ReadIsInForce DEF Published, Current
<1>4. Edits[c] = [name |-> n, read |-> Current[n]]
  BY <1>1, <1>3 DEF Edits, EditOf
<1>5. Edits' = [Edits EXCEPT ![c] = None]
  <2>1. EditOf(NoTx) = None
    BY DEF EditOf, NoTx
  <2>2. QED
    BY <2>1, EditsOfOthersStay DEF Commit, Inv
<1>6. QED
  BY <1>2, <1>4, <1>5
     DEF History!Publish, Published, Count, Number, Current, InForce, Edits, EditOf

LEMMA StepImplements == Inv /\ [Next]_vars => [History!Next]_(History!vars)
<1> SUFFICES ASSUME Inv, [Next]_vars PROVE [History!Next]_(History!vars)
  OBVIOUS
<1>1. TypeOK
  BY DEF Inv
<1>2. ASSUME UNCHANGED <<Published, Count, Number, Current, Edits>> PROVE UNCHANGED History!vars
  BY <1>2 DEF History!vars, Published, Count, Number, Current, InForce, Edits, EditOf
<1>3. ASSUME NEW c \in Clients, NEW n \in Names, BeginCreate(c, n) PROVE History!Next
  <2> DEFINE t == [NoTx EXCEPT !.step = "insert", !.name = n]
  <2>1. t.step = "insert" /\ t.name = n /\ t.base = 0
    BY DEF NoTx
  <2>2. tx[c].step = "none" /\ Versions(n) = {} /\ Open(c, t)
    BY <1>3 DEF BeginCreate
  <2> HIDE DEF t
  <2>3. History!Edit(c, n)
    BY <1>1, <2>1, <2>2, BeginIsAnEdit
  <2>4. QED
    BY <2>3 DEF History!Next
<1>4. ASSUME NEW c \in Clients, NEW code, Close(c, code) PROVE History!Next
  BY <1>1, <1>4, EndIsAbandoned DEF History!Next
<1>5. ASSUME NEW c \in Clients, NEW i \in Ids, BeginUpdate(c, i) PROVE History!Next
  <2>1. i \in Stored
    BY <1>5 DEF BeginUpdate
  <2>2. PICK m \in Names : m = rows[i].name
    BY <2>1 DEF Inv, RowsOK, RowsAreComplete
  <2> DEFINE t == [NoTx EXCEPT !.step = "latest", !.name = m, !.base = i]
  <2>3. t.step = "latest" /\ t.name = m /\ t.base = i
    BY DEF NoTx
  <2>4. tx[c].step = "none" /\ Open(c, t)
    BY <1>5, <2>2 DEF BeginUpdate
  <2>5. i \in Versions(m)
    BY <2>1, <2>2 DEF Versions
  <2> HIDE DEF t
  <2>6. History!Edit(c, m)
    BY <1>1, <2>3, <2>4, <2>5, BeginIsAnEdit
  <2>7. QED
    BY <2>6 DEF History!Next
<1>6. ASSUME NEW c \in Clients, NEW t \in Tx, Open(c, t), tx[c].step # "none",
             t.step # "none", t.name = tx[c].name, t.base = tx[c].base
      PROVE  UNCHANGED History!vars
  BY <1>1, <1>2, <1>6, StatementIsAStutter
<1>7. ASSUME NEW c \in Clients PROVE tx[c] \in Tx
  BY DEF Inv, TypeOK
<1>8. ASSUME NEW c \in Clients, CheckLatest(c), ~Close(c, "409") PROVE UNCHANGED History!vars
  <2> DEFINE t == [tx[c] EXCEPT !.step = "supersede"]
  <2>1. t \in Tx /\ t.step = "supersede" /\ t.name = tx[c].name /\ t.base = tx[c].base
    BY <1>7 DEF Tx
  <2>2. tx[c].step = "latest" /\ Open(c, t)
    BY <1>8 DEF CheckLatest
  <2> HIDE DEF t
  <2>3. QED
    BY <1>6, <2>1, <2>2
<1>9. ASSUME NEW c \in Clients, Supersede(c) PROVE UNCHANGED History!vars
  <2> DEFINE t == [tx[c] EXCEPT !.step = "insert", !.replaced = tx[c].base]
  <2>1. t \in Tx /\ t.step = "insert" /\ t.name = tx[c].name /\ t.base = tx[c].base
    BY <1>7 DEF Tx
  <2>2. tx[c].step = "supersede" /\ Open(c, t)
    BY <1>9 DEF Supersede
  <2> HIDE DEF t
  <2>3. QED
    BY <1>6, <2>1, <2>2
<1>10. ASSUME NEW c \in Clients, Insert(c), ~Close(c, "500") PROVE UNCHANGED History!vars
  <2> DEFINE t(i) == [tx[c] EXCEPT !.step = "commit", !.id = i, !.inserted = NewRow(c)]
  <2>1. PICK i \in Ids : Open(c, t(i))
    BY <1>10 DEF Insert
  <2>2. tx[c].step = "insert" /\ NewRow(c) \in Row
    BY <1>1, <1>10, NewRowType DEF Insert
  <2>3. t(i) \in Tx /\ t(i).step = "commit" /\ t(i).name = tx[c].name /\ t(i).base = tx[c].base
    BY <1>7, <2>2 DEF Tx
  <2> HIDE DEF t
  <2>4. QED
    BY <1>6, <2>1, <2>2, <2>3
<1>11. ASSUME NEW c \in Clients, Commit(c) PROVE History!Next
  BY <1>11, CommitIsPublish DEF History!Next
<1>12. CASE UNCHANGED vars
  <2>1. UNCHANGED <<Published, Count, Number, Current>>
    BY <1>12, RowsAreTheHistory DEF vars
  <2>2. Edits' = Edits
    BY <1>12 DEF vars, Edits, EditOf
  <2>3. QED
    BY <1>2, <2>1, <2>2
<1>13. CASE Next
  BY <1>3, <1>4, <1>5, <1>8, <1>9, <1>10, <1>11, <1>13 DEF Next, RefuseName, Abort
<1>14. QED
  BY <1>12, <1>13

\* For any number of callers, names and rows the statements of SaveMapping, which
\* interleave, are one compare-and-set: a commit finds in force what its
\* transaction had read, and replaces it by the next version.
THEOREM SavesAreAtomic == Spec => HistorySpec
<1>1. Init => History!Init
  <2> SUFFICES ASSUME Init PROVE History!Init
    OBVIOUS
  <2>1. Stored = {} /\ \A n \in Names : Versions(n) = {}
    BY DEF Init, Stored, Versions
  <2>2. \A i \in Ids : rows[i].version = 0
    BY DEF Init, Absent
  <2>3. \A c \in Clients : tx[c].step = "none"
    BY DEF Init, NoTx
  <2>4. QED
    BY <2>1, <2>2, <2>3, FS_EmptySet DEF History!Init
<1>2. QED
  BY <1>1, StepImplements, VersionsInvariant, PTL DEF Spec, HistorySpec, History!Spec

--------------------------------------------------------------------------------
(* Who is answered a server error *)

\* At no time are two saves of one name open.
NoOverlap ==
    \A c, d \in Clients :
        c # d /\ tx[c].step # "none" /\ tx[d].step # "none" => tx[c].name # tx[d].name

\* What a transaction has found of its name is still true when it inserts.
FoundIsTrue(c) ==
    /\ tx[c].step \in {"supersede", "insert"} /\ tx[c].base # 0 => IsLatest(tx[c].base)
    /\ tx[c].step = "insert" /\ tx[c].base = 0 => Versions(tx[c].name) = {}

EachFindsTheTruth == \A c \in Clients : FoundIsTrue(c)

\* A save whose insertion finds its key in the table did not find the truth: the
\* other rows of its name are older than the version it inserts.
LEMMA KeyIsFree ==
    ASSUME Inv, NEW c \in Clients, tx[c].step = "insert", FoundIsTrue(c), NEW j \in Stored
    PROVE  ~SameKey(rows[j], NewRow(c))
<1> DEFINE b == tx[c].base
<1>1. CASE rows[j].name # tx[c].name
  BY <1>1 DEF SameKey, NewRow
<1>2. CASE rows[j].name = tx[c].name
  <2>1. j \in Versions(tx[c].name)
    BY <1>2 DEF Versions
  <2>2. b # 0 /\ IsLatest(b)
    BY <2>1 DEF FoundIsTrue
  <2>3. b \in Stored /\ rows[b].name = tx[c].name
    BY <2>2 DEF Inv, TxOK, BaseIsRead
  <2>4. rows[j].version <= rows[b].version
    BY <2>1, <2>2, <2>3 DEF IsLatest
  <2>5. rows[j].version \in Nat /\ rows[b].version \in Nat
    BY <2>3 DEF Inv, TypeOK, Row, Stored
  <2>6. NewRow(c).version = rows[b].version + 1
    BY <2>2 DEF NewRow
  <2>7. QED
    BY <2>4, <2>5, <2>6 DEF SameKey
<1>3. QED
  BY <1>1, <1>2

\* While no row is written, only the one who goes on can be misled.
LEMMA OthersStillFind ==
    ASSUME Inv, EachFindsTheTruth, NEW c \in Clients, NEW t, UNCHANGED rows,
           tx' = [tx EXCEPT ![c] = t], FoundIsTrue(c)'
    PROVE  EachFindsTheTruth'
<1>1. ASSUME NEW d \in Clients \ {c} PROVE FoundIsTrue(d)'
  <2>1. tx'[d] = tx[d] /\ FoundIsTrue(d)
    BY <1>1 DEF Inv, TypeOK, EachFindsTheTruth
  <2>2. QED
    BY <2>1 DEF FoundIsTrue, IsLatest, Versions, Stored
<1>2. QED
  BY <1>1 DEF EachFindsTheTruth

LEMMA EndedFindsNothing ==
    ASSUME Inv, EachFindsTheTruth, NEW c \in Clients, NEW code, Close(c, code)
    PROVE  EachFindsTheTruth'
<1>1. tx'[c] = NoTx
  BY DEF Close, Inv, TypeOK
<1>2. FoundIsTrue(c)'
  BY <1>1 DEF FoundIsTrue, NoTx
<1>3. QED
  BY <1>2, OthersStillFind DEF Close

\* A commit adds a version to the name of its transaction, which no other one saves.
LEMMA CommitMisleadsNobody ==
    ASSUME Inv, NoOverlap, EachFindsTheTruth, NEW c \in Clients, Commit(c)
    PROVE  EachFindsTheTruth'
<1> DEFINE k == tx[c].id
           n == tx[c].name
<1>1. /\ Stored' = Stored \cup {k}
      /\ rows'[k].name = n
      /\ \A i \in Stored : rows'[i].name = rows[i].name /\ rows'[i].version = rows[i].version
  <2>1. NewRow(c).name = n
    BY DEF NewRow
  <2>2. QED
    BY <2>1, CommittedRows
<1>2. tx[c].step = "commit" /\ tx'[c] = NoTx /\ \A d \in Clients \ {c} : tx'[d] = tx[d]
  BY DEF Commit, Inv, TypeOK
<1>3. k \notin Stored
  BY CommittedRows
<1> HIDE DEF k, n
<1>4. ASSUME NEW m, m # n PROVE Versions(m)' = Versions(m)
  BY <1>1, <1>4 DEF Versions
<1>5. ASSUME NEW d \in Clients \ {c} PROVE FoundIsTrue(d)'
  <2>1. tx'[d] = tx[d] /\ FoundIsTrue(d)
    BY <1>2 DEF EachFindsTheTruth
  <2>2. SUFFICES ASSUME tx[d].step \in {"supersede", "insert"} PROVE FoundIsTrue(d)'
    BY <2>1 DEF FoundIsTrue
  <2>3. tx[d].name # n
    BY <1>2, <2>2 DEF NoOverlap, n
  <2>4. Versions(tx[d].name)' = Versions(tx[d].name)
    BY <1>4, <2>1, <2>3
  <2>5. ASSUME tx[d].base # 0 PROVE IsLatest(tx[d].base)'
    <3>1. tx[d].base \in Stored /\ rows[tx[d].base].name = tx[d].name /\ IsLatest(tx[d].base)
      BY <2>1, <2>2, <2>5 DEF Inv, TxOK, BaseIsRead, FoundIsTrue
    <3>2. rows'[tx[d].base].name = tx[d].name
          /\ rows'[tx[d].base].version = rows[tx[d].base].version
      BY <1>1, <3>1
    <3>3. \A j \in Versions(tx[d].name) : rows'[j].version = rows[j].version
      BY <1>1 DEF Versions
    <3>4. QED
      BY <2>1, <2>4, <3>1, <3>2, <3>3 DEF IsLatest
  <2>6. QED
    BY <2>1, <2>4, <2>5 DEF FoundIsTrue
<1>6. FoundIsTrue(c)'
  BY <1>2 DEF FoundIsTrue, NoTx
<1>7. QED
  BY <1>5, <1>6 DEF EachFindsTheTruth

LEMMA NextFinds == Inv /\ NoOverlap /\ EachFindsTheTruth /\ [Next]_vars => EachFindsTheTruth'
<1> SUFFICES ASSUME Inv, NoOverlap, EachFindsTheTruth, [Next]_vars PROVE EachFindsTheTruth'
  OBVIOUS
<1>1. ASSUME NEW c \in Clients, NEW t, Open(c, t)
      PROVE  tx'[c] = t /\ tx' = [tx EXCEPT ![c] = t] /\ UNCHANGED rows
             /\ Stored' = Stored /\ \A n : Versions(n)' = Versions(n)
  BY <1>1 DEF Open, Inv, TypeOK, Versions, Stored
<1>2. ASSUME NEW c \in Clients, NEW code, Close(c, code) PROVE EachFindsTheTruth'
  BY <1>2, EndedFindsNothing
<1>3. ASSUME NEW c \in Clients, NEW t, Open(c, t),
             \/ t.step \in {"latest", "commit"}
             \/ t.step = "insert" /\ t.base = 0 /\ Versions(t.name) = {}
             \/ t.step \in {"supersede", "insert"} /\ t.base # 0 /\ IsLatest(t.base)
      PROVE  EachFindsTheTruth'
  <2>1. tx'[c] = t /\ UNCHANGED rows /\ \A n : Versions(n)' = Versions(n)
    BY <1>1, <1>3
  <2>2. FoundIsTrue(c)'
    BY <1>3, <2>1 DEF FoundIsTrue, IsLatest
  <2>3. QED
    BY <1>1, <1>3, <2>2, OthersStillFind
<1>4. ASSUME NEW c \in Clients PROVE tx[c] \in Tx /\ FoundIsTrue(c)
  BY DEF Inv, TypeOK, EachFindsTheTruth
<1>5. ASSUME NEW c \in Clients, NEW n \in Names, BeginCreate(c, n) PROVE EachFindsTheTruth'
  <2> DEFINE t == [NoTx EXCEPT !.step = "insert", !.name = n]
  <2>1. t.step = "insert" /\ t.base = 0 /\ t.name = n
    BY DEF NoTx
  <2>2. Open(c, t) /\ Versions(n) = {}
    BY <1>5 DEF BeginCreate
  <2> HIDE DEF t
  <2>3. QED
    BY <1>3, <2>1, <2>2
<1>6. ASSUME NEW c \in Clients, NEW i \in Ids, BeginUpdate(c, i) PROVE EachFindsTheTruth'
  <2> DEFINE t == [NoTx EXCEPT !.step = "latest", !.name = rows[i].name, !.base = i]
  <2>1. t.step = "latest" /\ Open(c, t)
    BY <1>6 DEF BeginUpdate, NoTx
  <2> HIDE DEF t
  <2>2. QED
    BY <1>3, <2>1
<1>7. ASSUME NEW c \in Clients, CheckLatest(c), ~Close(c, "409") PROVE EachFindsTheTruth'
  <2> DEFINE t == [tx[c] EXCEPT !.step = "supersede"]
  <2>1. t.step = "supersede" /\ t.base = tx[c].base
    BY <1>4 DEF Tx
  <2>2. tx[c].step = "latest" /\ IsLatest(tx[c].base) /\ Open(c, t)
    BY <1>7 DEF CheckLatest
  <2>3. tx[c].base # 0
    BY <2>2 DEF Inv, TxOK, BaseIsRead
  <2> HIDE DEF t
  <2>4. QED
    BY <1>3, <2>1, <2>2, <2>3
<1>8. ASSUME NEW c \in Clients, Supersede(c) PROVE EachFindsTheTruth'
  <2> DEFINE t == [tx[c] EXCEPT !.step = "insert", !.replaced = tx[c].base]
  <2>1. t.step = "insert" /\ t.base = tx[c].base
    BY <1>4 DEF Tx
  <2>2. tx[c].step = "supersede" /\ Open(c, t)
    BY <1>8 DEF Supersede
  <2>3. tx[c].base # 0 /\ IsLatest(tx[c].base)
    BY <1>4, <2>2 DEF Inv, TxOK, BaseIsRead, FoundIsTrue
  <2> HIDE DEF t
  <2>4. QED
    BY <1>3, <2>1, <2>2, <2>3
<1>9. ASSUME NEW c \in Clients, Insert(c), ~Close(c, "500") PROVE EachFindsTheTruth'
  <2> DEFINE t(i) == [tx[c] EXCEPT !.step = "commit", !.id = i, !.inserted = NewRow(c)]
  <2>1. PICK i \in Ids : Open(c, t(i))
    BY <1>9 DEF Insert
  <2>2. t(i).step = "commit"
    BY <1>4 DEF Tx
  <2> HIDE DEF t
  <2>3. QED
    BY <1>3, <2>1, <2>2
<1>10. ASSUME NEW c \in Clients, Commit(c) PROVE EachFindsTheTruth'
  BY <1>10, CommitMisleadsNobody
<1>11. CASE UNCHANGED vars
  BY <1>11 DEF vars, EachFindsTheTruth, FoundIsTrue, IsLatest, Versions, Stored
<1>12. QED
  BY <1>2, <1>5, <1>6, <1>7, <1>8, <1>9, <1>10, <1>11 DEF Next, RefuseName, Abort

\* The finding of mappings_double_click is the only one of its kind: as long as no
\* two saves of one name are open at a time, whatever the callers of other names
\* do, no save is answered 500.
THEOREM OnlyRacesAreErrors ==
    Spec /\ []NoOverlap =>
        [][\A c \in Clients :
              tx[c].step # "none" /\ tx'[c].step = "none" => answer'[c] # "500"]_vars
<1> DEFINE NoError ==
      \A c \in Clients : tx[c].step # "none" /\ tx'[c].step = "none" => answer'[c] # "500"
<1>1. Init => EachFindsTheTruth
  BY DEF Init, EachFindsTheTruth, FoundIsTrue, NoTx
<1>2. Inv /\ EachFindsTheTruth /\ [Next]_vars => [NoError]_vars
  <2> SUFFICES ASSUME Inv, EachFindsTheTruth, Next,
                      NEW d \in Clients, tx[d].step # "none", tx'[d].step = "none"
               PROVE  answer'[d] # "500"
    OBVIOUS
  <2>1. ASSUME NEW c \in Clients, NEW t, tx' = [tx EXCEPT ![c] = t] PROVE c = d
    BY <2>1 DEF Inv, TypeOK
  <2>2. ASSUME NEW c \in Clients, NEW t \in Tx, t.step # "none" PROVE ~Open(c, t)
    BY <2>1, <2>2 DEF Open, Inv, TypeOK
  <2>3. ASSUME NEW c \in Clients, NEW code, code # "500", Close(c, code)
        PROVE  answer'[d] # "500"
    BY <2>1, <2>3 DEF Close, Inv, TypeOK
  <2>4. ASSUME NEW c \in Clients, NEW n \in Names, BeginCreate(c, n) PROVE FALSE
    BY <2>1, <2>4 DEF BeginCreate, Open
  <2>5. ASSUME NEW c \in Clients, NEW i \in Ids, BeginUpdate(c, i) PROVE FALSE
    BY <2>1, <2>5 DEF BeginUpdate, Open
  <2>6. ASSUME NEW c \in Clients PROVE tx[c] \in Tx
    BY DEF Inv, TypeOK
  <2>7. ASSUME NEW c \in Clients, CheckLatest(c) PROVE answer'[d] # "500"
    <3>1. [tx[c] EXCEPT !.step = "supersede"] \in Tx
          /\ [tx[c] EXCEPT !.step = "supersede"].step # "none"
      BY <2>6 DEF Tx
    <3>2. Close(c, "409")
      BY <2>2, <2>7, <3>1 DEF CheckLatest
    <3>3. QED
      BY <2>3, <3>2
  <2>8. ASSUME NEW c \in Clients, Supersede(c) PROVE FALSE
    <3> DEFINE t == [tx[c] EXCEPT !.step = "insert", !.replaced = tx[c].base]
    <3>1. t \in Tx /\ t.step # "none"
      BY <2>6 DEF Tx
    <3>2. Open(c, t)
      BY <2>8 DEF Supersede
    <3> HIDE DEF t
    <3>3. QED
      BY <2>2, <3>1, <3>2
  <2>9. ASSUME NEW c \in Clients, Insert(c) PROVE FALSE
    <3> DEFINE t(i) == [tx[c] EXCEPT !.step = "commit", !.id = i, !.inserted = NewRow(c)]
    <3>1. tx[c].step = "insert" /\ FoundIsTrue(c)
      BY <2>9 DEF Insert, EachFindsTheTruth
    <3>2. ~\E j \in Stored : SameKey(rows[j], NewRow(c))
      BY <3>1, KeyIsFree
    <3>3. PICK i \in Ids : Open(c, t(i))
      BY <2>9, <3>2 DEF Insert
    <3>4. t(i) \in Tx /\ t(i).step # "none"
      <4>1. NewRow(c) \in Row
        BY NewRowType DEF Inv
      <4>2. QED
        BY <2>6, <4>1 DEF Tx
    <3> HIDE DEF t
    <3>5. QED
      BY <2>2, <3>3, <3>4
  <2>10. ASSUME NEW c \in Clients, Commit(c) PROVE answer'[d] # "500"
    BY <2>1, <2>10 DEF Commit, Inv, TypeOK
  <2>11. QED
    BY <2>3, <2>4, <2>5, <2>7, <2>8, <2>9, <2>10 DEF Next, RefuseName, Abort
<1>3. QED
  BY <1>1, <1>2, NextFinds, VersionsInvariant, PTL DEF Spec

--------------------------------------------------------------------------------
(* Who waits for whom *)

\* The statement of c waits for the transaction of d, that holds the row or the key
WaitsFor(c, d) ==
    \/ tx[c].step = "supersede" /\ tx[d].replaced = tx[c].base
    \/ tx[c].step = "insert" /\ SameKey(tx[d].inserted, NewRow(c))

\* No row is held by two transactions.
RowsAreHeldOnce ==
    \A c, d \in Clients : c # d /\ tx[c].replaced # 0 => tx[d].replaced # tx[c].replaced

LEMMA NextHolds == TypeOK /\ RowsAreHeldOnce /\ [Next]_vars => RowsAreHeldOnce'
<1> SUFFICES ASSUME TypeOK, RowsAreHeldOnce, [Next]_vars PROVE RowsAreHeldOnce'
  OBVIOUS
<1>1. ASSUME NEW c \in Clients, NEW t, tx' = [tx EXCEPT ![c] = t],
             \/ t.replaced \in {0, tx[c].replaced}
             \/ \A d \in Clients : tx[d].replaced # t.replaced
      PROVE  RowsAreHeldOnce'
  <2>1. tx'[c] = t /\ \A d \in Clients \ {c} : tx'[d] = tx[d]
    BY <1>1 DEF TypeOK
  <2>2. QED
    BY <1>1, <2>1 DEF RowsAreHeldOnce
<1>2. ASSUME NEW c \in Clients PROVE tx[c] \in Tx
  BY DEF TypeOK
<1>3. ASSUME NEW c \in Clients, NEW code, Close(c, code) PROVE RowsAreHeldOnce'
  BY <1>1, <1>3 DEF Close, NoTx
<1>4. ASSUME NEW c \in Clients, NEW n \in Names, BeginCreate(c, n) PROVE RowsAreHeldOnce'
  BY <1>1, <1>4 DEF BeginCreate, Open, NoTx
<1>5. ASSUME NEW c \in Clients, NEW i \in Ids, BeginUpdate(c, i) PROVE RowsAreHeldOnce'
  BY <1>1, <1>5 DEF BeginUpdate, Open, NoTx
<1>6. ASSUME NEW c \in Clients, CheckLatest(c) PROVE RowsAreHeldOnce'
  <2>1. [tx[c] EXCEPT !.step = "supersede"].replaced = tx[c].replaced
    BY <1>2 DEF Tx
  <2>2. QED
    BY <1>1, <1>3, <1>6, <2>1 DEF CheckLatest, Open
<1>7. ASSUME NEW c \in Clients, Supersede(c) PROVE RowsAreHeldOnce'
  <2> DEFINE t == [tx[c] EXCEPT !.step = "insert", !.replaced = tx[c].base]
  <2>1. t.replaced = tx[c].base
    BY <1>2 DEF Tx
  <2>2. tx' = [tx EXCEPT ![c] = t] /\ \A d \in Clients : tx[d].replaced # tx[c].base
    BY <1>7 DEF Supersede, Open
  <2> HIDE DEF t
  <2>3. QED
    BY <1>1, <2>1, <2>2
<1>8. ASSUME NEW c \in Clients, Insert(c), ~Close(c, "500") PROVE RowsAreHeldOnce'
  <2> DEFINE t(i) == [tx[c] EXCEPT !.step = "commit", !.id = i, !.inserted = NewRow(c)]
  <2>1. PICK i \in Ids : tx' = [tx EXCEPT ![c] = t(i)]
    BY <1>8 DEF Insert, Open
  <2>2. t(i).replaced = tx[c].replaced
    BY <1>2 DEF Tx
  <2> HIDE DEF t
  <2>3. QED
    BY <1>1, <2>1, <2>2
<1>9. ASSUME NEW c \in Clients, Commit(c) PROVE RowsAreHeldOnce'
  BY <1>1, <1>9 DEF Commit, NoTx
<1>10. CASE UNCHANGED vars
  BY <1>10 DEF vars, RowsAreHeldOnce
<1>11. QED
  BY <1>3, <1>4, <1>5, <1>6, <1>7, <1>8, <1>9, <1>10 DEF Next, RefuseName, Abort

\* What is waited for is held by a transaction that has done its update, or has none.
LEMMA HoldersHaveWritten ==
    ASSUME Inv, NEW c \in Clients, NEW d \in Clients, WaitsFor(c, d)
    PROVE  /\ tx[c].step = "insert" => tx[d].step = "commit"
           /\ tx[c].step = "supersede" => tx[d].replaced # 0
           /\ tx[d].step \in {"insert", "commit"}
<1>1. WrittenInOrder(d) /\ BaseIsRead(c)
  BY DEF Inv, TxOK
<1>2. CASE tx[c].step = "supersede"
  BY <1>1, <1>2 DEF WaitsFor, BaseIsRead, WrittenInOrder
<1>3. CASE tx[c].step = "insert"
  <2>1. SameKey(tx[d].inserted, NewRow(c))
    BY <1>3 DEF WaitsFor
  <2>2. NewRow(c).version >= 1
    BY NewRowType DEF Inv
  <2>3. Absent.version = 0
    BY DEF Absent
  <2>4. tx[d].inserted # Absent
    BY <2>1, <2>2, <2>3 DEF SameKey
  <2>5. QED
    BY <1>1, <1>3, <2>4 DEF WrittenInOrder
<1>4. QED
  BY <1>2, <1>3 DEF WaitsFor

\* The key after a row is inserted only by who holds the row.
LEMMA KeyFollowsRow ==
    ASSUME Inv, RowsAreHeldOnce, NEW d \in Clients, NEW e \in Clients,
           tx[d].step = "insert", tx[d].replaced # 0
    PROVE  ~WaitsFor(d, e)
<1> SUFFICES ASSUME WaitsFor(d, e) PROVE FALSE
  OBVIOUS
<1> DEFINE b == tx[d].base
           a == tx[e].base
<1>1. tx[e].step = "commit" /\ SameKey(tx[e].inserted, NewRow(d))
  BY HoldersHaveWritten DEF WaitsFor
<1>2. tx[e].inserted = NewRow(e) /\ tx[e].replaced = a /\ tx[d].replaced = b
  BY <1>1 DEF Inv, TxOK, InsertedIsNew, WrittenInOrder
<1>3. b # 0 /\ b \in Stored /\ rows[b].name = tx[d].name
  BY <1>2 DEF Inv, TxOK, BaseIsRead
<1>4. rows[b].version \in Nat /\ rows[b].version >= 1
  BY <1>3 DEF Inv, RowsOK, RowsAreComplete, TypeOK, Stored, Row
<1>5. NewRow(e).name = NewRow(d).name /\ NewRow(e).version = NewRow(d).version
  BY <1>1, <1>2 DEF SameKey
<1>6. tx[e].name = tx[d].name /\ NewRow(e).version = rows[b].version + 1
  BY <1>3, <1>5 DEF NewRow
<1>7. a # 0
  BY <1>4, <1>6 DEF NewRow
<1>8. a \in Stored /\ rows[a].name = tx[e].name
  BY <1>1, <1>7 DEF Inv, TxOK, BaseIsRead
<1>9. rows[a].version \in Nat
  BY <1>8 DEF Inv, TypeOK, Stored, Row
<1>10. rows[a].version = rows[b].version
  BY <1>4, <1>6, <1>7, <1>9 DEF NewRow
<1>11. a = b
  BY <1>3, <1>6, <1>8, <1>10 DEF Inv, RowsOK, KeysAreUnique, SameKey
<1>12. d # e
  BY <1>1
<1>13. QED
  BY <1>2, <1>3, <1>11, <1>12 DEF RowsAreHeldOnce

\* The row locks of the updates and the key locks of the insertions cannot make a
\* circle, although a save takes one of each: who is waited for waits for nobody.
THEOREM HoldersDoNotWait ==
    Spec => [](\A c, d, e \in Clients : WaitsFor(c, d) => ~WaitsFor(d, e))
<1>1. Init => RowsAreHeldOnce
  BY DEF Init, RowsAreHeldOnce, NoTx
<1>2. Inv /\ RowsAreHeldOnce => \A c, d, e \in Clients : WaitsFor(c, d) => ~WaitsFor(d, e)
  <2> SUFFICES ASSUME Inv, RowsAreHeldOnce, NEW c \in Clients, NEW d \in Clients,
                      NEW e \in Clients, WaitsFor(c, d), WaitsFor(d, e)
               PROVE  FALSE
    OBVIOUS
  <2>1. tx[d].step = "insert" /\ tx[c].step = "supersede"
    BY HoldersHaveWritten DEF WaitsFor
  <2>2. tx[d].replaced # 0
    BY <2>1, HoldersHaveWritten
  <2>3. QED
    BY <2>1, <2>2, KeyFollowsRow
<1>3. QED
  BY <1>1, <1>2, NextHolds, VersionsInvariant, TypeCorrect, PTL DEF Spec
================================================================================
