-------------------------- MODULE ImportBatchesProofs --------------------------
(***************************************************************************)
(* What the pipeline guarantees for any number of runs, any files and any  *)
(* size of batch.  A key a run skipped because another had stored it stays *)
(* stored, since it was committed; and a key it did not skip is in its own *)
(* draft.  Hence a batch that commits leaves everything it states stored,  *)
(* and each new session of it is either in the draft or of another run.    *)
(***************************************************************************)
EXTENDS ImportBatches, FiniteSetTheorems, FunctionTheorems, SequenceTheorems, TLAPS

LEMMA RecordsAreNumbered ==
    ASSUME NEW r \in Runs
    PROVE  /\ Len(Records[r]) \in Nat
           /\ DOMAIN Records[r] = 1 .. Len(Records[r])
           /\ Len(Facts[r]) = Len(Records[r])
           /\ DOMAIN Facts[r] = DOMAIN Records[r]
           /\ \A n \in DOMAIN Records[r] : Facts[r][n] = StatedBy(Records[r][n])
<1> DEFINE N == Cardinality(NotBlank(r))
<1>1. N \in Nat
  BY ContentAssumption, FS_Subset, FS_CardinalityType DEF NotBlank
<1> DEFINE Line(k) == Content[r][CHOOSE n \in NotBlank(r) : NumberOf(r, n) = k]
<1>2. Records[r] = [k \in 1 .. N |-> Line(k)]
  BY DEF Records
<1>3. Len(Records[r]) = N /\ DOMAIN Records[r] = 1 .. N
  <2> HIDE DEF Line, N
  <2> QED BY <1>1, <1>2
<1>4. Facts[r] = [n \in DOMAIN Records[r] |-> StatedBy(Records[r][n])]
  BY DEF Facts
<1>5. Len(Facts[r]) = N
  <2> HIDE DEF N
  <2> QED BY <1>1, <1>3, <1>4
<1> QED BY <1>1, <1>3, <1>4, <1>5

\* The keys that the places of a batch hold are what its records state
LEMMA PlacesAreFacts ==
    ASSUME NEW r \in Runs, lineNumber[r] \in 0 .. Len(Records[r])
    PROVE  /\ BatchEnd(r) \in lineNumber[r] .. Len(Records[r])
           /\ lineNumber[r] < Len(Records[r]) => lineNumber[r] < BatchEnd(r)
           /\ \A at \in RowsToWrite(r) :
                 /\ LineOf(r, at[2]) \in BatchLines(r)
                 /\ KeyAt(r, at) \in Facts[r][LineOf(r, at[2])]
           /\ \A n \in BatchLines(r) : \A key \in Facts[r][n] :
                 \E at \in RowsToWrite(r) : KeyAt(r, at) = key
<1> DEFINE from == lineNumber[r]
           size == BatchEnd(r) - from
<1>1. from \in Nat /\ Len(Records[r]) \in Nat /\ DOMAIN Records[r] = 1 .. Len(Records[r])
  BY RecordsAreNumbered
<1>2. BatchEnd(r) \in from .. Len(Records[r]) /\ (from < Len(Records[r]) => from < BatchEnd(r))
  BY <1>1, BoundsAssumption DEF BatchEnd
<1>3. ASSUME NEW i \in 1 .. size
      PROVE  /\ from + i \in BatchLines(r) /\ from + i \in DOMAIN Records[r]
             /\ Facts[r][from + i] = StatedBy(Records[r][from + i])
  BY SMTT(30), <1>1, <1>2, RecordsAreNumbered DEF BatchLines
<1>4. ASSUME NEW at \in RowsToWrite(r)
      PROVE  LineOf(r, at[2]) \in BatchLines(r) /\ KeyAt(r, at) \in Facts[r][LineOf(r, at[2])]
  <2>1. PICK t \in DOMAIN Tables, i \in 1 .. size :
            \E j \in DOMAIN KeysOf(Tables[t], Records[r][from + i]) : at = <<t, i, j>>
    BY DEF RowsToWrite
  <2>2. PICK j \in DOMAIN KeysOf(Tables[t], Records[r][from + i]) : at = <<t, i, j>>
    BY <2>1
  <2>3. LineOf(r, at[2]) = from + i /\ KeyAt(r, at) = KeysOf(Tables[t], Records[r][from + i])[j]
    BY <2>2 DEF LineOf, KeyAt
  <2>4. KeyAt(r, at) \in StatedBy(Records[r][from + i])
    <3>1. Tables[t] \in ToSet(Tables)
      BY DEF ToSet
    <3>2. KeyAt(r, at) \in ToSet(KeysOf(Tables[t], Records[r][from + i]))
      BY <2>2, <2>3 DEF ToSet
    <3> HIDE DEF from
    <3> QED BY <3>1, <3>2 DEF StatedBy
  <2> QED BY <1>3, <2>3, <2>4
<1>5. ASSUME NEW n \in BatchLines(r), NEW key \in Facts[r][n]
      PROVE  \E at \in RowsToWrite(r) : KeyAt(r, at) = key
  <2>1. n - from \in 1 .. size /\ from + (n - from) = n
    BY <1>1, <1>2 DEF BatchLines
  <2>2. key \in StatedBy(Records[r][n])
    BY <1>3, <2>1
  <2>3. PICK t \in DOMAIN Tables : key \in ToSet(KeysOf(Tables[t], Records[r][n]))
    BY <2>2 DEF StatedBy, ToSet
  <2>4. PICK j \in DOMAIN KeysOf(Tables[t], Records[r][n]) : key = KeysOf(Tables[t], Records[r][n])[j]
    BY <2>3 DEF ToSet
  <2>5. <<t, n - from, j>> \in RowsToWrite(r)
    <3> DEFINE rowsOf(u, i) ==
                 {<<u, i, k>> : k \in DOMAIN KeysOf(Tables[u], Records[r][lineNumber[r] + i])}
               all == {rowsOf(u, i) : u \in DOMAIN Tables, i \in 1 .. size}
    <3>1. <<t, n - from, j>> \in rowsOf(t, n - from)
      BY <2>1, <2>4
    <3>2. rowsOf(t, n - from) \in all
      <4> HIDE DEF rowsOf
      <4> QED BY <2>1
    <3>3. RowsToWrite(r) = UNION all
      BY DEF RowsToWrite
    <3> HIDE DEF rowsOf, all
    <3> QED BY <3>1, <3>2, <3>3
  <2>6. KeyAt(r, <<t, n - from, j>>) = key
    BY <2>1, <2>4 DEF KeyAt
  <2> QED BY <2>5, <2>6
<1> QED BY <1>2, <1>4, <1>5

AnyKey == UNION {UNION {Facts[r][n] : n \in DOMAIN Facts[r]} : r \in Runs}

Row == [key : AnyKey, run : Runs, line : Nat]

Types ==
    /\ phase \in [Runs -> {"queued", "reading", "writing", "reported", "failed"}]
    /\ draft \in [Runs -> SUBSET Row]
    /\ store \subseteq Row
    /\ todo = [r \in Runs |-> todo[r]]
    /\ lineNumber \in [Runs -> Nat]
    /\ \A r \in Runs : lineNumber[r] \in 0 .. Len(Records[r])

\* What the open transaction of a run has dealt with is stored or in its draft
BatchOf(r) ==
    /\ phase[r] # "writing" => draft[r] = {} /\ todo[r] = {}
    /\ phase[r] = "writing" =>
          /\ lineNumber[r] < Len(Records[r])
          /\ todo[r] \subseteq RowsToWrite(r)
          /\ \A at \in RowsToWrite(r) \ todo[r] : KeyAt(r, at) \in Keys(store \cup draft[r])
          /\ \A row \in draft[r] : \E at \in RowsToWrite(r) : row = RowAt(r, at)

\* The records of the batches that were committed are stored
PrefixOf(r) ==
    /\ \A n \in 1 .. lineNumber[r] : Facts[r][n] \subseteq Keys(store)
    /\ phase[r] = "reported" => lineNumber[r] = Len(Records[r])

\* A stored row comes from a record of a batch that its run has committed
StatedRow(row) ==
    row.line \in 1 .. lineNumber[row.run] /\ row.key \in Facts[row.run][row.line]

\* No natural key is written twice, by whichever transactions
OneRowPerKey ==
    \A x, y \in store \cup UNION {draft[r] : r \in Runs} : x.key = y.key => x = y

Inv ==
    /\ Types
    /\ \A r \in Runs : BatchOf(r) /\ PrefixOf(r)
    /\ \A row \in store : StatedRow(row)
    /\ OneRowPerKey

LEMMA InitInv == Init => Inv
<1> SUFFICES ASSUME Init PROVE Inv
  OBVIOUS
<1>1. Types
  BY RecordsAreNumbered DEF Init, Types
<1>2. ASSUME NEW r \in Runs PROVE BatchOf(r) /\ PrefixOf(r)
  BY DEF Init, BatchOf, PrefixOf
<1>3. OneRowPerKey
  BY DEF Init, OneRowPerKey
<1> QED BY <1>1, <1>2, <1>3 DEF Init, Inv

\* A row that a transaction may write is a row
LEMMA RowsAreRows ==
    ASSUME Types, NEW r \in Runs, NEW at \in RowsToWrite(r)
    PROVE  /\ RowAt(r, at) \in Row
           /\ RowAt(r, at).key = KeyAt(r, at) /\ RowAt(r, at).run = r
           /\ RowAt(r, at).line \in BatchLines(r)
           /\ RowAt(r, at).key \in Facts[r][RowAt(r, at).line]
<1>1. LineOf(r, at[2]) \in BatchLines(r) /\ KeyAt(r, at) \in Facts[r][LineOf(r, at[2])]
      /\ BatchEnd(r) \in lineNumber[r] .. Len(Records[r])
  BY PlacesAreFacts DEF Types
<1>2. LineOf(r, at[2]) \in Nat /\ LineOf(r, at[2]) \in DOMAIN Facts[r]
  BY <1>1, RecordsAreNumbered DEF BatchLines, Types
<1>3. KeyAt(r, at) \in AnyKey
  BY <1>1, <1>2 DEF AnyKey
<1> QED BY <1>1, <1>2, <1>3 DEF RowAt, Row

\* The batch of a run is a function of where it is in its file
LEMMA SameBatch ==
    ASSUME NEW q \in Runs, lineNumber'[q] = lineNumber[q]
    PROVE  /\ RowsToWrite(q)' = RowsToWrite(q)
           /\ \A at : KeyAt(q, at)' = KeyAt(q, at) /\ RowAt(q, at)' = RowAt(q, at)
BY DEF RowsToWrite, KeyAt, RowAt, LineOf, BatchEnd

\* What the other runs do only adds to the store
LEMMA OthersKeepTheirBatch ==
    ASSUME Inv, NEW q \in Runs, lineNumber'[q] = lineNumber[q], store \subseteq store',
           phase'[q] = phase[q], todo'[q] = todo[q], draft'[q] = draft[q]
    PROVE  BatchOf(q)' /\ PrefixOf(q)'
<1>1. BatchOf(q) /\ PrefixOf(q)
  BY DEF Inv
<1>2. Keys(store) \subseteq Keys(store') /\ Keys(store \cup draft[q]) \subseteq Keys(store' \cup draft'[q])
  BY DEF Keys
<1>3. BatchOf(q)'
  BY <1>1, <1>2, SameBatch DEF BatchOf, Keys
<1>4. PrefixOf(q)'
  BY <1>1, <1>2 DEF PrefixOf, Keys
<1> QED BY <1>3, <1>4

\* A step that stores nothing and reads nothing
LEMMA StoreIsStill ==
    ASSUME Inv, Types', store' = store, lineNumber' = lineNumber, OneRowPerKey',
           \A r \in Runs : BatchOf(r)' /\ PrefixOf(r)'
    PROVE  Inv'
<1>1. \A row \in store' : StatedRow(row)'
  BY DEF Inv, StatedRow
<1> QED BY <1>1 DEF Inv

LEMMA NextInv == Inv /\ [Next]_vars => Inv'
<1> SUFFICES ASSUME Inv, [Next]_vars PROVE Inv'
  OBVIOUS
<1>0. Types /\ OneRowPerKey /\ \A r \in Runs : BatchOf(r) /\ PrefixOf(r)
  BY DEF Inv
<1>1. ASSUME NEW r \in Runs, NEW there \in {"reading", "reported"}, Become(r, there),
             phase[r] \in {"queued", "reading"},
             there = "reported" => lineNumber[r] = Len(Records[r]),
             UNCHANGED <<store, draft, lineNumber, todo>>
      PROVE  Inv'
  <2>1. Types'
    BY <1>0, <1>1 DEF Types, Become
  <2>2. OneRowPerKey'
    BY <1>0, <1>1 DEF OneRowPerKey
  <2>3. ASSUME NEW q \in Runs PROVE BatchOf(q)' /\ PrefixOf(q)'
    <3>1. CASE q = r
      <4>1. phase'[q] = there
        BY <1>0, <1>1, <3>1 DEF Types, Become
      <4> QED BY <1>0, <1>1, <3>1, <4>1 DEF BatchOf, PrefixOf, Keys
    <3>2. CASE q # r
      BY <1>0, <1>1, <3>2, OthersKeepTheirBatch DEF Types, Become
    <3> QED BY <3>1, <3>2
  <2> QED BY <1>1, <2>1, <2>2, <2>3, StoreIsStill
<1>2. ASSUME NEW r \in Runs, ReadBatch(r) PROVE Inv'
  <2>1. Types'
    BY <1>0, <1>2 DEF ReadBatch, Types, Become
  <2>2. OneRowPerKey'
    BY <1>0, <1>2 DEF ReadBatch, OneRowPerKey
  <2>3. ASSUME NEW q \in Runs PROVE BatchOf(q)' /\ PrefixOf(q)'
    <3>1. CASE q = r
      <4>1. /\ phase'[q] = "writing" /\ todo'[q] = RowsToWrite(q) /\ draft'[q] = {} /\ store' = store
            /\ lineNumber' = lineNumber /\ lineNumber[q] < Len(Records[q])
        BY <1>0, <1>2, <3>1 DEF ReadBatch, Types, Become, BatchOf
      <4> QED BY <1>0, <4>1, SameBatch DEF BatchOf, PrefixOf, Keys
    <3>2. CASE q # r
      BY <1>0, <1>2, <3>2, OthersKeepTheirBatch DEF ReadBatch, Types, Become
    <3> QED BY <3>1, <3>2
  <2> QED BY <1>2, <2>1, <2>2, <2>3, StoreIsStill DEF ReadBatch
<1>3. ASSUME NEW r \in Runs, Insert(r) PROVE Inv'
  <2>1. PICK at \in todo[r] :
           /\ IsNext(r, at)
           /\ draft' = [draft EXCEPT ![r] =
                 IF KeyAt(r, at) \in Keys(store \cup @) THEN @ ELSE @ \cup {RowAt(r, at)}]
           /\ todo' = [todo EXCEPT ![r] = @ \ {at}]
    BY <1>3 DEF Insert
  <2>2. phase[r] = "writing" /\ UNCHANGED <<store, phase, lineNumber>> /\ ~ \E q \in Runs : WaitsFor(r, q)
    BY <1>3 DEF Insert
  <2>3. at \in RowsToWrite(r) /\ RowAt(r, at) \in Row /\ RowAt(r, at).key = KeyAt(r, at)
    <3>1. at \in RowsToWrite(r)
      BY <1>0, <2>1, <2>2 DEF BatchOf
    <3> QED BY <1>0, <3>1, RowsAreRows
  <2>4. /\ draft'[r] = IF KeyAt(r, at) \in Keys(store \cup draft[r]) THEN draft[r]
                       ELSE draft[r] \cup {RowAt(r, at)}
        /\ todo'[r] = todo[r] \ {at}
        /\ \A q \in Runs \ {r} : draft'[q] = draft[q] /\ todo'[q] = todo[q]
    BY <1>0, <2>1 DEF Types
  <2>5. Types'
    BY <1>0, <2>1, <2>2, <2>3 DEF Types
  <2>6. OneRowPerKey'
    <3>1. \A q \in Runs : KeyAt(r, at) \notin Keys(draft[q]) \/ q = r
      BY <2>1, <2>2 DEF WaitsFor
    <3>2. CASE KeyAt(r, at) \in Keys(store \cup draft[r])
      <4>1. \A q \in Runs : draft'[q] = draft[q]
        BY <2>4, <3>2
      <4> QED BY <1>0, <2>2, <4>1 DEF OneRowPerKey
    <3>3. CASE KeyAt(r, at) \notin Keys(store \cup draft[r])
      <4> DEFINE rows == store \cup UNION {draft[q] : q \in Runs}
      <4>1. \A x \in rows : x.key # KeyAt(r, at)
        BY <3>1, <3>3 DEF Keys
      <4>2. store' \cup UNION {draft'[q] : q \in Runs} \subseteq rows \cup {RowAt(r, at)}
        BY <2>2, <2>4
      <4> QED BY <1>0, <2>3, <4>1, <4>2 DEF OneRowPerKey
    <3> QED BY <3>2, <3>3
  <2>7. ASSUME NEW q \in Runs PROVE BatchOf(q)' /\ PrefixOf(q)'
    <3>1. CASE q = r
      <4>1. KeyAt(r, at) \in Keys(store \cup draft'[r]) /\ Keys(store \cup draft[r]) \subseteq Keys(store \cup draft'[r])
        BY <2>3, <2>4 DEF Keys
      <4>2. \A p \in RowsToWrite(r) \ todo'[r] : KeyAt(r, p) \in Keys(store \cup draft'[r])
        BY <1>0, <2>2, <2>4, <4>1 DEF BatchOf
      <4>3. \A row \in draft'[r] : \E p \in RowsToWrite(r) : row = RowAt(r, p)
        BY <1>0, <2>2, <2>3, <2>4 DEF BatchOf
      <4>4. BatchOf(r) /\ PrefixOf(r)
        BY <1>0
      <4>5. BatchOf(r)'
        <5>1. RowsToWrite(r)' = RowsToWrite(r)
              /\ \A p : KeyAt(r, p)' = KeyAt(r, p) /\ RowAt(r, p)' = RowAt(r, p)
          BY <2>2, SameBatch
        <5>2. phase'[r] = "writing" /\ lineNumber'[r] < Len(Records[r]) /\ store' = store
              /\ todo'[r] \subseteq RowsToWrite(r)
          BY <2>2, <2>4, <4>4 DEF BatchOf
        <5> QED BY <4>2, <4>3, <5>1, <5>2 DEF BatchOf, Keys
      <4>6. PrefixOf(r)'
        BY <2>2, <4>4 DEF PrefixOf
      <4> QED BY <3>1, <4>5, <4>6
    <3>2. CASE q # r
      BY <2>2, <2>4, <3>2, OthersKeepTheirBatch
    <3> QED BY <3>1, <3>2
  <2> QED BY <2>2, <2>5, <2>6, <2>7, StoreIsStill
<1>4. ASSUME NEW r \in Runs, RollBack(r) PROVE Inv'
  <2>1. UNCHANGED <<store, lineNumber>> /\ phase'[r] = "failed" /\ draft'[r] = {} /\ todo'[r] = {}
        /\ \A q \in Runs \ {r} : phase'[q] = phase[q] /\ draft'[q] = draft[q] /\ todo'[q] = todo[q]
    BY <1>0, <1>4 DEF RollBack, Types, Become
  <2>2. Types'
    BY <1>0, <1>4 DEF RollBack, Types, Become
  <2>3. OneRowPerKey'
    BY <1>0, <2>1 DEF OneRowPerKey
  <2>4. ASSUME NEW q \in Runs PROVE BatchOf(q)' /\ PrefixOf(q)'
    <3>1. CASE q = r
      BY <1>0, <2>1, <3>1 DEF BatchOf, PrefixOf, Keys
    <3>2. CASE q # r
      BY <2>1, <3>2, OthersKeepTheirBatch
    <3> QED BY <3>1, <3>2
  <2> QED BY <2>1, <2>2, <2>3, <2>4, StoreIsStill
<1>5. ASSUME NEW r \in Runs, Commit(r) PROVE Inv'
  <2>1. /\ phase[r] = "writing" /\ todo[r] = {} /\ store' = store \cup draft[r]
        /\ lineNumber'[r] = BatchEnd(r) /\ draft'[r] = {} /\ phase'[r] = "reading" /\ todo' = todo
        /\ \A q \in Runs \ {r} : /\ phase'[q] = phase[q] /\ draft'[q] = draft[q]
                                  /\ lineNumber'[q] = lineNumber[q]
    BY <1>0, <1>5 DEF Commit, Types, Become
  <2>2. lineNumber[r] \in 0 .. Len(Records[r]) /\ BatchEnd(r) \in lineNumber[r] .. Len(Records[r])
        /\ Len(Records[r]) \in Nat
    BY <1>0, PlacesAreFacts, RecordsAreNumbered DEF Types
  <2>3. Types'
    BY <1>0, <1>5, <2>2 DEF Commit, Types, Become
  <2>4. OneRowPerKey'
    BY <1>0, <2>1 DEF OneRowPerKey
  <2>5. ASSUME NEW q \in Runs PROVE BatchOf(q)' /\ PrefixOf(q)'
    <3>1. CASE q = r
      <4>1. \A n \in BatchLines(r) : Facts[r][n] \subseteq Keys(store')
        BY <1>0, <2>1, <2>2, PlacesAreFacts DEF BatchOf
      <4>2. \A n \in 1 .. lineNumber[r] : Facts[r][n] \subseteq Keys(store')
        BY <1>0, <2>1 DEF PrefixOf, Keys
      <4>3. \A n \in 1 .. lineNumber'[r] : n \in BatchLines(r) \/ n \in 1 .. lineNumber[r]
        BY <2>1, <2>2 DEF BatchLines
      <4> QED BY <2>1, <3>1, <4>1, <4>2, <4>3 DEF BatchOf, PrefixOf
    <3>2. CASE q # r
      BY <2>1, <3>2, OthersKeepTheirBatch
    <3> QED BY <3>1, <3>2
  <2>6. ASSUME NEW row \in store' PROVE StatedRow(row)'
    <3>1. CASE row \in store
      <4>1. StatedRow(row) /\ row.run \in Runs /\ lineNumber[row.run] \in Nat /\ lineNumber'[row.run] \in Nat
            /\ lineNumber[row.run] <= lineNumber'[row.run] /\ row.line \in Nat
        <5>1. StatedRow(row) /\ row.run \in Runs /\ row.line \in Nat
          BY <1>0, <3>1 DEF Inv, Types, Row
        <5>2. lineNumber[row.run] \in Nat /\ lineNumber'[row.run] \in Nat
          BY <1>0, <2>3, <5>1 DEF Types
        <5>3. lineNumber[row.run] <= lineNumber'[row.run]
          BY <2>1, <2>2, <5>1, <5>2
        <5> QED BY <5>1, <5>2, <5>3
      <4> QED BY <4>1 DEF StatedRow
    <3>2. CASE row \in draft[r]
      <4>1. PICK at \in RowsToWrite(r) : row = RowAt(r, at)
        BY <1>0, <2>1, <3>2 DEF BatchOf
      <4>2. row.run = r /\ row.line \in BatchLines(r) /\ row.key \in Facts[r][row.line]
        BY <1>0, <4>1, RowsAreRows
      <4> QED BY <2>1, <2>2, <4>2 DEF StatedRow, BatchLines
    <3> QED BY <2>1, <3>1, <3>2
  <2> QED BY <2>3, <2>4, <2>5, <2>6 DEF Inv
<1>6. CASE UNCHANGED vars
  <2>1. UNCHANGED <<store, draft, phase, lineNumber, todo>>
    BY <1>6 DEF vars
  <2>2. Types' /\ OneRowPerKey'
    BY <1>0, <2>1 DEF Types, OneRowPerKey
  <2>3. \A q \in Runs : BatchOf(q)' /\ PrefixOf(q)'
    BY <2>1, OthersKeepTheirBatch
  <2> QED BY <2>1, <2>2, <2>3, StoreIsStill
<1>7. ASSUME NEW r \in Runs, Start(r) \/ SaveReport(r) PROVE Inv'
  BY <1>1, <1>7 DEF Start, SaveReport
<1> QED BY <1>2, <1>3, <1>4, <1>5, <1>6, <1>7
        DEF Next, RunStep, ReaderRaises, DeadlockVictim, Interrupt

--------------------------------------------------------------------------------
(* The theorems *)

\* The store and the open transactions agree with the files: what a run skipped is
\* stored, what it wrote is in its draft, and no natural key is written twice.
THEOREM BatchesInvariant == Spec => []Inv
BY InitInv, NextInv, PTL DEF Spec

\* A record has finitely many rows in each table, and so has a batch
LEMMA FinitelyManyRows ==
    ASSUME NEW r \in Runs, lineNumber[r] \in 0 .. Len(Records[r])
    PROVE  IsFiniteSet(RowsToWrite(r))
<1> DEFINE size == BatchEnd(r) - lineNumber[r]
           Line(i) == Records[r][lineNumber[r] + i]
           Places(t, i) == {<<t, i, j>> : j \in DOMAIN KeysOf(Tables[t], Line(i))}
           batch == (DOMAIN Tables) \X (1 .. size)
           places == [at \in batch |-> Places(at[1], at[2])]
           all == {Places(t, i) : t \in DOMAIN Tables, i \in 1 .. size}
<1>1. /\ lineNumber[r] \in Nat /\ Len(Records[r]) \in Nat /\ DOMAIN Records[r] = 1 .. Len(Records[r])
      /\ BatchEnd(r) \in lineNumber[r] .. Len(Records[r]) /\ size \in Nat
  <2>1. Len(Records[r]) \in Nat /\ DOMAIN Records[r] = 1 .. Len(Records[r])
    BY RecordsAreNumbered
  <2>2. BatchEnd(r) \in lineNumber[r] .. Len(Records[r])
    BY PlacesAreFacts
  <2> QED BY <2>1, <2>2
<1>2. ASSUME NEW t \in DOMAIN Tables, NEW i \in 1 .. size PROVE IsFiniteSet(Places(t, i))
  <2>1. lineNumber[r] + i \in DOMAIN Records[r]
    BY <1>1
  <2>2. /\ IsFiniteSet(DOMAIN Line(i).names) /\ IsFiniteSet(DOMAIN Line(i).model_calls)
        /\ IsFiniteSet(DOMAIN Line(i).tool_calls)
    BY <2>1, ListsAssumption
  <2>3. DOMAIN <<>> = {} /\ \A x : DOMAIN <<x>> = {1}
    OBVIOUS
  <2>4. IsFiniteSet({}) /\ IsFiniteSet({1})
    BY FS_EmptySet, FS_Singleton
  <2> HIDE DEF Line
  <2>5. IsFiniteSet(DOMAIN NameKeys(Line(i))) /\ IsFiniteSet(DOMAIN SessionKeys(Line(i)))
    BY <2>2, <2>3, <2>4 DEF NameKeys, SessionKeys
  <2>6. IsFiniteSet(DOMAIN ModelCallKeys(Line(i))) /\ IsFiniteSet(DOMAIN ToolCallKeys(Line(i)))
    BY <2>2, <2>3, <2>4 DEF ModelCallKeys, ToolCallKeys, CallKeys
  <2> DEFINE indices == DOMAIN KeysOf(Tables[t], Line(i))
  <2>7. IsFiniteSet(indices)
    <3>1. Tables[t] \in {"name", "session", "model_call", "tool_call"}
      BY DEF Tables
    <3>2. KeysOf(Tables[t], Line(i)) \in
             {NameKeys(Line(i)), SessionKeys(Line(i)), ModelCallKeys(Line(i)), ToolCallKeys(Line(i))}
      BY <3>1 DEF KeysOf
    <3> QED BY <2>5, <2>6, <3>2
  <2> HIDE DEF indices
  <2>8. [j \in indices |-> <<t, i, j>>] \in Surjection(indices, {<<t, i, j>> : j \in indices})
    BY DEF Surjection
  <2>9. IsFiniteSet({<<t, i, j>> : j \in indices})
    BY <2>7, <2>8, FS_Surjection
  <2> QED BY <2>9 DEF indices
<1>3. IsFiniteSet(batch)
  <2>1. \A n \in Int : IsFiniteSet(1 .. n)
    <3>1. 1 \in Int
      OBVIOUS
    <3> QED BY <3>1, FS_Interval
  <2>2. IsFiniteSet(1 .. size)
    <3>1. size \in Int
      BY <1>1
    <3> QED BY <2>1, <3>1
  <2>3. IsFiniteSet(DOMAIN Tables)
    <3>1. DOMAIN Tables = 1 .. 4 /\ 4 \in Int
      BY DEF Tables
    <3> QED BY <2>1, <3>1
  <2> HIDE DEF size
  <2> QED BY <2>2, <2>3, FS_Product
<1>4. RowsToWrite(r) = UNION all
  BY DEF RowsToWrite
<1> HIDE DEF Places, size
<1>5. places \in Surjection(batch, all)
  <2>1. places \in [batch -> all]
    OBVIOUS
  <2>2. ASSUME NEW set \in all PROVE \E at \in batch : places[at] = set
    <3>1. PICK t \in DOMAIN Tables, i \in 1 .. size : set = Places(t, i)
      OBVIOUS
    <3>2. <<t, i>> \in batch /\ places[<<t, i>>] = set
      BY <3>1
    <3> QED BY <3>2
  <2> HIDE DEF batch, all, places
  <2> QED BY <2>1, <2>2 DEF Surjection
<1>6. IsFiniteSet(all)
  <2> HIDE DEF batch, places, all
  <2> QED BY <1>3, <1>5, FS_Surjection
<1>7. \A set \in all : IsFiniteSet(set)
  BY <1>2
<1> QED BY <1>4, <1>6, <1>7, FS_UNION

\* The rows a run has in its draft are no more than the places it has been to
LEMMA DraftsAreFinite ==
    ASSUME Inv, NEW r \in Runs
    PROVE  /\ IsFiniteSet(draft[r])
           /\ LET calls == {row \in draft[r] : IsCall(row.key)}
              IN  Cardinality(calls) \in Nat /\ CallsToWrite(r) - Cardinality(calls) \in Nat
<1> DEFINE calls == {row \in draft[r] : IsCall(row.key)}
           places == {at \in RowsToWrite(r) : IsCall(KeyAt(r, at))}
           written == {at \in RowsToWrite(r) : RowAt(r, at) \in draft[r]}
           called == {at \in places : RowAt(r, at) \in calls}
<1>1. BatchOf(r) /\ lineNumber[r] \in 0 .. Len(Records[r])
  BY DEF Inv, Types
<1>2. IsFiniteSet(RowsToWrite(r)) /\ IsFiniteSet(places) /\ IsFiniteSet(written) /\ IsFiniteSet(called)
      /\ Cardinality(called) <= Cardinality(places)
  <2>1. IsFiniteSet(RowsToWrite(r))
    BY <1>1, FinitelyManyRows
  <2>2. IsFiniteSet(places) /\ IsFiniteSet(written)
    BY <2>1, FS_Subset
  <2>3. called \in SUBSET places
    OBVIOUS
  <2> HIDE DEF places, called, written
  <2> QED BY <2>1, <2>2, <2>3, FS_Subset
<1>3. \A row \in draft[r] : \E at \in RowsToWrite(r) : row = RowAt(r, at)
  BY <1>1 DEF BatchOf
<1>4. IsFiniteSet(draft[r])
  <2>1. [at \in written |-> RowAt(r, at)] \in Surjection(written, draft[r])
    BY <1>3 DEF Surjection
  <2> HIDE DEF written
  <2> QED BY <1>2, <2>1, FS_Surjection
<1>5. Cardinality(calls) <= Cardinality(called)
  <2>1. \A row \in calls : \E at \in called : RowAt(r, at) = row
    BY <1>3 DEF RowAt
  <2>2. [at \in called |-> RowAt(r, at)] \in Surjection(called, calls)
    BY <2>1 DEF Surjection
  <2> HIDE DEF called, calls
  <2> QED BY <1>2, <2>2, FS_Surjection
<1>6. Cardinality(calls) \in Nat /\ Cardinality(called) \in Nat /\ Cardinality(places) \in Nat
  <2>1. IsFiniteSet(calls)
    BY <1>4, FS_Subset
  <2> HIDE DEF calls, called, places
  <2> QED BY <1>2, <2>1, FS_CardinalityType
<1>7. CallsToWrite(r) = Cardinality(places)
  BY DEF CallsToWrite
<1> HIDE DEF called, places
<1> QED BY <1>2, <1>4, <1>5, <1>6, <1>7

\* The session keys among what records state
LEMMA SessionsAreFacts ==
    ASSUME NEW r \in Runs, NEW lines \in SUBSET DOMAIN Records[r]
    PROVE  \A key : key \in SessionsIn(r, lines) <=> IsSession(key) /\ \E n \in lines : key \in Facts[r][n]
<1> DEFINE line(n) == Records[r][n]
<1>1. \A n \in lines : Facts[r][n] = StatedBy(line(n))
  BY RecordsAreNumbered
<1>2. ASSUME NEW n \in lines, line(n).session # None
      PROVE  SessionKeys(line(n))[1] = <<"session", line(n).session>>
             /\ <<"session", line(n).session>> \in Facts[r][n]
  <2>1. SessionKeys(line(n)) = << <<"session", line(n).session>> >>
    BY <1>2 DEF SessionKeys
  <2> HIDE DEF line
  <2>2. <<"session", line(n).session>> \in ToSet(KeysOf("session", line(n)))
    BY <2>1 DEF KeysOf, ToSet
  <2>3. "session" \in ToSet(Tables)
    <3>1. 2 \in DOMAIN Tables /\ Tables[2] = "session"
      BY DEF Tables
    <3> QED BY <3>1 DEF ToSet
  <2> QED BY <1>1, <2>1, <2>2, <2>3 DEF StatedBy
<1>3. ASSUME NEW key, key \in SessionsIn(r, lines)
      PROVE  IsSession(key) /\ \E n \in lines : key \in Facts[r][n]
  <2>1. PICK n \in lines : line(n).session # None /\ key = SessionKeys(line(n))[1]
    BY <1>3 DEF SessionsIn
  <2>2. key = <<"session", line(n).session>> /\ key \in Facts[r][n]
    BY <1>2, <2>1
  <2>3. IsSession(key)
    BY <2>2 DEF IsSession
  <2> QED BY <2>2, <2>3
<1>4. ASSUME NEW key, IsSession(key), NEW n \in lines, key \in Facts[r][n] PROVE key \in SessionsIn(r, lines)
  <2>1. PICK t \in DOMAIN Tables : key \in ToSet(KeysOf(Tables[t], line(n)))
    BY <1>1, <1>4 DEF StatedBy, ToSet
  <2>2. PICK j \in DOMAIN KeysOf(Tables[t], line(n)) : key = KeysOf(Tables[t], line(n))[j]
    BY <2>1 DEF ToSet
  <2>3. line(n).session # None /\ key = <<"session", line(n).session>>
    <3> HIDE DEF line
    <3>1. CASE Tables[t] = "name"
      BY <1>4, <2>2, <3>1 DEF KeysOf, NameKeys, IsSession
    <3>2. CASE Tables[t] = "session"
      BY <2>2, <3>2 DEF KeysOf, SessionKeys
    <3>3. CASE Tables[t] = "model_call"
      BY <1>4, <2>2, <3>3 DEF KeysOf, ModelCallKeys, CallKeys, IsSession
    <3>4. CASE Tables[t] = "tool_call"
      BY <1>4, <2>2, <3>4 DEF KeysOf, ToolCallKeys, CallKeys, IsSession
    <3> QED BY <3>1, <3>2, <3>3, <3>4 DEF Tables
  <2>4. SessionKeys(line(n))[1] = key
    BY <1>2, <2>3
  <2> QED BY <2>3, <2>4 DEF SessionsIn
<1> QED BY <1>3, <1>4

\* Finitely many records state finitely many sessions
LEMMA FinitelyManySessions ==
    ASSUME NEW r \in Runs, NEW lines, IsFiniteSet(lines)
    PROVE  IsFiniteSet(SessionsIn(r, lines))
<1> DEFINE named == {m \in lines : Records[r][m].session # None}
           met == {SessionKeys(Records[r][n])[1] : n \in named}
<1>1. IsFiniteSet(named)
  BY FS_Subset
<1>2. [n \in named |-> SessionKeys(Records[r][n])[1]] \in Surjection(named, met)
  BY DEF Surjection
<1>3. met = SessionsIn(r, lines)
  BY DEF SessionsIn
<1> HIDE DEF named, met
<1> QED BY <1>1, <1>2, <1>3, FS_Surjection

\* Where the calls of some records are
LEMMA CallPlaces ==
    ASSUME NEW r, NEW lines
    PROVE  \A at : at \in CallsIn(r, lines) <=>
              \E t \in {3, 4}, n \in lines : \E i \in DOMAIN KeysOf(Tables[t], Records[r][n]) : at = <<t, n, i>>
<1> DEFINE of(t, n) == {<<t, n, i>> : i \in DOMAIN KeysOf(Tables[t], Records[r][n])}
           all == {of(t, n) : t \in {3, 4}, n \in lines}
<1>1. CallsIn(r, lines) = UNION all
  BY DEF CallsIn
<1>2. \A t, n, at : at \in of(t, n) <=> \E i \in DOMAIN KeysOf(Tables[t], Records[r][n]) : at = <<t, n, i>>
  OBVIOUS
<1> HIDE DEF of
<1>3. \A at : at \in UNION all <=> \E t \in {3, 4}, n \in lines : at \in of(t, n)
  OBVIOUS
<1> QED BY <1>1, <1>2, <1>3

\* The calls of two parts of a file
LEMMA CallsAddUp ==
    ASSUME NEW r, NEW A, NEW B, A \cap B = {}
    PROVE  /\ CallsIn(r, A \cup B) = CallsIn(r, A) \cup CallsIn(r, B)
           /\ CallsIn(r, A) \cap CallsIn(r, B) = {}
<1>1. CallsIn(r, A \cup B) = CallsIn(r, A) \cup CallsIn(r, B)
  <2>1. \A at : at \in CallsIn(r, A \cup B) <=> at \in CallsIn(r, A) \/ at \in CallsIn(r, B)
    BY CallPlaces
  <2> QED BY <2>1
<1>2. \A at : ~(at \in CallsIn(r, A) /\ at \in CallsIn(r, B))
  BY CallPlaces
<1> QED BY <1>1, <1>2

\* The calls a batch is to write are those its records state
LEMMA CallsOfTheBatch ==
    ASSUME NEW r \in Runs, lineNumber[r] \in 0 .. Len(Records[r])
    PROVE  /\ IsFiniteSet(CallsIn(r, BatchLines(r)))
           /\ Cardinality(CallsIn(r, BatchLines(r))) = CallsToWrite(r)
<1> DEFINE from == lineNumber[r]
           size == BatchEnd(r) - from
           places == {at \in RowsToWrite(r) : IsCall(KeyAt(r, at))}
           calls == CallsIn(r, BatchLines(r))
           f == [at \in places |-> <<at[1], from + at[2], at[3]>>]
<1>1. from \in Nat /\ BatchEnd(r) \in from .. Len(Records[r]) /\ Len(Records[r]) \in Nat /\ size \in Nat
  BY RecordsAreNumbered, PlacesAreFacts
<1>2. \A at : at \in RowsToWrite(r) <=>
         \E t \in DOMAIN Tables, i \in 1 .. size :
            \E j \in DOMAIN KeysOf(Tables[t], Records[r][from + i]) : at = <<t, i, j>>
  <2> DEFINE of(t, i) == {<<t, i, j>> : j \in DOMAIN KeysOf(Tables[t], Records[r][lineNumber[r] + i])}
             all == {of(t, i) : t \in DOMAIN Tables, i \in 1 .. size}
  <2>1. RowsToWrite(r) = UNION all
    BY DEF RowsToWrite
  <2>2. \A t, i, at : at \in of(t, i) <=>
           \E j \in DOMAIN KeysOf(Tables[t], Records[r][lineNumber[r] + i]) : at = <<t, i, j>>
    OBVIOUS
  <2> HIDE DEF of, size
  <2>3. \A at : at \in UNION all <=> \E t \in DOMAIN Tables, i \in 1 .. size : at \in of(t, i)
    OBVIOUS
  <2> HIDE DEF all
  <2>4. \A at : at \in RowsToWrite(r) <=> \E t \in DOMAIN Tables, i \in 1 .. size : at \in of(t, i)
    BY <2>1, <2>3
  <2> QED BY <2>2, <2>4
<1>3. ASSUME NEW t \in DOMAIN Tables, NEW i \in 1 .. size,
             NEW j \in DOMAIN KeysOf(Tables[t], Records[r][from + i])
      PROVE  IsCall(KeyAt(r, <<t, i, j>>)) <=> t \in {3, 4}
  <2> DEFINE line == Records[r][from + i]
  <2>1. KeyAt(r, <<t, i, j>>) = KeysOf(Tables[t], line)[j]
    BY DEF KeyAt
  <2> HIDE DEF line
  <2>2. j \in DOMAIN KeysOf(Tables[t], line)
    BY DEF line
  <2>3. t \in 1 .. 4 /\ Tables[1] = "name" /\ Tables[2] = "session" /\ Tables[3] = "model_call" /\ Tables[4] = "tool_call"
    BY DEF Tables
  <2>4. CASE t = 1
    BY <2>1, <2>2, <2>3, <2>4 DEF KeysOf, NameKeys, IsCall
  <2>5. CASE t = 2
    BY <2>1, <2>2, <2>3, <2>5 DEF KeysOf, SessionKeys, IsCall
  <2>6. CASE t = 3
    BY <2>1, <2>2, <2>3, <2>6 DEF KeysOf, ModelCallKeys, CallKeys, IsCall
  <2>7. CASE t = 4
    BY <2>1, <2>2, <2>3, <2>7 DEF KeysOf, ToolCallKeys, CallKeys, IsCall
  <2> QED BY <2>3, <2>4, <2>5, <2>6, <2>7
<1>4. \A at : at \in places <=>
         \E t \in {3, 4}, i \in 1 .. size :
            \E j \in DOMAIN KeysOf(Tables[t], Records[r][from + i]) : at = <<t, i, j>>
  <2>1. {3, 4} \subseteq DOMAIN Tables
    BY DEF Tables
  <2> HIDE DEF size, from
  <2> QED BY <1>2, <1>3, <2>1
<1>5. \A n : n \in BatchLines(r) <=> \E i \in 1 .. size : n = from + i
  <2>1. ASSUME NEW n \in BatchLines(r) PROVE n - from \in 1 .. size /\ n = from + (n - from)
    BY <1>1 DEF BatchLines
  <2>2. \A i \in 1 .. size : from + i \in BatchLines(r)
    BY <1>1 DEF BatchLines
  <2> QED BY <2>1, <2>2
<1>6. IsFiniteSet(places)
  BY FinitelyManyRows, FS_Subset
<1>7. CallsToWrite(r) = Cardinality(places)
  BY DEF CallsToWrite
<1> HIDE DEF from, size, places
<1>8. \A at \in places : f[at] \in calls
  <2>1. ASSUME NEW t \in {3, 4}, NEW i \in 1 .. size, NEW j \in DOMAIN KeysOf(Tables[t], Records[r][from + i]),
               <<t, i, j>> \in places
        PROVE  f[<<t, i, j>>] \in calls
    <3>1. f[<<t, i, j>>] = <<t, from + i, j>>
      BY <2>1
    <3>2. from + i \in BatchLines(r)
      BY <1>5
    <3> QED BY <3>1, <3>2, CallPlaces
  <2> HIDE DEF f, calls
  <2> QED BY <1>4, <2>1
<1>9. \A at \in calls : \E place \in places : f[place] = at
  <2>1. ASSUME NEW at \in calls PROVE \E place \in places : f[place] = at
    <3> PICK t \in {3, 4}, n \in BatchLines(r) :
               \E j \in DOMAIN KeysOf(Tables[t], Records[r][n]) : at = <<t, n, j>>
      BY CallPlaces
    <3> PICK j \in DOMAIN KeysOf(Tables[t], Records[r][n]) : at = <<t, n, j>>
      OBVIOUS
    <3>1. PICK i \in 1 .. size : n = from + i
      BY <1>5
    <3>2. <<t, i, j>> \in places
      BY <1>4, <3>1
    <3>3. f[<<t, i, j>>] = <<t, n, j>>
      BY <3>1, <3>2
    <3> QED BY <3>2, <3>3
  <2> QED BY <2>1
<1>10. \A x, y \in places : f[x] = f[y] => x = y
  <2>1. ASSUME NEW x \in places, NEW y \in places, f[x] = f[y] PROVE x = y
    <3>1. PICK t \in {3, 4}, i \in 1 .. size : \E j \in DOMAIN KeysOf(Tables[t], Records[r][from + i]) : x = <<t, i, j>>
      BY <1>4
    <3>2. PICK u \in {3, 4}, k \in 1 .. size : \E j \in DOMAIN KeysOf(Tables[u], Records[r][from + k]) : y = <<u, k, j>>
      BY <1>4
    <3>3. PICK j : x = <<t, i, j>>
      BY <3>1
    <3>4. PICK l : y = <<u, k, l>>
      BY <3>2
    <3>5. <<t, from + i, j>> = <<u, from + k, l>>
      BY <2>1, <3>3, <3>4
    <3>6. t = u /\ from + i = from + k /\ j = l
      BY <3>5
    <3>7. i = k
      BY <1>1, <3>6 DEF from
    <3> QED BY <3>3, <3>4, <3>6, <3>7
  <2> QED BY <2>1
<1>11. f \in Surjection(places, calls) /\ f \in Injection(places, calls)
  <2>1. f \in [places -> calls]
    <3> HIDE DEF calls
    <3> QED BY <1>8
  <2> HIDE DEF f, calls
  <2> QED BY <1>9, <1>10, <2>1, Fun_IsInj, Fun_IsSurj
<1> HIDE DEF f
<1> QED BY <1>6, <1>7, <1>11, FS_Surjection

\* The counters are numbers, and the sessions they remember are stored
CountersOf(r) ==
    counters[r] \in [imported : Nat, duplicate : Nat, rejected : Nat, sessions : SUBSET Keys(store)]

Counts ==
    /\ counters = [r \in Runs |-> counters[r]]
    /\ \A r \in Runs : CountersOf(r)

LEMMA InitCounts == Init => Counts
BY DEF Init, Counts, CountersOf, NoCount

LEMMA NextCounts == Inv /\ Inv' /\ Counts /\ [Next]_vars => Counts'
<1> SUFFICES ASSUME Inv, Inv', Counts, [Next]_vars PROVE Counts'
  OBVIOUS
<1>1. ASSUME UNCHANGED <<store, counters>> PROVE Counts'
  BY <1>1 DEF Counts, CountersOf, Keys
<1>2. ASSUME NEW r \in Runs, Commit(r) PROVE Counts'
  <2>1. counters' = [counters EXCEPT ![r] = Counted(r)] /\ store \subseteq store'
    BY <1>2 DEF Commit
  <2>2. Keys(store) \subseteq Keys(store')
    BY <2>1 DEF Keys
  <2>3. ASSUME NEW q \in Runs, q # r PROVE CountersOf(q)'
    BY <2>1, <2>2, <2>3 DEF Counts, CountersOf, Keys
  <2>4. counters[r] \in [imported : Nat, duplicate : Nat, rejected : Nat, sessions : SUBSET Keys(store)]
    BY DEF Counts, CountersOf
  <2>5. IsFiniteSet(draft[r])
        /\ LET calls == {row \in draft[r] : IsCall(row.key)}
           IN  Cardinality(calls) \in Nat /\ CallsToWrite(r) - Cardinality(calls) \in Nat
    BY DraftsAreFinite
  <2>6. Cardinality({row \in draft[r] : IsSession(row.key)}) \in Nat
    BY <2>5, FS_Subset, FS_CardinalityType
  <2>7. IsFiniteSet(BatchLines(r))
    <3>1. lineNumber[r] + 1 \in Int /\ BatchEnd(r) \in Int
      BY PlacesAreFacts, RecordsAreNumbered DEF Inv, Types
    <3> QED BY <3>1, FS_Interval DEF BatchLines
  <2>8. Cardinality({n \in BatchLines(r) : Rejected(Records[r][n])}) \in Nat
    BY <2>7, FS_Subset, FS_CardinalityType
  <2>9. IsFiniteSet(DuplicateSessions(r))
    BY <2>7, FinitelyManySessions, FS_Subset DEF DuplicateSessions
  <2>10. Cardinality(DuplicateSessions(r) \ counters[r].sessions) \in Nat
    BY <2>9, FS_Difference, FS_CardinalityType
  <2>11. DuplicateSessions(r) \subseteq Keys(store)
    BY DEF DuplicateSessions, SessionsOfOthers, Keys
  <2>12. Counted(r) \in [imported : Nat, duplicate : Nat, rejected : Nat, sessions : SUBSET Keys(store)]
    BY <2>4, <2>5, <2>6, <2>8, <2>10, <2>11 DEF Counted
  <2>13. CountersOf(r)'
    BY <2>1, <2>2, <2>12 DEF Counts, CountersOf, Keys
  <2> QED BY <2>1, <2>3, <2>13 DEF Counts
<1>3. CASE UNCHANGED vars
  BY <1>1, <1>3 DEF vars
<1>4. ASSUME NEW r \in Runs, RunStep(r) \/ Interrupt(r) PROVE Counts'
  BY <1>1, <1>2, <1>4 DEF RunStep, Start, ReadBatch, ReaderRaises, Insert, SaveReport, DeadlockVictim,
                          Interrupt, RollBack
<1> QED BY <1>3, <1>4 DEF Next

--------------------------------------------------------------------------------
(* The account of a run *)

\* What a run has counted is an account of the records of its committed batches
AccountOf(r) ==
    LET lines == 1 .. lineNumber[r] IN
    /\ IsFiniteSet(OwnRows(r)) /\ counters[r].imported = Cardinality(OwnRows(r))
    /\ IsFiniteSet(CallsIn(r, lines))
    /\ counters[r].imported + counters[r].duplicate
         = Cardinality(SessionsIn(r, lines)) + Cardinality(CallsIn(r, lines))
    /\ counters[r].rejected = Cardinality({n \in lines : Rejected(Records[r][n])})
    /\ counters[r].sessions = SessionsIn(r, lines) \cap SessionsOfOthers(r)

Accounts == \A r \in Runs : AccountOf(r)

LEMMA InitAccounts == Init => Accounts
<1> SUFFICES ASSUME Init, NEW r \in Runs PROVE AccountOf(r)
  BY DEF Accounts
<1>1. store = {} /\ lineNumber[r] = 0 /\ counters[r] = NoCount
  BY DEF Init
<1>2. 1 .. 0 = {} /\ IsFiniteSet({}) /\ Cardinality({}) = 0
  BY FS_EmptySet
<1>3. OwnRows(r) = {} /\ SessionsOfOthers(r) = {}
  BY <1>1 DEF OwnRows, SessionsOfOthers
<1>4. CallsIn(r, {}) = {} /\ SessionsIn(r, {}) = {}
  <2>1. \A at : at \notin CallsIn(r, {})
    BY CallPlaces
  <2>2. SessionsIn(r, {}) = {}
    BY DEF SessionsIn
  <2> QED BY <2>1, <2>2
<1>5. {n \in {} : Rejected(Records[r][n])} = {}
  OBVIOUS
<1> QED BY <1>1, <1>2, <1>3, <1>4, <1>5 DEF AccountOf, NoCount

\* Two disjoint finite sets
LEMMA Disjoint ==
    ASSUME NEW S, NEW T, IsFiniteSet(S), IsFiniteSet(T), S \cap T = {}
    PROVE  IsFiniteSet(S \cup T) /\ Cardinality(S \cup T) = Cardinality(S) + Cardinality(T)
<1>1. /\ IsFiniteSet(S \cup T)
      /\ Cardinality(S \cup T) = Cardinality(S) + Cardinality(T) - Cardinality(S \cap T)
  BY FS_Union
<1>2. Cardinality(S) \in Nat /\ Cardinality(T) \in Nat /\ Cardinality(S \cap T) = 0
  BY FS_CardinalityType, FS_EmptySet
<1>3. Cardinality(S \cup T) = Cardinality(S) + Cardinality(T)
  BY <1>1, <1>2
<1> QED BY <1>1, <1>3

\* The rows of the open transaction of a run are new: nothing stored has their key,
\* and no open transaction of another run has inserted it
LEMMA DraftsAreNew ==
    ASSUME Inv, NEW r \in Runs, NEW row \in draft[r]
    PROVE  /\ row.run = r /\ row.line \in BatchLines(r) /\ row.key \in Facts[r][row.line]
           /\ row.key \notin Keys(store)
<1>1. Types /\ BatchOf(r) /\ OneRowPerKey
  BY DEF Inv
<1>2. PICK at \in RowsToWrite(r) : row = RowAt(r, at)
  BY <1>1 DEF BatchOf
<1>3. row.run = r /\ row.line \in BatchLines(r) /\ row.key \in Facts[r][row.line]
  BY <1>1, <1>2, PlacesAreFacts DEF RowAt, Types
<1>4. ASSUME NEW x \in store, x.key = row.key PROVE FALSE
  <2>1. x = row
    BY <1>1, <1>4 DEF OneRowPerKey
  <2>2. x.line \in 1 .. lineNumber[r]
    BY <1>3, <2>1 DEF Inv, StatedRow
  <2>3. row.line > lineNumber[r]
    BY <1>1, <1>3, RecordsAreNumbered, PlacesAreFacts DEF BatchLines, Types
  <2>4. lineNumber[r] \in Nat
    BY <1>1 DEF Types
  <2> QED BY <2>1, <2>2, <2>3, <2>4
<1> QED BY <1>3, <1>4 DEF Keys

\* The batch of a run that commits, against the batches before it
LEMMA BatchExtends ==
    ASSUME Inv, NEW r \in Runs
    PROVE  LET done == 1 .. lineNumber[r] IN
           /\ 1 .. BatchEnd(r) = done \cup BatchLines(r) /\ done \cap BatchLines(r) = {}
           /\ done \subseteq DOMAIN Records[r] /\ BatchLines(r) \subseteq DOMAIN Records[r]
           /\ IsFiniteSet(done) /\ IsFiniteSet(BatchLines(r))
<1>1. /\ lineNumber[r] \in Nat /\ BatchEnd(r) \in lineNumber[r] .. Len(Records[r])
      /\ Len(Records[r]) \in Nat /\ DOMAIN Records[r] = 1 .. Len(Records[r])
  BY RecordsAreNumbered, PlacesAreFacts DEF Inv, Types
<1>2. \A m, n \in Int : IsFiniteSet(m .. n)
  BY FS_Interval
<1>3. IsFiniteSet(1 .. lineNumber[r]) /\ IsFiniteSet(lineNumber[r] + 1 .. BatchEnd(r))
  <2>1. 1 \in Int /\ lineNumber[r] \in Int /\ lineNumber[r] + 1 \in Int /\ BatchEnd(r) \in Int
    BY <1>1
  <2> QED BY <1>2, <2>1
<1> QED BY <1>1, <1>3 DEF BatchLines

\* The sessions that a batch is the first of its run to state: those it has inserted, and
\* those that others had stored
LEMMA NewSessions ==
    ASSUME Inv, NEW r \in Runs, AccountOf(r), phase[r] = "writing", todo[r] = {}
    PROVE  LET done == 1 .. lineNumber[r]
               sessions == {row \in draft[r] : IsSession(row.key)}
               other == DuplicateSessions(r) \ counters[r].sessions
           IN  /\ IsFiniteSet(SessionsIn(r, done)) /\ IsFiniteSet(sessions) /\ IsFiniteSet(other)
               /\ Cardinality(SessionsIn(r, done \cup BatchLines(r)))
                    = Cardinality(SessionsIn(r, done)) + Cardinality(sessions) + Cardinality(other)
<1> DEFINE done == 1 .. lineNumber[r]
           before == SessionsIn(r, done)
           batch == SessionsIn(r, BatchLines(r))
           sessions == {row \in draft[r] : IsSession(row.key)}
           other == DuplicateSessions(r) \ counters[r].sessions
<1>1. Types /\ BatchOf(r) /\ PrefixOf(r) /\ OneRowPerKey /\ \A row \in store : StatedRow(row)
  BY DEF Inv
<1>2. /\ done \subseteq DOMAIN Records[r] /\ BatchLines(r) \subseteq DOMAIN Records[r]
      /\ IsFiniteSet(done) /\ IsFiniteSet(BatchLines(r))
  BY BatchExtends
<1>3. \A key : key \in before <=> IsSession(key) /\ \E n \in done : key \in Facts[r][n]
  <2>1. done \in SUBSET DOMAIN Records[r]
    BY <1>2
  <2> HIDE DEF done
  <2> QED BY <2>1, SessionsAreFacts
<1>4. \A key : key \in batch <=> IsSession(key) /\ \E n \in BatchLines(r) : key \in Facts[r][n]
  BY <1>2, SessionsAreFacts
<1>5. IsFiniteSet(before) /\ IsFiniteSet(batch) /\ IsFiniteSet(sessions)
  <2>1. IsFiniteSet(draft[r])
    BY DraftsAreFinite
  <2> QED BY <1>2, <2>1, FinitelyManySessions, FS_Subset
<1>6. other = (batch \ before) \cap SessionsOfOthers(r)
  BY DEF AccountOf, DuplicateSessions
<1>7. IsFiniteSet(other)
  <2>1. other \in SUBSET batch
    BY <1>6
  <2> HIDE DEF other, batch
  <2> QED BY <1>5, <2>1, FS_Subset
<1>8. before \subseteq Keys(store)
  BY <1>1, <1>3 DEF PrefixOf
<1>9. ASSUME NEW row \in sessions PROVE row.key \in batch \ before /\ row.key \notin other
  <2>1. row \in draft[r] /\ IsSession(row.key)
    OBVIOUS
  <2>2. row.line \in BatchLines(r) /\ row.key \in Facts[r][row.line] /\ row.key \notin Keys(store)
    BY <2>1, DraftsAreNew
  <2>3. SessionsOfOthers(r) \subseteq Keys(store)
    BY DEF SessionsOfOthers, Keys
  <2> HIDE DEF batch, before, other
  <2> QED BY <1>4, <1>6, <1>8, <2>1, <2>2, <2>3
<1>10. ASSUME NEW key \in batch \ before PROVE key \in Keys(sessions) \cup other
  <2>1. IsSession(key) /\ \E n \in BatchLines(r) : key \in Facts[r][n]
    BY <1>4
  <2>2. PICK at \in RowsToWrite(r) : KeyAt(r, at) = key
    BY <1>1, <2>1, PlacesAreFacts DEF Types
  <2>3. PICK row \in store \cup draft[r] : row.key = key
    BY <1>1, <2>2 DEF BatchOf, Keys
  <2>4. CASE row \in draft[r]
    BY <2>1, <2>3, <2>4 DEF Keys
  <2>5. CASE row \in store
    <3>1. row.run # r
      <4>1. row.run = r => row.line \in done /\ key \in Facts[r][row.line]
        BY <1>1, <2>3, <2>5 DEF StatedRow
      <4> HIDE DEF before, done, batch
      <4> QED BY <1>3, <1>10, <2>1, <4>1
    <3>2. key \in SessionsOfOthers(r)
      BY <2>1, <2>3, <2>5, <3>1 DEF SessionsOfOthers
    <3> HIDE DEF before, batch, other
    <3> QED BY <1>6, <1>10, <3>2
  <2> QED BY <2>3, <2>4, <2>5
<1>11. batch \ before = Keys(sessions) \cup other /\ Keys(sessions) \cap other = {}
  <2>1. \A key : key \in Keys(sessions) <=> \E row \in sessions : key = row.key
    BY DEF Keys
  <2>2. other \subseteq batch \ before
    BY <1>6
  <2> HIDE DEF before, batch, other, sessions
  <2> QED BY <1>9, <1>10, <2>1, <2>2
<1>12. IsFiniteSet(Keys(sessions)) /\ Cardinality(Keys(sessions)) = Cardinality(sessions)
  <2> DEFINE f == [row \in sessions |-> row.key]
  <2>1. \A x, y \in sessions : x.key = y.key => x = y
    BY <1>1 DEF OneRowPerKey
  <2>2. f \in [sessions -> Keys(sessions)]
    BY DEF Keys
  <2>3. \A key \in Keys(sessions) : \E row \in sessions : f[row] = key
    BY DEF Keys
  <2>4. \A x, y \in sessions : f[x] = f[y] => x = y
    <3> HIDE DEF sessions
    <3> QED BY <2>1
  <2> HIDE DEF f, sessions
  <2>5. f \in Surjection(sessions, Keys(sessions)) /\ f \in Injection(sessions, Keys(sessions))
    BY <2>2, <2>3, <2>4, Fun_IsInj, Fun_IsSurj
  <2> QED BY <1>5, <2>5, FS_Surjection
<1>13. SessionsIn(r, done \cup BatchLines(r)) = before \cup (batch \ before)
  <2>1. \A key : key \in SessionsIn(r, done \cup BatchLines(r)) <=>
           IsSession(key) /\ \E n \in done \cup BatchLines(r) : key \in Facts[r][n]
    <3>1. done \cup BatchLines(r) \in SUBSET DOMAIN Records[r]
      BY <1>2
    <3> QED BY ZenonT(40), <3>1, SessionsAreFacts
  <2> HIDE DEF before, batch, done
  <2> QED BY <1>3, <1>4, <2>1
<1> HIDE DEF before, batch, other, sessions, done
<1>14. Cardinality(Keys(sessions) \cup other) = Cardinality(sessions) + Cardinality(other)
       /\ IsFiniteSet(Keys(sessions) \cup other)
  BY <1>7, <1>11, <1>12, Disjoint
<1>15. Cardinality(before \cup (batch \ before)) = Cardinality(before) + Cardinality(batch \ before)
  <2>1. before \cap (batch \ before) = {} /\ IsFiniteSet(batch \ before)
    BY <1>11, <1>14
  <2> QED BY <1>5, <2>1, Disjoint
<1>16. Cardinality(before) \in Nat /\ Cardinality(sessions) \in Nat /\ Cardinality(other) \in Nat
  BY <1>5, <1>7, FS_CardinalityType
<1>17. Cardinality(SessionsIn(r, done \cup BatchLines(r)))
         = Cardinality(before) + Cardinality(sessions) + Cardinality(other)
  <2>1. Cardinality(batch \ before) = Cardinality(sessions) + Cardinality(other)
    BY <1>11, <1>14
  <2>2. Cardinality(SessionsIn(r, done \cup BatchLines(r)))
          = Cardinality(before) + (Cardinality(sessions) + Cardinality(other))
    BY <1>13, <1>15, <2>1, Zenon
  <2>3. \A a, b, c \in Nat : a + (b + c) = a + b + c
    OBVIOUS
  <2>4. Cardinality(before) + (Cardinality(sessions) + Cardinality(other))
          = Cardinality(before) + Cardinality(sessions) + Cardinality(other)
    BY <1>16, <2>3
  <2> QED BY <2>2, <2>4, Zenon
<1> QED BY <1>5, <1>7, <1>17 DEF before, sessions, other, done

\* The account of another run is as it was when r commits
LEMMA OthersAreCounted ==
    ASSUME Inv, Inv', NEW r \in Runs, Commit(r), counters = [q \in Runs |-> counters[q]],
           NEW q \in Runs \ {r}, AccountOf(q)
    PROVE  AccountOf(q)'
<1>1. /\ store' = store \cup draft[r] /\ lineNumber'[q] = lineNumber[q] /\ counters'[q] = counters[q]
  BY DEF Commit, Inv, Types
<1>2. OwnRows(q)' = OwnRows(q)
  <2>1. \A row \in draft[r] : row.run # q
    BY DraftsAreNew
  <2> QED BY <1>1, <2>1 DEF OwnRows
<1> DEFINE met == SessionsIn(q, 1 .. lineNumber[q])
<1>3. met \cap SessionsOfOthers(q)' = met \cap SessionsOfOthers(q)
  <2>1. 1 .. lineNumber[q] \in SUBSET DOMAIN Records[q]
    BY BatchExtends
  <2>2. \A key \in met : \E n \in 1 .. lineNumber[q] : key \in Facts[q][n]
    BY <2>1, SessionsAreFacts
  <2>3. met \subseteq Keys(store)
    BY <2>2 DEF Inv, PrefixOf
  <2>4. \A row \in draft[r] : row.key \notin Keys(store)
    BY DraftsAreNew
  <2>5. \A key : key \in SessionsOfOthers(q) <=> \E row \in store : IsSession(row.key) /\ row.run # q /\ key = row.key
    BY DEF SessionsOfOthers
  <2>6. \A key : key \in SessionsOfOthers(q)' <=>
                   \E row \in store' : IsSession(row.key) /\ row.run # q /\ key = row.key
    BY DEF SessionsOfOthers
  <2> HIDE DEF met
  <2> QED BY <1>1, <2>3, <2>4, <2>5, <2>6
<1> QED BY <1>1, <1>2, <1>3 DEF AccountOf

\* The account of a run that commits has the records of its batch
LEMMA CommitCounts ==
    ASSUME Inv, Inv', NEW r \in Runs, Commit(r), Counts, AccountOf(r)
    PROVE  AccountOf(r)'
<1> DEFINE done == 1 .. lineNumber[r]
           batch == BatchLines(r)
           sessions == {row \in draft[r] : IsSession(row.key)}
           calls == {row \in draft[r] : IsCall(row.key)}
           other == DuplicateSessions(r) \ counters[r].sessions
           refused(lines) == {n \in lines : Rejected(Records[r][n])}
           count == counters[r]
<1>1. /\ phase[r] = "writing" /\ todo[r] = {} /\ store' = store \cup draft[r]
      /\ lineNumber'[r] = BatchEnd(r) /\ counters'[r] = Counted(r)
  BY DEF Commit, Inv, Types, Counts
<1>2. /\ 1 .. BatchEnd(r) = done \cup batch /\ done \cap batch = {}
      /\ IsFiniteSet(done) /\ IsFiniteSet(batch)
  BY BatchExtends
<1>3. /\ count.imported \in Nat /\ count.duplicate \in Nat /\ count.rejected \in Nat
  BY DEF Counts, CountersOf
<1>4. /\ IsFiniteSet(draft[r]) /\ Cardinality(calls) \in Nat /\ CallsToWrite(r) - Cardinality(calls) \in Nat
  BY DraftsAreFinite
<1>5. /\ IsFiniteSet(SessionsIn(r, done)) /\ IsFiniteSet(sessions) /\ IsFiniteSet(other)
      /\ Cardinality(SessionsIn(r, done \cup batch))
           = Cardinality(SessionsIn(r, done)) + Cardinality(sessions) + Cardinality(other)
  BY <1>1, NewSessions
<1>6. /\ Cardinality(SessionsIn(r, done)) \in Nat /\ Cardinality(sessions) \in Nat /\ Cardinality(other) \in Nat
  BY <1>5, FS_CardinalityType
<1>7. /\ IsFiniteSet(OwnRows(r)')
      /\ Cardinality(OwnRows(r)') = Cardinality(OwnRows(r)) + Cardinality(sessions) + Cardinality(calls)
  <2>1. \A row \in draft[r] : row.run = r /\ row.key \notin Keys(store)
    BY DraftsAreNew
  <2>2. \A row \in draft[r] : row \notin store
    BY <2>1 DEF Keys
  <2>3. OwnRows(r)' = OwnRows(r) \cup (sessions \cup calls)
    BY <1>1, <2>1 DEF OwnRows
  <2>4. OwnRows(r) \cap (sessions \cup calls) = {}
    BY <2>2 DEF OwnRows
  <2>5. sessions \cap calls = {}
    BY DEF IsSession, IsCall
  <2>6. IsFiniteSet(calls) /\ IsFiniteSet(OwnRows(r)) /\ Cardinality(OwnRows(r)) \in Nat
    BY <1>4, FS_Subset, FS_CardinalityType DEF AccountOf
  <2> HIDE DEF sessions, calls
  <2>7. IsFiniteSet(sessions \cup calls) /\ Cardinality(sessions \cup calls) = Cardinality(sessions) + Cardinality(calls)
    BY <1>5, <2>5, <2>6, Disjoint
  <2>8. /\ IsFiniteSet(OwnRows(r) \cup (sessions \cup calls))
        /\ Cardinality(OwnRows(r) \cup (sessions \cup calls)) = Cardinality(OwnRows(r)) + Cardinality(sessions \cup calls)
    BY <2>4, <2>6, <2>7, Disjoint
  <2>9. \A a, b, c \in Nat : a + (b + c) = a + b + c
    OBVIOUS
  <2>10. Cardinality(OwnRows(r)) + (Cardinality(sessions) + Cardinality(calls))
           = Cardinality(OwnRows(r)) + Cardinality(sessions) + Cardinality(calls)
    BY <1>4, <1>6, <2>6, <2>9 DEF calls
  <2> QED BY <2>3, <2>7, <2>8, <2>10, Zenon
<1>8. /\ IsFiniteSet(CallsIn(r, done \cup batch))
      /\ Cardinality(CallsIn(r, done \cup batch)) = Cardinality(CallsIn(r, done)) + CallsToWrite(r)
      /\ Cardinality(CallsIn(r, done)) \in Nat
  <2>1. /\ CallsIn(r, done \cup batch) = CallsIn(r, done) \cup CallsIn(r, batch)
        /\ CallsIn(r, done) \cap CallsIn(r, batch) = {}
    <3> HIDE DEF done, batch
    <3> QED BY <1>2, CallsAddUp
  <2>2. IsFiniteSet(CallsIn(r, batch)) /\ Cardinality(CallsIn(r, batch)) = CallsToWrite(r)
    BY CallsOfTheBatch DEF Inv, Types
  <2>3. IsFiniteSet(CallsIn(r, done))
    BY DEF AccountOf
  <2> HIDE DEF done, batch
  <2> QED BY ZenonT(40), <2>1, <2>2, <2>3, Disjoint, FS_CardinalityType
<1>9. Cardinality(refused(done \cup batch)) = Cardinality(refused(done)) + Cardinality(refused(batch))
  <2>1. refused(done \cup batch) = refused(done) \cup refused(batch) /\ refused(done) \cap refused(batch) = {}
    BY <1>2
  <2>2. IsFiniteSet(refused(done)) /\ IsFiniteSet(refused(batch))
    BY <1>2, FS_Subset
  <2> HIDE DEF refused
  <2> QED BY <2>1, <2>2, Disjoint
<1>10. /\ counters'[r].imported = count.imported + Cardinality(sessions) + Cardinality(calls)
       /\ counters'[r].duplicate = count.duplicate + Cardinality(other) + CallsToWrite(r) - Cardinality(calls)
       /\ counters'[r].rejected = count.rejected + Cardinality(refused(batch))
       /\ counters'[r].sessions = count.sessions \cup DuplicateSessions(r)
  BY <1>1 DEF Counted
<1>11. counters'[r].sessions = SessionsIn(r, done \cup batch) \cap SessionsOfOthers(r)'
  <2>1. /\ \A key : key \in SessionsIn(r, done) <=> IsSession(key) /\ \E n \in done : key \in Facts[r][n]
        /\ \A key : key \in SessionsIn(r, batch) <=> IsSession(key) /\ \E n \in batch : key \in Facts[r][n]
        /\ \A key : key \in SessionsIn(r, done \cup batch) <=>
              IsSession(key) /\ \E n \in done \cup batch : key \in Facts[r][n]
    <3>1. done \in SUBSET DOMAIN Records[r] /\ batch \in SUBSET DOMAIN Records[r]
      BY BatchExtends
    <3>2. done \cup batch \in SUBSET DOMAIN Records[r]
      BY <3>1
    <3> HIDE DEF done, batch
    <3> QED BY <3>1, <3>2, SessionsAreFacts
  <2>2. \A row \in draft[r] : row.run = r
    BY DraftsAreNew
  <2>3. SessionsOfOthers(r)' = SessionsOfOthers(r)
    BY <1>1, <2>2 DEF SessionsOfOthers
  <2>4. count.sessions = SessionsIn(r, done) \cap SessionsOfOthers(r)
    BY DEF AccountOf
  <2>5. DuplicateSessions(r) = SessionsOfOthers(r) \cap SessionsIn(r, batch)
    BY DEF DuplicateSessions
  <2> HIDE DEF done, batch
  <2>6. SessionsIn(r, done \cup batch) = SessionsIn(r, done) \cup SessionsIn(r, batch)
    BY <2>1
  <2> QED BY <1>10, <2>3, <2>4, <2>5, <2>6
<1>12. /\ count.imported = Cardinality(OwnRows(r))
       /\ count.imported + count.duplicate = Cardinality(SessionsIn(r, done)) + Cardinality(CallsIn(r, done))
       /\ count.rejected = Cardinality(refused(done))
  BY DEF AccountOf
<1>13. counters'[r].imported + counters'[r].duplicate
         = Cardinality(SessionsIn(r, done \cup batch)) + Cardinality(CallsIn(r, done \cup batch))
  <2>1. CallsToWrite(r) \in Int
    BY <1>2, <1>8, CallsOfTheBatch, FS_CardinalityType DEF Inv, Types
  <2> HIDE DEF done, batch, sessions, calls, other, count
  <2>2. \A i, d, s, c, o, w, ss, cc \in Int :
           i + d = ss + cc => (i + s + c) + (d + o + w - c) = (ss + s + o) + (cc + w)
    OBVIOUS
  <2>3. Cardinality(calls) \in Int /\ count.imported \in Int /\ count.duplicate \in Int
        /\ Cardinality(sessions) \in Int /\ Cardinality(other) \in Int
        /\ Cardinality(SessionsIn(r, done)) \in Int /\ Cardinality(CallsIn(r, done)) \in Int
    BY <1>3, <1>4, <1>6, <1>8 DEF calls
  <2>4. (count.imported + Cardinality(sessions) + Cardinality(calls))
          + (count.duplicate + Cardinality(other) + CallsToWrite(r) - Cardinality(calls))
          = (Cardinality(SessionsIn(r, done)) + Cardinality(sessions) + Cardinality(other))
              + (Cardinality(CallsIn(r, done)) + CallsToWrite(r))
    BY <1>12, <2>1, <2>2, <2>3
  <2> QED BY <1>5, <1>8, <1>10, <2>4, Zenon
<1>14. counters'[r].imported = Cardinality(OwnRows(r)')
  BY <1>7, <1>10, <1>12, Zenon
<1>15. counters'[r].rejected = Cardinality(refused(done \cup batch))
  BY <1>9, <1>10, <1>12, Zenon
<1>16. 1 .. lineNumber'[r] = done \cup batch
  BY <1>1, <1>2
<1>17. /\ counters'[r].sessions = SessionsIn(r, 1 .. lineNumber'[r]) \cap SessionsOfOthers(r)'
       /\ counters'[r].imported + counters'[r].duplicate
            = Cardinality(SessionsIn(r, 1 .. lineNumber'[r])) + Cardinality(CallsIn(r, 1 .. lineNumber'[r]))
       /\ IsFiniteSet(CallsIn(r, 1 .. lineNumber'[r]))
       /\ counters'[r].rejected = Cardinality(refused(1 .. lineNumber'[r]))
  BY <1>8, <1>11, <1>13, <1>15, <1>16, Zenon
<1> QED BY <1>7, <1>14, <1>17 DEF AccountOf

LEMMA NextAccounts == Inv /\ Inv' /\ Counts /\ Accounts /\ [Next]_vars => Accounts'
<1> SUFFICES ASSUME Inv, Inv', Counts, Accounts, [Next]_vars PROVE Accounts'
  OBVIOUS
<1>1. ASSUME UNCHANGED <<store, lineNumber, counters>> PROVE Accounts'
  BY <1>1 DEF Accounts, AccountOf, OwnRows, SessionsOfOthers
<1>2. ASSUME NEW r \in Runs, Commit(r) PROVE Accounts'
  <2>1. counters = [q \in Runs |-> counters[q]]
    BY DEF Counts
  <2>2. \A q \in Runs : AccountOf(q)
    BY DEF Accounts
  <2>3. \A q \in Runs \ {r} : AccountOf(q)'
    BY <1>2, <2>1, <2>2, OthersAreCounted
  <2>4. AccountOf(r)'
    BY <1>2, <2>2, CommitCounts
  <2> QED BY <2>3, <2>4 DEF Accounts
<1>3. CASE UNCHANGED vars
  BY <1>1, <1>3 DEF vars
<1>4. ASSUME NEW r \in Runs, RunStep(r) \/ Interrupt(r) PROVE Accounts'
  BY <1>1, <1>2, <1>4 DEF RunStep, Start, ReadBatch, ReaderRaises, Insert, SaveReport, DeadlockVictim,
                          Interrupt, RollBack
<1> QED BY <1>3, <1>4 DEF Next

--------------------------------------------------------------------------------
(* The theorems *)

\* Every variable keeps its type; in particular no call is counted as a duplicate
\* more often than its batches state it.
THEOREM TypeCorrect == Spec => []TypeOK
<1>1. Spec => []Counts
  BY InitCounts, NextCounts, BatchesInvariant, PTL DEF Spec
<1>2. ASSUME Inv, Counts PROVE TypeOK
  <2>1. Types /\ \A r \in Runs : BatchOf(r)
    BY <1>2 DEF Inv
  <2>2. ASSUME NEW row \in store PROVE row.run \in Runs /\ row.line \in DOMAIN Records[row.run]
    BY <1>2, <2>1, <2>2, RecordsAreNumbered DEF Inv, Types, Row, StatedRow
  <2>3. ASSUME NEW r \in Runs, NEW row \in draft[r] PROVE row.run = r /\ row.line \in BatchLines(r)
    <3>1. PICK at \in RowsToWrite(r) : row = RowAt(r, at)
      BY <2>1, <2>3 DEF BatchOf
    <3> QED BY <2>1, <3>1, RowsAreRows
  <2>4. ASSUME NEW r \in Runs
        PROVE  /\ lineNumber[r] \in 0 .. Len(Records[r])
               /\ todo[r] \subseteq RowsToWrite(r)
               /\ counters[r].imported \in Nat /\ counters[r].duplicate \in Nat
               /\ counters[r].rejected \in Nat
               /\ counters[r].sessions \subseteq Keys(store)
    BY <1>2, <2>1 DEF Types, BatchOf, Counts, CountersOf
  <2> QED BY <2>1, <2>2, <2>3, <2>4 DEF TypeOK, Types
<1> QED BY <1>1, <1>2, BatchesInvariant, PTL

\* A run that saved its report leaves every name, session and call of its file in
\* the database, whatever else ran, failed or was aborted (run_import.py:146, sql.py:127).
THEOREM NothingIsLost == Spec => []NothingLost
<1>1. ASSUME Inv, NEW r \in Runs, phase[r] = "reported" PROVE UNION ToSet(Facts[r]) \subseteq Keys(store)
  <2>1. lineNumber[r] = Len(Records[r]) /\ \A n \in 1 .. lineNumber[r] : Facts[r][n] \subseteq Keys(store)
    BY <1>1 DEF Inv, PrefixOf
  <2>2. DOMAIN Facts[r] = 1 .. lineNumber[r]
    BY <2>1, RecordsAreNumbered
  <2> QED BY <2>1, <2>2 DEF ToSet
<1>2. Inv => NothingLost
  BY <1>1 DEF NothingLost
<1> QED BY <1>2, BatchesInvariant, PTL

\* A report accounts for its file: imported are the sessions and calls that point at the run,
\* and each distinct session and each call met is imported or a duplicate, however often a
\* session returns in other batches and other runs (run_import.py:256).
THEOREM ReportsAreExact == Spec => []ReportIsExact
<1>1. ASSUME Inv, Accounts, NEW r \in Runs, phase[r] = "reported" PROVE 1 .. lineNumber[r] = DOMAIN Records[r]
  BY <1>1, RecordsAreNumbered DEF Inv, PrefixOf
<1>2. Inv /\ Accounts => ReportIsExact
  BY <1>1 DEF ReportIsExact, Accounts, AccountOf
<1>3. Spec => []Counts
  BY InitCounts, NextCounts, BatchesInvariant, PTL DEF Spec
<1>4. Spec => []Accounts
  BY <1>3, InitAccounts, NextAccounts, BatchesInvariant, PTL DEF Spec
<1> QED BY <1>2, <1>4, BatchesInvariant, PTL

\* From any stored row back to the record that states it (run_import.py:144).
THEOREM RowsHaveTheirRecord == Spec => []Provenance
<1>1. Inv => Provenance
  BY DEF Inv, StatedRow, Provenance
<1> QED BY <1>1, BatchesInvariant, PTL

\* No natural key is stored twice, although each run looks only at what is committed
\* and at its own transaction (sql.py:123).
THEOREM KeysAreUnique == Spec => [](\A x, y \in store : x.key = y.key => x = y)
<1>1. Inv => \A x, y \in store : x.key = y.key => x = y
  BY DEF Inv, OneRowPerKey
<1> QED BY <1>1, BatchesInvariant, PTL

\* The keys of one table of a record, one lemma for each shape of key.
LEMMA NoCallAmongNames == ASSUME NEW line, NEW j \in DOMAIN NameKeys(line) PROVE ~IsCall(NameKeys(line)[j])
<1>1. NameKeys(line)[j] = <<"name", line.names[j]>>
  BY DEF NameKeys
<1> QED BY <1>1 DEF IsCall

LEMMA NoCallAmongSessions ==
    ASSUME NEW line, NEW j \in DOMAIN SessionKeys(line) PROVE ~IsCall(SessionKeys(line)[j])
<1>1. CASE line.session = None
  BY <1>1 DEF SessionKeys
<1>2. CASE line.session # None
  <2>1. SessionKeys(line) = << <<"session", line.session>> >>
    BY <1>2 DEF SessionKeys
  <2>2. SessionKeys(line)[j] = <<"session", line.session>>
    BY <2>1
  <2> QED BY <2>2 DEF IsCall
<1> QED BY <1>1, <1>2

LEMMA CallsNameTheirSession ==
    ASSUME NEW table, NEW line, NEW calls, NEW j \in DOMAIN CallKeys(table, line, calls)
    PROVE line.session # None /\ CallKeys(table, line, calls)[j][2] = line.session
<1>1. CASE line.session = None
  BY <1>1 DEF CallKeys
<1>2. CASE line.session # None
  <2>1. CallKeys(table, line, calls) = [i \in DOMAIN calls |-> <<table, line.session, IndexOf(calls, i)>>]
    BY <1>2 DEF CallKeys
  <2>2. CallKeys(table, line, calls)[j] = <<table, line.session, IndexOf(calls, j)>>
    BY <2>1
  <2> QED BY <1>2, <2>2
<1> QED BY <1>1, <1>2

\* A call is never stored without its session: batches may fail between any two.
THEOREM NoOrphanCall ==
    Spec => [](\A row \in store : IsCall(row.key) => <<"session", row.key[2]>> \in Keys(store))
<1>1. ASSUME Inv, NEW row \in store, IsCall(row.key) PROVE <<"session", row.key[2]>> \in Keys(store)
  <2>1. /\ row.run \in Runs /\ row.line \in 1 .. lineNumber[row.run] /\ row.key \in Facts[row.run][row.line]
        /\ Facts[row.run][row.line] \subseteq Keys(store)
        /\ lineNumber[row.run] \in 0 .. Len(Records[row.run])
    BY <1>1 DEF Inv, Types, Row, StatedRow, PrefixOf
  <2> DEFINE line == Records[row.run][row.line]
  <2>2. Facts[row.run][row.line] = StatedBy(line)
    BY <2>1, RecordsAreNumbered
  <2>3. PICK t \in DOMAIN Tables : row.key \in ToSet(KeysOf(Tables[t], line))
    BY <2>1, <2>2 DEF StatedBy, ToSet
  <2>4. line.session # None /\ row.key[2] = line.session
    <3>1. PICK j \in DOMAIN KeysOf(Tables[t], line) : row.key = KeysOf(Tables[t], line)[j]
      BY <2>3 DEF ToSet
    <3> HIDE DEF line
    <3>2. CASE Tables[t] = "name"
      <4>1. KeysOf(Tables[t], line) = NameKeys(line)
        BY <3>2 DEF KeysOf
      <4> QED BY <1>1, <3>1, <4>1, NoCallAmongNames
    <3>3. CASE Tables[t] = "session"
      <4>1. KeysOf(Tables[t], line) = SessionKeys(line)
        BY <3>3 DEF KeysOf
      <4> QED BY <1>1, <3>1, <4>1, NoCallAmongSessions
    <3>4. CASE Tables[t] = "model_call"
      <4>1. KeysOf(Tables[t], line) = CallKeys("model_call", line, line.model_calls)
        BY <3>4 DEF KeysOf, ModelCallKeys
      <4> QED BY <3>1, <4>1, CallsNameTheirSession
    <3>5. CASE Tables[t] = "tool_call"
      <4>1. KeysOf(Tables[t], line) = CallKeys("tool_call", line, line.tool_calls)
        BY <3>5 DEF KeysOf, ToolCallKeys
      <4> QED BY <3>1, <4>1, CallsNameTheirSession
    <3> QED BY <3>2, <3>3, <3>4, <3>5 DEF Tables
  <2>5. <<"session", line.session>> \in StatedBy(line)
    <3>1. SessionKeys(line) = << <<"session", line.session>> >>
      BY <2>4 DEF SessionKeys
    <3>2. <<"session", line.session>> \in ToSet(KeysOf("session", line))
      BY SMTT(30), <3>1 DEF KeysOf, ToSet
    <3>3. "session" \in ToSet(Tables)
      <4>1. 2 \in DOMAIN Tables /\ Tables[2] = "session"
        BY DEF Tables
      <4> QED BY <4>1 DEF ToSet
    <3> QED BY <3>2, <3>3 DEF StatedBy
  <2> QED BY <2>1, <2>2, <2>4, <2>5
<1>2. Inv => \A row \in store : IsCall(row.key) => <<"session", row.key[2]>> \in Keys(store)
  BY <1>1
<1> QED BY <1>2, BatchesInvariant, PTL

\* Every step adds the next records of one file, whole, or ends one run, or shows
\* nothing: the transactions, their waits and their deadlocks are not observable.
THEOREM Implements == Spec => StoreSpec
<1> DEFINE outcome == [r \in Runs |-> CASE phase[r] = "reported" -> "complete"
                                        [] phase[r] = "failed"   -> "failed"
                                        [] OTHER                 -> "open"]
           shown == <<Keys(store), lineNumber, outcome>>
           TracesStep == Traces!Next \/ UNCHANGED shown
<1>1. Init => Traces!Init
  BY DEF Init, Traces!Init, Keys
<1>2. ASSUME Inv, Inv', [Next]_vars PROVE TracesStep
  <2>1. Types /\ \A r \in Runs : BatchOf(r)
    BY <1>2 DEF Inv
  <2>2. ASSUME NEW r \in Runs, Become(r, "reading"), UNCHANGED <<store, lineNumber>>,
               phase[r] \in {"queued", "reading"}
        PROVE  TracesStep
    <3>1. outcome' = outcome
      BY <2>1, <2>2 DEF Become, Types
    <3> QED BY <2>2, <3>1 DEF Keys
  <2>3. ASSUME NEW r \in Runs, Become(r, "writing"), UNCHANGED <<store, lineNumber>>, phase[r] = "reading"
        PROVE  TracesStep
    <3>1. outcome' = outcome
      BY <2>1, <2>3 DEF Become, Types
    <3> QED BY <2>3, <3>1 DEF Keys
  <2>4. ASSUME UNCHANGED <<store, lineNumber, phase>> PROVE TracesStep
    BY <2>4 DEF Keys
  <2>5. ASSUME NEW r \in Runs, SaveReport(r) PROVE TracesStep
    <3>1. outcome[r] = "open" /\ outcome' = [outcome EXCEPT ![r] = "complete"]
      BY <2>1, <2>5 DEF SaveReport, Become, Types
    <3>2. lineNumber[r] = Len(Facts[r]) /\ Keys(store)' = Keys(store) /\ lineNumber' = lineNumber
      BY <2>5, RecordsAreNumbered DEF SaveReport, Keys
    <3>3. Traces!Complete(r)
      BY <3>1, <3>2 DEF Traces!Complete
    <3> QED BY <3>3 DEF Traces!Next
  <2>6. ASSUME NEW r \in Runs, RollBack(r), phase[r] \in {"reading", "writing"} PROVE TracesStep
    <3>1. outcome[r] = "open" /\ outcome' = [outcome EXCEPT ![r] = "failed"]
      BY <2>1, <2>6 DEF RollBack, Become, Types
    <3>2. Keys(store)' = Keys(store) /\ lineNumber' = lineNumber
      BY <2>6 DEF RollBack, Keys
    <3>3. Traces!Fail(r)
      BY <3>1, <3>2 DEF Traces!Fail
    <3> QED BY <3>3 DEF Traces!Next
  <2>7. ASSUME NEW r \in Runs, Commit(r) PROVE TracesStep
    <3> DEFINE added == UNION {Facts[r][i] : i \in lineNumber[r] + 1 .. BatchEnd(r)}
    <3>1. outcome[r] = "open" /\ outcome' = outcome
      BY <2>1, <2>7 DEF Commit, Become, Types
    <3>2. lineNumber' = [lineNumber EXCEPT ![r] = BatchEnd(r)]
          /\ BatchEnd(r) \in lineNumber[r] + 1 .. Len(Facts[r])
      <4>1. lineNumber[r] \in Nat /\ Len(Records[r]) \in Nat /\ Len(Facts[r]) = Len(Records[r])
            /\ lineNumber[r] \in 0 .. Len(Records[r])
        BY <2>1, RecordsAreNumbered DEF Types
      <4>2. lineNumber[r] < Len(Records[r])
        BY <2>1, <2>7 DEF Commit, BatchOf
      <4>3. BatchEnd(r) \in lineNumber[r] .. Len(Records[r]) /\ lineNumber[r] < BatchEnd(r)
        BY <4>1, <4>2, PlacesAreFacts
      <4>4. BatchEnd(r) \in lineNumber[r] + 1 .. Len(Facts[r])
        BY <4>1, <4>3
      <4> QED BY <2>7, <4>4 DEF Commit
    <3>3. Keys(store)' = Keys(store) \cup Keys(draft[r])
      BY <2>7 DEF Commit, Keys
    <3>4. Keys(draft[r]) \subseteq added
      BY <2>1, <2>7, RowsAreRows DEF Commit, BatchOf, Keys, BatchLines
    <3>5. added \subseteq Keys(store) \cup Keys(draft[r])
      <4>1. \A at \in RowsToWrite(r) : KeyAt(r, at) \in Keys(store \cup draft[r])
        BY <2>1, <2>7 DEF Commit, BatchOf
      <4>2. \A n \in BatchLines(r) : \A key \in Facts[r][n] :
               \E at \in RowsToWrite(r) : KeyAt(r, at) = key
        BY <2>1, PlacesAreFacts DEF Types
      <4> QED BY <4>1, <4>2 DEF BatchLines, Keys
    <3>6. Keys(store)' = Keys(store) \cup added
      <4> HIDE DEF added
      <4> QED BY <3>3, <3>4, <3>5
    <3>7. \E n \in lineNumber[r] + 1 .. Len(Facts[r]) :
            /\ Keys(store)' = Keys(store) \cup UNION {Facts[r][i] : i \in lineNumber[r] + 1 .. n}
            /\ lineNumber' = [lineNumber EXCEPT ![r] = n]
      BY <3>2, <3>6
    <3>8. Traces!Add(r)
      BY <3>1, <3>7 DEF Traces!Add
    <3> QED BY <3>8 DEF Traces!Next
  <2>8. ASSUME NEW r \in Runs, Deadlocked(r) PROVE phase[r] = "writing"
    BY <2>8 DEF Deadlocked, WaitsFor
  <2> HIDE DEF TracesStep
  <2>9. ASSUME NEW r \in Runs, RunStep(r) \/ Interrupt(r) PROVE TracesStep
    BY <2>9, <2>2, <2>3, <2>4, <2>5, <2>6, <2>7, <2>8
       DEF RunStep, Start, ReadBatch, ReaderRaises, Insert, DeadlockVictim, Interrupt
  <2> QED BY <1>2, <2>4, <2>9 DEF Next, vars
<1>3. Inv /\ Inv' /\ [Next]_vars => [Traces!Next]_shown
  BY <1>2
<1> QED BY <1>1, <1>3, BatchesInvariant, PTL DEF Spec, StoreSpec, Traces!Spec
================================================================================
