----------------------- MODULE NativeInlineWriterProofs -----------------------
(***************************************************************************)
(* The native inline writer implements the atomic appends of               *)
(* DuckLakeCatalog, for any number of statements, DuckLake transactions,   *)
(* tables, retries and reserved candidate IDs; and DuckLakeCatalog keeps   *)
(* its promises, which are then the writer's.                              *)
(*                                                                         *)
(* The argument: the claim is the only thing that orders writers, and it   *)
(* is made after the catalog was read.  A claim that succeeds shows that   *)
(* the snapshot after the one that was read does not exist; since the      *)
(* snapshots after it are all kept while an attempt runs, nothing has been *)
(* committed since the read.  The held key keeps it that way until the     *)
(* commit.                                                                 *)
(***************************************************************************)
EXTENDS NativeInlineWriter, TLAPS

(* Most leaves are first-order: Zenon is tried unless another is named.    *)
USE Zenon

-----------------------------------------------------------------------------
(* The abstract catalog keeps its promises, for any tables, any values and *)
(* any bounds.                                                             *)

(* A number in the set of snapshots that bounds it is what Latest chooses. *)
LEMMA LatestIs ==
  ASSUME CatalogTypeOK,
         NEW s \in DOMAIN snapshot, \A r \in DOMAIN snapshot : r <= s
  PROVE  Latest = s /\ HasLatest
<1>1. Latest \in DOMAIN snapshot /\ \A r \in DOMAIN snapshot : r <= Latest
  BY DEF Latest
<1>2. Latest <= s /\ s <= Latest
  BY <1>1
<1>3. Latest \in Nat /\ s \in Nat
  BY <1>1 DEF CatalogTypeOK
<1>. QED  BY <1>1, <1>2, <1>3, SMT DEF HasLatest

(* Publishing the snapshot after the latest makes it the latest.           *)
LEMMA PublishLatest ==
  ASSUME CatalogTypeOK, HasLatest, CatalogTypeOK',
         NEW row, snapshot' = WithSnapshot(Latest + 1, row)
  PROVE  /\ Latest' = Latest + 1
         /\ HasLatest'
         /\ DOMAIN snapshot' = DOMAIN snapshot \cup {Latest + 1}
         /\ snapshot'[Latest + 1] = row
         /\ \A r \in DOMAIN snapshot : snapshot'[r] = snapshot[r]
<1>1. Latest \in Nat
  BY DEF CatalogTypeOK, HasLatest
<1>2. DOMAIN snapshot' = DOMAIN snapshot \cup {Latest + 1}
  BY DEF WithSnapshot
<1>3. Latest + 1 \notin DOMAIN snapshot
  BY <1>1, SMT DEF HasLatest
<1>4. /\ snapshot'[Latest + 1] = row
      /\ \A r \in DOMAIN snapshot : snapshot'[r] = snapshot[r]
  BY <1>3 DEF WithSnapshot
<1>5. Latest + 1 \in DOMAIN snapshot' /\ \A r \in DOMAIN snapshot' : r <= Latest + 1
  BY <1>1, <1>2, SMT DEF HasLatest, CatalogTypeOK
<1>6. Latest' \in DOMAIN snapshot' /\ \A r \in DOMAIN snapshot' : r <= Latest'
  BY <1>5 DEF Latest
<1>7. Latest' \in Nat
  BY <1>6 DEF CatalogTypeOK
<1>8. Latest' = Latest + 1
  BY <1>1, <1>5, <1>6, <1>7, SMT
<1>. QED  BY <1>2, <1>4, <1>6, <1>8 DEF HasLatest

(* Forgetting another snapshot does not change which one is the latest.    *)
LEMMA ExpireLatest ==
  ASSUME CatalogTypeOK, HasLatest, NEW s \in DOMAIN snapshot, ExpireSnapshot(s)
  PROVE  Latest' = Latest /\ HasLatest' /\ CatalogTypeOK'
<1>1. /\ DOMAIN snapshot' = DOMAIN snapshot \ {s}
      /\ \A r \in DOMAIN snapshot' : snapshot'[r] = snapshot[r]
  BY DEF ExpireSnapshot
<1>2. CatalogTypeOK'
  <2>1. snapshot' \in [DOMAIN snapshot' -> SnapshotRow]
    BY <1>1 DEF ExpireSnapshot, CatalogTypeOK
  <2>. QED  BY <1>1, <2>1 DEF ExpireSnapshot, CatalogTypeOK
<1>3. Latest \in DOMAIN snapshot' /\ \A r \in DOMAIN snapshot' : r <= Latest
  BY <1>1 DEF HasLatest, ExpireSnapshot
<1>4. Latest' \in DOMAIN snapshot' /\ \A r \in DOMAIN snapshot' : r <= Latest'
  BY <1>3 DEF Latest
<1>5. Latest' = Latest
  BY <1>1, <1>3, <1>4, SMT DEF CatalogTypeOK
<1>. QED  BY <1>2, <1>4, <1>5 DEF HasLatest

(* In the first state the only snapshot is 0 and there are no rows.        *)
LEMMA CatalogInitInv == CatalogInit => CatalogInv
<1>. SUFFICES ASSUME CatalogInit PROVE CatalogInv
  OBVIOUS
<1>1. DOMAIN snapshot = {0}
  BY DEF CatalogInit
<1>2. CatalogTypeOK
  <2>1. snapshot \in [DOMAIN snapshot -> SnapshotRow]
    BY SMT DEF CatalogInit, SnapshotRow, Change, ChangeKinds
  <2>. QED  BY <1>1, <2>1, SMT DEF CatalogInit, CatalogTypeOK, TableStats
<1>3. HasLatest
  BY <1>1, <1>2, LatestIs, SMT
<1>4. TableStatsExact
  <2>1. /\ rows = {}
        /\ \A t \in Tables : /\ table_stats[t].record_count = 0
                             /\ table_stats[t].next_row_id = 0
    BY DEF CatalogInit
  <2>2. 0 .. 0 - 1 = {}
    BY SMT
  <2>. QED  BY <2>1, <2>2 DEF TableStatsExact, RowIdsFill
<1>. QED
  BY <1>2, <1>3, <1>4
  DEF CatalogInv, CatalogInit, NoStatsNoRows, StatsAdmitCommittedValues,
      RowsCarryTheirSnapshot

(* Rows that start at next_row_id and advance it keep the statistics       *)
(* exact: the new range lies above every old one and leaves no gap.        *)
LEMMA AddRowsExact ==
  ASSUME CatalogTypeOK, NoStatsNoRows, TableStatsExact, StatsAdmitCommittedValues,
         NEW t \in Tables, NEW n \in Nat, NEW v \in Values, NEW s \in Nat,
         AddRows(t, n, v, s)
  PROVE  /\ NoStatsNoRows'
         /\ TableStatsExact'
         /\ StatsAdmitCommittedValues'
         /\ table_stats' \in [Tables -> TableStats]
         /\ column_stats' \in [Tables -> SUBSET Values]
         /\ rows' \subseteq Batch
<1>. DEFINE next(u) == table_stats[u].next_row_id
            new == [table |-> t, begin_snapshot |-> s, row_id |-> next(t),
                    count |-> n, value |-> v]
<1>1. /\ table_stats' = [table_stats EXCEPT ![t] =
           [exists |-> TRUE, record_count |-> table_stats[t].record_count + n,
            next_row_id |-> next(t) + n]]
      /\ column_stats' = [column_stats EXCEPT ![t] = column_stats[t] \cup {v}]
      /\ rows' = rows \cup {new}
  BY DEF AddRows
<1>2. \A u \in Tables : next(u) \in Nat /\ table_stats[u].record_count \in Nat
  BY DEF CatalogTypeOK, TableStats
<1>3. /\ table_stats' \in [Tables -> TableStats]
      /\ column_stats' \in [Tables -> SUBSET Values]
      /\ new \in Batch
      /\ rows' \subseteq Batch
  BY <1>1, <1>2, SMT DEF CatalogTypeOK, TableStats, Batch
<1>4. /\ table_stats'[t].next_row_id = next(t) + n
      /\ table_stats'[t].record_count = table_stats[t].record_count + n
      /\ \A u \in Tables \ {t} : table_stats'[u] = table_stats[u]
  BY <1>1 DEF CatalogTypeOK
<1>5. \A b \in rows : b.row_id \in Nat /\ b.count \in Nat /\ b.table \in Tables
  BY DEF CatalogTypeOK, Batch
<1>6. TableStatsExact'
  <2>1. ASSUME NEW u \in Tables \ {t}
        PROVE  /\ table_stats'[u].record_count = table_stats'[u].next_row_id
               /\ RowIdsFill(u, table_stats[u].next_row_id)'
    <3>1. table_stats'[u] = table_stats[u] /\ RowIdsFill(u, next(u))
      BY <1>4 DEF TableStatsExact
    <3>2. \A b \in rows' : b.table = u => b \in rows
      BY <1>1, SMT
    <3>3. rows \subseteq rows'
      BY <1>1
    <3>4. table_stats[u].record_count = next(u)
      BY DEF TableStatsExact
    <3>. QED  BY <3>1, <3>2, <3>3, <3>4 DEF RowIdsFill, HasRow
  <2>2. /\ table_stats[t].record_count = next(t)
        /\ RowIdsFill(t, next(t))
    BY DEF TableStatsExact
  <2>3. table_stats'[t].record_count = table_stats'[t].next_row_id
    BY <1>4, <2>2
  <2>4. ASSUME NEW i \in 0 .. next(t) + n - 1
        PROVE  \E b \in rows' : b.table = t /\ HasRow(b, i)
    <3>1. CASE i < next(t)
      <4>1. i \in 0 .. next(t) - 1
        BY <1>2, <3>1, SMT
      <4>. QED  BY <1>1, <2>2, <4>1 DEF RowIdsFill
    <3>2. CASE i >= next(t)
      <4>1. HasRow(new, i) /\ new.table = t
        BY <1>2, <3>2, SMT DEF HasRow
      <4>. QED  BY <1>1, <4>1
    <3>. QED  BY <1>2, <3>1, <3>2, SMT
  <2>5. \A b \in rows' : b.table = t => b.row_id + b.count <= next(t) + n
    BY <1>1, <1>2, <1>5, <2>2, SMT DEF RowIdsFill
  <2>6. ASSUME NEW i \in 0 .. next(t) + n - 1, NEW a \in rows', NEW b \in rows',
               a.table = t, b.table = t, HasRow(a, i), HasRow(b, i)
        PROVE  a = b
    <3>1. ASSUME NEW o \in rows, o.table = t, HasRow(o, i)
          PROVE  i \in 0 .. next(t) - 1 /\ ~HasRow(new, i)
      BY <1>2, <1>5, <2>2, <3>1, SMT DEF RowIdsFill, HasRow
    <3>. QED  BY <1>1, <2>2, <2>6, <3>1 DEF RowIdsFill
  <2>7. RowIdsFill(t, table_stats[t].next_row_id)'
    <3>1. \A i \in 0 .. table_stats'[t].next_row_id - 1 :
            i \in 0 .. next(t) + n - 1
      BY <1>2, <1>4, SMT
    <3>2. \A i \in 0 .. table_stats'[t].next_row_id - 1 :
            \E b \in rows' : b.table = t /\ HasRow(b, i)
      BY <2>4, <3>1
    <3>3. \A b \in rows' :
            b.table = t => b.row_id + b.count <= table_stats'[t].next_row_id
      BY <1>4, <2>5
    <3>4. \A i \in 0 .. table_stats'[t].next_row_id - 1 : \A a, b \in rows' :
            a.table = t /\ b.table = t /\ HasRow(a, i) /\ HasRow(b, i) => a = b
      BY <2>6, <3>1
    <3>. QED  BY <3>2, <3>3, <3>4 DEF RowIdsFill, HasRow
  <2>. QED  BY <1>4, <2>1, <2>3, <2>7 DEF TableStatsExact
<1>7. StatsAdmitCommittedValues'
  BY <1>1, <1>5, SMT DEF StatsAdmitCommittedValues, CatalogTypeOK
<1>8. NoStatsNoRows'
  <2>1. table_stats'[t].exists
    BY <1>1 DEF CatalogTypeOK
  <2>2. ASSUME NEW u \in Tables \ {t}
        PROVE  /\ table_stats'[u] = table_stats[u]
               /\ column_stats'[u] = column_stats[u]
               /\ \A b \in rows' : b.table = u => b \in rows
    BY <1>1, SMT DEF CatalogTypeOK
  <2>. QED  BY <2>1, <2>2, SMT DEF NoStatsNoRows
<1>. QED  BY <1>3, <1>6, <1>7, <1>8

(* Publishing a snapshot after the latest, with no new rows or with the    *)
(* rows of that snapshot, keeps every row with its own snapshot.           *)
LEMMA PublishedRowsCarryTheirSnapshot ==
  ASSUME CatalogTypeOK, HasLatest, RowsCarryTheirSnapshot, CatalogTypeOK',
         NEW row \in SnapshotRow, snapshot' = WithSnapshot(Latest + 1, row),
         \/ rows' = rows
         \/ \E b \in Batch :
              /\ rows' = rows \cup {b}
              /\ b.begin_snapshot = Latest + 1
              /\ b.table = row.change.table
              /\ row.change.kind \in {"inlined_insert", "inserted_into_table"}
  PROVE  RowsCarryTheirSnapshot' /\ HasLatest'
<1>1. /\ Latest' = Latest + 1
      /\ HasLatest'
      /\ DOMAIN snapshot' = DOMAIN snapshot \cup {Latest + 1}
      /\ snapshot'[Latest + 1] = row
      /\ \A r \in DOMAIN snapshot : snapshot'[r] = snapshot[r]
  BY PublishLatest
<1>2. Latest \in Nat
  BY DEF CatalogTypeOK, HasLatest
<1>3. \A b \in rows : /\ b.begin_snapshot \in Nat
                     /\ b.begin_snapshot <= Latest
                     /\ b.begin_snapshot # Latest + 1
  BY <1>2, SMT DEF RowsCarryTheirSnapshot, CatalogTypeOK, Batch
<1>4. \A b \in rows' : b \in rows \/ ( /\ b.begin_snapshot = Latest + 1
                                     /\ b.table = row.change.table
                                     /\ row.change.kind \in
                                          {"inlined_insert", "inserted_into_table"} )
  OBVIOUS
<1>5. ASSUME NEW b \in rows'
      PROVE  /\ b.begin_snapshot <= Latest'
             /\ b.begin_snapshot \in DOMAIN snapshot' =>
                  /\ snapshot'[b.begin_snapshot].change.kind \in
                       {"inlined_insert", "inserted_into_table"}
                  /\ snapshot'[b.begin_snapshot].change.table = b.table
  <2>1. CASE b \in rows
    BY <1>1, <1>2, <1>3, <2>1, SMT DEF RowsCarryTheirSnapshot
  <2>2. CASE b \notin rows
    BY <1>1, <1>2, <1>4, <2>2, SMT
  <2>. QED  BY <2>1, <2>2
<1>6. ASSUME NEW a \in rows', NEW b \in rows', a.begin_snapshot = b.begin_snapshot
      PROVE  a = b
  BY <1>3, <1>6, SMT DEF RowsCarryTheirSnapshot
<1>. QED  BY <1>1, <1>5, <1>6 DEF RowsCarryTheirSnapshot

(* Every step of the catalog preserves its invariant.                      *)
LEMMA CatalogStepInv == CatalogInv /\ [CatalogNext]_catalogVars => CatalogInv'
<1>. SUFFICES ASSUME CatalogInv, [CatalogNext]_catalogVars PROVE CatalogInv'
  OBVIOUS
<1>. USE DEF CatalogInv
<1>1. Latest \in Nat /\ snapshot[Latest] \in SnapshotRow
  BY DEF CatalogTypeOK, HasLatest
<1>2. ASSUME NEW t \in Tables, NEW n \in 1 .. MaxRows, NEW v \in Values,
             AppendBatch(t, n, v)
      PROVE  CatalogInv'
  <2>. DEFINE row == [change |-> [kind |-> "inlined_insert", table |-> t],
                      schema_version |-> snapshot[Latest].schema_version,
                      next_catalog_id |-> snapshot[Latest].next_catalog_id,
                      next_file_id |-> snapshot[Latest].next_file_id + 1]
  <2>1. snapshot' = WithSnapshot(Latest + 1, row) /\ AddRows(t, n, v, Latest + 1)
    BY <1>2 DEF AppendBatch
  <2>2. row \in SnapshotRow
    BY <1>1, SMT DEF SnapshotRow, Change, ChangeKinds
  <2>3. /\ NoStatsNoRows'
        /\ TableStatsExact'
        /\ StatsAdmitCommittedValues'
        /\ table_stats' \in [Tables -> TableStats]
        /\ column_stats' \in [Tables -> SUBSET Values]
        /\ rows' \subseteq Batch
    BY <1>1, <2>1, MaxRowsAssumption, AddRowsExact, SMT
  <2>4. CatalogTypeOK'
    <3>1. /\ DOMAIN snapshot' \subseteq Nat
          /\ snapshot' \in [DOMAIN snapshot' -> SnapshotRow]
      BY <1>1, <2>1, <2>2, SMT DEF CatalogTypeOK, WithSnapshot
    <3>. QED  BY <1>2, <2>3, <3>1 DEF CatalogTypeOK, AppendBatch
  <2>5. \E b \in Batch : /\ rows' = rows \cup {b}
                        /\ b.begin_snapshot = Latest + 1
                        /\ b.table = row.change.table
    BY <2>1, <2>3 DEF AddRows
  <2>6. RowsCarryTheirSnapshot' /\ HasLatest'
    <3>. HIDE DEF row
    <3>1. row.change.kind \in {"inlined_insert", "inserted_into_table"}
      BY DEF row
    <3>. QED  BY <2>1, <2>2, <2>4, <2>5, <3>1, PublishedRowsCarryTheirSnapshot
  <2>. QED  BY <2>3, <2>4, <2>6
<1>3. ASSUME NEW op \in Operation, NEW v \in Values, DuckLakeCommit(op, v)
      PROVE  CatalogInv'
  <2>1. PICK row \in SnapshotRow : /\ snapshot' = WithSnapshot(Latest + 1, row)
                                  /\ row.change = [kind |-> op.kind, table |-> op.table]
    BY <1>1, <1>3, SMT DEF DuckLakeCommit, SnapshotRow, Change, Operation
  <2>2. op.table \in Tables /\ op.count \in Nat
    BY MaxRowsAssumption, SMT DEF Operation
  <2>3. /\ DOMAIN snapshot' \subseteq Nat
        /\ snapshot' \in [DOMAIN snapshot' -> SnapshotRow]
    BY <1>1, <2>1, SMT DEF CatalogTypeOK, WithSnapshot
  <2>4. live' \subseteq Tables /\ inline_schema' \in [Tables -> Nat]
    BY <1>1, <1>3, <2>2, SMT DEF DuckLakeCommit, CatalogTypeOK, SnapshotRow
  <2>5. CASE op.kind = "inserted_into_table"
    <3>1. AddRows(op.table, op.count, v, Latest + 1)
      BY <1>3, <2>5 DEF DuckLakeCommit
    <3>2. /\ NoStatsNoRows'
          /\ TableStatsExact'
          /\ StatsAdmitCommittedValues'
          /\ table_stats' \in [Tables -> TableStats]
          /\ column_stats' \in [Tables -> SUBSET Values]
          /\ rows' \subseteq Batch
      BY <1>1, <2>2, <3>1, AddRowsExact, SMT
    <3>3. CatalogTypeOK'
      BY <2>3, <2>4, <3>2 DEF CatalogTypeOK
    <3>4. \E b \in Batch : /\ rows' = rows \cup {b}
                          /\ b.begin_snapshot = Latest + 1
                          /\ b.table = op.table
      BY <3>1, <3>2 DEF AddRows
    <3>5. RowsCarryTheirSnapshot' /\ HasLatest'
      BY <2>1, <2>5, <3>3, <3>4, PublishedRowsCarryTheirSnapshot, SMT
    <3>. QED  BY <3>2, <3>3, <3>5
  <2>6. CASE op.kind # "inserted_into_table"
    <3>1. UNCHANGED <<table_stats, column_stats, rows>>
      BY <1>3, <2>6 DEF DuckLakeCommit
    <3>2. CatalogTypeOK'
      BY <2>3, <2>4, <3>1 DEF CatalogTypeOK
    <3>3. NoStatsNoRows' /\ TableStatsExact' /\ StatsAdmitCommittedValues'
      BY <3>1
      DEF NoStatsNoRows, TableStatsExact, RowIdsFill, HasRow, StatsAdmitCommittedValues
    <3>4. RowsCarryTheirSnapshot' /\ HasLatest'
      BY <2>1, <3>1, <3>2, PublishedRowsCarryTheirSnapshot
    <3>. QED  BY <3>2, <3>3, <3>4
  <2>. QED  BY <2>5, <2>6
<1>4. ASSUME NEW s \in DOMAIN snapshot, ExpireSnapshot(s)
      PROVE  CatalogInv'
  <2>1. Latest' = Latest /\ HasLatest' /\ CatalogTypeOK'
    BY <1>4, ExpireLatest
  <2>2. UNCHANGED <<table_stats, column_stats, rows>>
    BY <1>4 DEF ExpireSnapshot
  <2>3. NoStatsNoRows' /\ TableStatsExact' /\ StatsAdmitCommittedValues'
    BY <2>2
    DEF NoStatsNoRows, TableStatsExact, RowIdsFill, HasRow, StatsAdmitCommittedValues
  <2>4. /\ DOMAIN snapshot' \subseteq DOMAIN snapshot
        /\ \A r \in DOMAIN snapshot' : snapshot'[r] = snapshot[r]
    BY <1>4 DEF ExpireSnapshot
  <2>5. RowsCarryTheirSnapshot'
    BY <2>1, <2>2, <2>4 DEF RowsCarryTheirSnapshot
  <2>. QED  BY <2>1, <2>3, <2>5
<1>5. CASE UNCHANGED catalogVars
  BY <1>5, SMT DEF catalogVars, CatalogTypeOK, HasLatest, Latest, NoStatsNoRows,
              TableStatsExact, RowIdsFill, HasRow, StatsAdmitCommittedValues,
              RowsCarryTheirSnapshot
<1>. QED  BY <1>2, <1>3, <1>4, <1>5 DEF CatalogNext

(* The catalog keeps its promises: exact statistics and unique row IDs,    *)
(* column statistics that admit every committed value, and rows that carry *)
(* the snapshot of their own transaction.                                  *)
THEOREM CatalogIsCorrect ==
  CatalogSpec => [](/\ TableStatsExact
                    /\ StatsAdmitCommittedValues
                    /\ RowsCarryTheirSnapshot)
<1>1. CatalogInv => /\ TableStatsExact
                    /\ StatsAdmitCommittedValues
                    /\ RowsCarryTheirSnapshot
  BY DEF CatalogInv
<1>. QED  BY CatalogInitInv, CatalogStepInv, <1>1, PTL DEF CatalogSpec

-----------------------------------------------------------------------------
(* The writer.                                                             *)

IInv == TypeOK /\ CatalogInv /\ WriterInv

-----------------------------------------------------------------------------

(* Reading the catalog.                                                    *)

(* What ReadPublicationState returns has the type of its state.            *)
LEMMA CurrentStateType ==
  ASSUME CatalogInv, NEW t \in Tables, NEW start \in Nat
  PROVE  CurrentState(t, start) \in PublicationState
<1>1. Latest \in Nat /\ snapshot[Latest] \in SnapshotRow
  BY DEF CatalogInv, CatalogTypeOK, HasLatest
<1>2. table_stats[t] \in TableStats /\ inline_schema[t] \in Nat
  BY DEF CatalogInv, CatalogTypeOK
<1>3. {snapshot[s].change : s \in {r \in DOMAIN snapshot : r > start}} \subseteq Change
  BY DEF CatalogInv, CatalogTypeOK, SnapshotRow
<1>4. (t \in live) \in BOOLEAN
      /\ (start <= Latest /\ \A s \in start + 1 .. Latest : s \in DOMAIN snapshot) \in BOOLEAN
  BY SMT
<1>. QED
  BY <1>1, <1>2, <1>3, <1>4
  DEF CurrentState, PublicationState, SnapshotRow, TableStats

(* The row ID derived for a table without a statistics row is a number: if *)
(* the table has rows, the rows fill the IDs below next_row_id and the one *)
(* with the last of them gives the maximum.                                *)
LEMMA DerivedNextRowIdType ==
  ASSUME CatalogInv, NEW t \in Tables
  PROVE  /\ DerivedNextRowId(t) \in Nat
         /\ ~table_stats[t].exists => DerivedNextRowId(t) = 0
<1>. DEFINE ends == {b.row_id + b.count : b \in {r \in rows : r.table = t}}
            next == table_stats[t].next_row_id
<1>1. next \in Nat /\ RowIdsFill(t, next)
  BY DEF CatalogInv, CatalogTypeOK, TableStats, TableStatsExact
<1>2. \A b \in rows : b.row_id \in Nat /\ b.count \in Nat
  BY DEF CatalogInv, CatalogTypeOK, Batch
<1>3. \A e \in ends : e \in Nat /\ e <= next
  BY <1>1, <1>2, SMT DEF RowIdsFill
<1>4. ASSUME ends # {}
      PROVE  \E e \in ends : \A f \in ends : f <= e
  <2>1. CASE next = 0
    <3>1. PICK e \in ends : TRUE
      BY <1>4
    <3>2. \A f \in ends : f = 0
      BY <1>3, <2>1, SMT
    <3>3. \A f \in ends : f <= e
      BY <3>2, SMT
    <3>. QED  BY <3>3
  <2>2. CASE next > 0
    <3>1. next - 1 \in 0 .. next - 1
      BY <1>1, <2>2, SMT
    <3>2. PICK b \in rows : b.table = t /\ HasRow(b, next - 1)
      BY <1>1, <3>1 DEF RowIdsFill
    <3>3. b.row_id + b.count = next
      BY <1>1, <1>2, <3>2, SMT DEF RowIdsFill, HasRow
    <3>4. next \in ends
      BY <3>2, <3>3
    <3>. QED  BY <1>3, <3>4
  <2>. QED  BY <1>1, <2>1, <2>2, SMT
<1>5. ends # {} => (CHOOSE e \in ends : \A f \in ends : f <= e) \in ends
  BY <1>4
<1>6. ~table_stats[t].exists => ends = {}
  BY SMT DEF CatalogInv, NoStatsNoRows
<1>7. DerivedNextRowId(t) =
        IF ends = {} THEN 0 ELSE CHOOSE e \in ends : \A f \in ends : f <= e
  BY DEF DerivedNextRowId
<1>. HIDE DEF ends
<1>. QED  BY <1>3, <1>5, <1>6, <1>7, SMT

(* What a statement reads in one SELECT is the current state.              *)
LEMMA ReadIsCurrent ==
  ASSUME CatalogInv, NEW t \in Tables, NEW start \in Nat
  PROVE  LET st == CurrentState(t, start)
         IN /\ st.snapshot_id = Latest
            /\ st.schema_version = snapshot[Latest].schema_version
            /\ st.next_catalog_id = snapshot[Latest].next_catalog_id
            /\ st.next_file_id = snapshot[Latest].next_file_id
            /\ st.table_is_live <=> t \in live
            /\ st.inline_schema_version = inline_schema[t]
            /\ st.has_table_stats <=> table_stats[t].exists
            /\ st.record_count = table_stats[t].record_count
            /\ st.next_row_id = table_stats[t].next_row_id
            /\ \A s \in DOMAIN snapshot :
                 s > start => snapshot[s].change \in st.changes_made
BY DEF CurrentState

-----------------------------------------------------------------------------

(* Steps of others.                                                        *)

Untouched(u) ==
  /\ pc'[u] = pc[u]
  /\ batch'[u] = batch[u]
  /\ tags'[u] = tags[u]
  /\ state'[u] = state[u]
  /\ merged'[u] = merged[u]

(* A statement does not notice a step that leaves the catalog alone.       *)
LEMMA StutterKeepsStatement ==
  ASSUME NEW u \in Writers, UNCHANGED catalogVars, Untouched(u),
         StatementOK(u), AttemptOK(u)
  PROVE  StatementOK(u)' /\ AttemptOK(u)'
<1>1. Latest' = Latest
  BY DEF catalogVars, Latest
<1>2. StatementOK(u)'
  BY DEF Untouched, StatementOK, FinalTags, Publishable, ValidateBinding,
         CheckInterveningChanges, WithinIdLimits
<1>3. StateIsCurrent(u) => StateIsCurrent(u)'
  BY <1>1 DEF Untouched, catalogVars, StateIsCurrent
<1>. QED  BY <1>1, <1>2, <1>3 DEF Untouched, catalogVars, AttemptOK

(* A statement that holds no claim survives the commit of another: the new *)
(* snapshot is one more that its own claim would run into.                 *)
LEMMA CommitKeepsStatement ==
  ASSUME CatalogInv, NEW u \in Writers, Untouched(u), pc[u] # "claimed",
         StatementOK(u), AttemptOK(u),
         Latest' = Latest + 1, DOMAIN snapshot' = DOMAIN snapshot \cup {Latest + 1}
  PROVE  StatementOK(u)' /\ AttemptOK(u)'
<1>1. Latest \in Nat
  BY DEF CatalogInv, CatalogTypeOK, HasLatest
<1>2. StatementOK(u)'
  BY DEF Untouched, StatementOK, FinalTags, Publishable, ValidateBinding,
         CheckInterveningChanges, WithinIdLimits
<1>3. ASSUME pc[u] \in {"derive", "read", "merged"}
      PROVE  /\ state[u].snapshot_id <= Latest + 1
             /\ state[u].snapshot_id # Latest + 1
             /\ state[u].snapshot_id + 1 .. Latest + 1 \subseteq DOMAIN snapshot'
  <2>1. state[u].snapshot_id \in Nat /\ state[u].snapshot_id <= Latest
    BY <1>3 DEF StatementOK, PublicationState, AttemptOK
  <2>2. state[u].snapshot_id + 1 .. Latest \subseteq DOMAIN snapshot
    BY <1>3 DEF AttemptOK
  <2>. QED  BY <1>1, <2>1, <2>2, SMT
<1>. QED  BY <1>2, <1>3 DEF Untouched, AttemptOK

-----------------------------------------------------------------------------

(* The commit of a statement is an atomic append to the current catalog.   *)
LEMMA CommitIsAppend ==
  ASSUME IInv, NEW w \in Writers, CommitBatch(w)
  PROVE  /\ batch[w].table_id \in Tables
         /\ batch[w].rows_inserted \in 1 .. MaxRows
         /\ AppendBatch(batch[w].table_id, batch[w].rows_inserted, w)
<1>. DEFINE b  == batch[w]
            st == state[w]
            t  == b.table_id
            n  == b.rows_inserted
<1>1. pc[w] = "claimed"
  BY DEF CommitBatch, ClaimedRow, StatsWithBatch
<1>2. StatementOK(w) /\ AttemptOK(w)
  BY DEF IInv, WriterInv
<1>3. /\ t \in Tables
      /\ n \in 1 .. MaxRows
      /\ tags[w] = FinalTags(st)
      /\ st \in PublicationState
      /\ Publishable(b, st)
  BY <1>1, <1>2 DEF StatementOK, NativeInlineWriteBatch, Ended
<1>4. st.snapshot_id = Latest /\ StateIsCurrent(w)
  BY <1>1, <1>2 DEF AttemptOK
<1>5. /\ st.schema_version = snapshot[Latest].schema_version
      /\ st.next_catalog_id = snapshot[Latest].next_catalog_id
      /\ st.next_file_id = snapshot[Latest].next_file_id
      /\ st.record_count = table_stats[t].record_count
      /\ st.next_row_id = table_stats[t].next_row_id
      /\ column_stats[t] \cup {w} =
           IF merged[w].changed THEN merged[w].values ELSE column_stats[t]
  BY <1>1, <1>4 DEF StateIsCurrent
<1>6. t \in live /\ Latest < MaxId /\ RowsFit(t, n)
  <2>1. t \in live
    BY <1>3, <1>4 DEF Publishable, ValidateBinding, StateIsCurrent
  <2>2. Latest < MaxId /\ table_stats[t].next_row_id + n <= MaxId
    BY <1>3, <1>4, <1>5 DEF Publishable, WithinIdLimits
  <2>. QED  BY <2>1, <2>2 DEF RowsFit
<1>7. snapshot' =
        WithSnapshot(Latest + 1,
          [change |-> [kind |-> "inlined_insert", table |-> t],
           schema_version |-> snapshot[Latest].schema_version,
           next_catalog_id |-> snapshot[Latest].next_catalog_id,
           next_file_id |-> snapshot[Latest].next_file_id + 1])
  BY <1>4, <1>5 DEF CommitBatch, ClaimedRow, StatsWithBatch
<1>8. table_stats' = [table_stats EXCEPT ![t] =
        [exists |-> TRUE, record_count |-> table_stats[t].record_count + n,
         next_row_id |-> table_stats[t].next_row_id + n]]
  BY <1>5 DEF CommitBatch, ClaimedRow, StatsWithBatch
<1>9. column_stats' = [column_stats EXCEPT ![t] = column_stats[t] \cup {w}]
  BY <1>5 DEF CommitBatch, ClaimedRow, StatsWithBatch
<1>10. rows' = rows \cup
         {[table |-> t, begin_snapshot |-> Latest + 1,
           row_id |-> table_stats[t].next_row_id, count |-> n, value |-> w]}
  BY <1>3, <1>4, <1>5, SMT DEF CommitBatch, ClaimedRow, StatsWithBatch, FinalTags
<1>11. UNCHANGED <<live, inline_schema>>
  BY DEF CommitBatch, ClaimedRow, StatsWithBatch
<1>. QED
  BY <1>3, <1>6, <1>7, <1>8, <1>9, <1>10, <1>11 DEF AppendBatch, AddRows

(* Every step is a step of the catalog or leaves the catalog alone.        *)
LEMMA StepRefines == IInv /\ [Next]_vars => [CatalogNext]_catalogVars
<1>. SUFFICES ASSUME IInv, [Next]_vars PROVE [CatalogNext]_catalogVars
  OBVIOUS
<1>1. ASSUME NEW w \in Writers, WriterStep(w), ~CommitBatch(w)
      PROVE  UNCHANGED catalogVars
  BY <1>1 DEF WriterStep, PlanDirectInsert, PrepareNativeInlineWrite, InsertRows,
              InsertNothing, ReadPublicationState, DeriveNextRowId,
              PrepareMergedColumnStats, ClaimSnapshot, ClaimConflict, FailStatement
<1>2. ASSUME NEW w \in Writers, CommitBatch(w)
      PROVE  CatalogNext
  BY <1>2, CommitIsAppend, ValuesAssumption DEF CatalogNext
<1>3. ASSUME NEW w \in Writers, AbortStatement(w)
      PROVE  UNCHANGED catalogVars
  BY <1>3 DEF AbortStatement
<1>4. ASSUME NEW x \in Clients, ClientStep(x)
      PROVE  CatalogNext \/ UNCHANGED catalogVars
  <2>1. ASSUME DuckLakeFinish(x)
        PROVE  CatalogNext
    <3>1. client[x].op \in Operation
      BY <2>1 DEF DuckLakeFinish, EndClient, IInv, WriterInv, ClientOK
    <3>. QED  BY <2>1, <3>1, ValuesAssumption DEF DuckLakeFinish, CatalogNext
  <2>. QED  BY <1>4, <2>1 DEF ClientStep, DuckLakeClaim, DuckLakeAbort
<1>5. ASSUME NEW s \in DOMAIN snapshot, Expire(s)
      PROVE  CatalogNext
  BY <1>5 DEF Expire, CatalogNext
<1>6. ASSUME Terminated \/ UNCHANGED vars
      PROVE  UNCHANGED catalogVars
  BY <1>6 DEF Terminated, vars
<1>. QED  BY <1>1, <1>2, <1>3, <1>4, <1>5, <1>6 DEF Next

-----------------------------------------------------------------------------

(* The steps of a statement up to its commit.                              *)

(* What a step of w that leaves the catalog alone must establish.          *)
QuietStepOK(w) ==
  /\ UNCHANGED <<catalogVars, client>>
  /\ TypeOK'
  /\ \A u \in Writers \ {w} : Untouched(u)
  /\ StatementOK(w)'
  /\ AttemptOK(w)'
  /\ pc'[w] = "claimed" => ~KeyIsHeld(Latest + 1)

(* A statement that ends has nothing left to be right about.               *)
LEMMA EndOK ==
  ASSUME IInv, NEW w \in Writers, NEW how \in Ended, End(w, how),
         UNCHANGED <<catalogVars, client>>
  PROVE  QuietStepOK(w)
<1>1. pc'[w] = how /\ pc'[w] \in Ended /\ pc'[w] # "claimed"
  BY DEF End, IInv, TypeOK, Ended
<1>2. TypeOK'
  BY MaxRetryAssumption, SMT DEF End, IInv, TypeOK, CatalogTypeOK, catalogVars
<1>3. \A u \in Writers \ {w} : Untouched(u)
  BY DEF End, IInv, TypeOK, Untouched
<1>4. StatementOK(w)' /\ AttemptOK(w)'
  BY <1>1 DEF StatementOK, AttemptOK, Ended
<1>. QED  BY <1>1, <1>2, <1>3, <1>4 DEF QuietStepOK

(* Planning reads the catalog and changes one statement.                   *)
LEMMA PlanDirectInsertOK ==
  ASSUME IInv, NEW w \in Writers, PlanDirectInsert(w)
  PROVE  QuietStepOK(w)
<1>. USE DEF PlanDirectInsert, Goto, IInv, TypeOK
<1>1. PICK t \in live :
        batch' = [batch EXCEPT ![w] =
          [table_id |-> t, schema_version |-> inline_schema[t],
           start_snapshot_id |-> 0, rows_inserted |-> 0,
           candidate |-> [begin_snapshot |-> 0, row_id |-> 0]]]
  OBVIOUS
<1>2. t \in Tables /\ inline_schema[t] \in Nat
  BY DEF CatalogTypeOK
<1>3. batch'[w] \in NativeInlineWriteBatch
  BY <1>1, <1>2 DEF NativeInlineWriteBatch, Tags
<1>4. pc'[w] = "planned"
  OBVIOUS
<1>5. TypeOK'
  BY <1>1, <1>3 DEF CatalogTypeOK, catalogVars
<1>6. \A u \in Writers \ {w} : Untouched(u)
  BY <1>1 DEF Untouched
<1>7. StatementOK(w)' /\ AttemptOK(w)'
  BY <1>3, <1>4 DEF StatementOK, AttemptOK
<1>. QED  BY <1>4, <1>5, <1>6, <1>7 DEF QuietStepOK

(* So does the preparation, whatever candidates the queue proposes.        *)
LEMMA PrepareNativeInlineWriteOK ==
  ASSUME IInv, NEW w \in Writers, PrepareNativeInlineWrite(w)
  PROVE  QuietStepOK(w)
<1>. DEFINE t  == batch[w].table_id
            st == CurrentState(t, MaxId)
            first == IF st.has_table_stats THEN st.next_row_id ELSE DerivedNextRowId(t)
<1>1. PICK skew \in 0 .. MaxSkew, rowSkew \in 0 .. MaxSkew :
        batch' = [batch EXCEPT ![w] =
          [batch[w] EXCEPT
             !.start_snapshot_id = st.snapshot_id,
             !.candidate = [begin_snapshot |-> st.snapshot_id + 1 + skew,
                            row_id |-> first + rowSkew]]]
  BY DEF PrepareNativeInlineWrite
<1>2. /\ pc[w] = "planned"
      /\ pc' = [pc EXCEPT ![w] = "prepared"]
      /\ UNCHANGED <<catalogVars, tags, state, merged, attempt, client>>
  BY DEF PrepareNativeInlineWrite, Goto
<1>3. batch[w] \in NativeInlineWriteBatch
  BY <1>2 DEF IInv, WriterInv, StatementOK, Ended
<1>4. t \in Tables
  BY <1>3 DEF NativeInlineWriteBatch
<1>5. st \in PublicationState
  BY <1>4, CurrentStateType, MaxIdAssumption DEF IInv
<1>6. st.snapshot_id \in Nat /\ first \in Nat
  BY <1>4, <1>5, DerivedNextRowIdType DEF PublicationState, IInv
<1>. HIDE DEF st, first
<1>7. batch'[w] \in NativeInlineWriteBatch
  <2>. DEFINE cand == [begin_snapshot |-> st.snapshot_id + 1 + skew,
                       row_id |-> first + rowSkew]
  <2>1. cand \in Tags
    BY <1>6, MaxSkewAssumption, SMT DEF Tags
  <2>2. batch'[w] = [batch[w] EXCEPT !.start_snapshot_id = st.snapshot_id,
                                     !.candidate = cand]
    BY <1>1 DEF IInv, TypeOK
  <2>. HIDE DEF cand
  <2>. QED  BY <1>3, <1>6, <2>1, <2>2 DEF NativeInlineWriteBatch
<1>8. TypeOK'
  BY <1>1, <1>2, <1>7 DEF IInv, TypeOK, CatalogTypeOK, catalogVars
<1>9. \A u \in Writers \ {w} : Untouched(u)
  BY <1>1, <1>2 DEF IInv, TypeOK, Untouched
<1>10. pc'[w] = "prepared"
  BY <1>2 DEF IInv, TypeOK
<1>11. StatementOK(w)' /\ AttemptOK(w)'
  BY <1>7, <1>10 DEF StatementOK, AttemptOK
<1>. QED  BY <1>2, <1>8, <1>9, <1>10, <1>11 DEF QuietStepOK

(* The prewritten rows carry the candidate IDs.                            *)
LEMMA InsertRowsOK ==
  ASSUME IInv, NEW w \in Writers, InsertRows(w)
  PROVE  QuietStepOK(w)
<1>1. PICK n \in 1 .. MaxRows :
        batch' = [batch EXCEPT ![w] = [batch[w] EXCEPT !.rows_inserted = n]]
  BY DEF InsertRows
<1>2. /\ pc[w] = "prepared"
      /\ pc' = [pc EXCEPT ![w] = "publish"]
      /\ tags' = [tags EXCEPT ![w] = batch[w].candidate]
      /\ UNCHANGED <<catalogVars, state, merged, attempt, client>>
  BY DEF InsertRows, Goto
<1>3. batch[w] \in NativeInlineWriteBatch
  BY <1>2 DEF IInv, WriterInv, StatementOK, Ended
<1>4. batch'[w] = [batch[w] EXCEPT !.rows_inserted = n]
  BY <1>1 DEF IInv, TypeOK
<1>5. /\ batch'[w] \in NativeInlineWriteBatch
      /\ batch'[w].rows_inserted = n
      /\ batch'[w].candidate = batch[w].candidate
      /\ batch[w].candidate \in Tags
  BY <1>3, <1>4, MaxRowsAssumption, SMT DEF NativeInlineWriteBatch
<1>6. TypeOK'
  BY <1>1, <1>2, <1>5 DEF IInv, TypeOK, CatalogTypeOK, catalogVars
<1>7. \A u \in Writers \ {w} : Untouched(u)
  BY <1>1, <1>2 DEF IInv, TypeOK, Untouched
<1>8. pc'[w] = "publish" /\ tags'[w] = batch'[w].candidate
  BY <1>2, <1>5 DEF IInv, TypeOK
<1>9. StatementOK(w)' /\ AttemptOK(w)'
  BY <1>5, <1>8 DEF StatementOK, AttemptOK
<1>. QED  BY <1>2, <1>6, <1>7, <1>8, <1>9 DEF QuietStepOK

(* The state that an attempt reads is current when it is read.             *)
LEMMA ReadPublicationStateOK ==
  ASSUME IInv, NEW w \in Writers, ReadPublicationState(w)
  PROVE  QuietStepOK(w)
<1>. DEFINE t  == batch[w].table_id
            st == CurrentState(t, batch[w].start_snapshot_id)
<1>1. /\ pc[w] = "publish"
      /\ pc' = [pc EXCEPT ![w] = IF st.has_table_stats THEN "read" ELSE "derive"]
      /\ state' = [state EXCEPT ![w] = st]
      /\ UNCHANGED <<catalogVars, batch, tags, merged, attempt, client>>
  BY DEF ReadPublicationState, Goto
<1>2. StatementOK(w) /\ batch[w] \in NativeInlineWriteBatch
  BY <1>1 DEF IInv, WriterInv, StatementOK, Ended
<1>3. t \in Tables /\ batch[w].start_snapshot_id \in Nat
  BY <1>2 DEF NativeInlineWriteBatch
<1>4. st \in PublicationState
  BY <1>3, CurrentStateType DEF IInv
<1>5. /\ st.snapshot_id = Latest
      /\ st.schema_version = snapshot[Latest].schema_version
      /\ st.next_catalog_id = snapshot[Latest].next_catalog_id
      /\ st.next_file_id = snapshot[Latest].next_file_id
      /\ st.table_is_live <=> t \in live
      /\ st.inline_schema_version = inline_schema[t]
      /\ st.has_table_stats <=> table_stats[t].exists
      /\ st.record_count = table_stats[t].record_count
      /\ st.next_row_id = table_stats[t].next_row_id
      /\ \A s \in DOMAIN snapshot :
           s > batch[w].start_snapshot_id => snapshot[s].change \in st.changes_made
  BY <1>3, ReadIsCurrent DEF IInv
<1>. HIDE DEF st
<1>6. /\ pc'[w] \in {"read", "derive"}
      /\ state'[w] = st
      /\ pc'[w] = "derive" => ~st.has_table_stats
  BY <1>1 DEF IInv, TypeOK
<1>7. TypeOK'
  BY <1>1, <1>4 DEF IInv, TypeOK, CatalogTypeOK, catalogVars
<1>8. \A u \in Writers \ {w} : Untouched(u)
  BY <1>1 DEF IInv, TypeOK, Untouched
<1>9. StatementOK(w)'
  BY <1>1, <1>2, <1>4, <1>6 DEF StatementOK
<1>10. Latest' = Latest /\ Latest \in Nat
  BY <1>1 DEF catalogVars, Latest, IInv, CatalogInv, HasLatest, CatalogTypeOK
<1>11. StateIsCurrent(w)'
  BY <1>1, <1>5, <1>6, <1>10 DEF StateIsCurrent, catalogVars
<1>12. AttemptOK(w)'
  BY <1>5, <1>6, <1>10, <1>11, SMT DEF AttemptOK
<1>. QED  BY <1>1, <1>6, <1>7, <1>8, <1>9, <1>12 DEF QuietStepOK

(* The derived next_row_id is the one that the statistics would have.      *)
LEMMA DeriveNextRowIdOK ==
  ASSUME IInv, NEW w \in Writers, DeriveNextRowId(w)
  PROVE  QuietStepOK(w)
<1>. DEFINE t == batch[w].table_id
            d == DerivedNextRowId(t)
<1>1. /\ pc[w] = "derive"
      /\ pc' = [pc EXCEPT ![w] = "read"]
      /\ state' = [state EXCEPT ![w] = [state[w] EXCEPT !.next_row_id = d,
                                                       !.record_count = 0]]
      /\ UNCHANGED <<catalogVars, batch, tags, merged, attempt, client>>
  BY DEF DeriveNextRowId, Goto
<1>2. StatementOK(w) /\ AttemptOK(w)
  BY DEF IInv, WriterInv
<1>3. t \in Tables /\ state[w] \in PublicationState
  BY <1>1, <1>2 DEF StatementOK, Ended, NativeInlineWriteBatch
<1>4. d \in Nat /\ (~table_stats[t].exists => d = 0)
  BY <1>3, DerivedNextRowIdType DEF IInv
<1>. HIDE DEF d
<1>5. state'[w] = [state[w] EXCEPT !.next_row_id = d, !.record_count = 0]
  BY <1>1 DEF IInv, TypeOK
<1>6. state'[w] \in PublicationState
  <2>1. [state[w] EXCEPT !.next_row_id = d] \in PublicationState
    BY <1>3, <1>4 DEF PublicationState
  <2>2. \A r \in PublicationState : [r EXCEPT !.record_count = 0] \in PublicationState
    BY DEF PublicationState
  <2>. QED  BY <1>5, <2>1, <2>2
<1>7. pc'[w] = "read"
  BY <1>1 DEF IInv, TypeOK
<1>8. TypeOK'
  BY <1>1, <1>5, <1>6 DEF IInv, TypeOK, CatalogTypeOK, catalogVars
<1>9. \A u \in Writers \ {w} : Untouched(u)
  BY <1>1 DEF IInv, TypeOK, Untouched
<1>10. StatementOK(w)'
  BY <1>1, <1>2, <1>6, <1>7 DEF StatementOK, Ended
<1>11. Latest' = Latest
  BY <1>1 DEF catalogVars, Latest
<1>12. /\ state'[w].next_row_id = d
       /\ state'[w].record_count = 0
       /\ state'[w].snapshot_id = state[w].snapshot_id
       /\ state'[w].schema_version = state[w].schema_version
       /\ state'[w].next_catalog_id = state[w].next_catalog_id
       /\ state'[w].next_file_id = state[w].next_file_id
       /\ state'[w].table_is_live = state[w].table_is_live
       /\ state'[w].inline_schema_version = state[w].inline_schema_version
       /\ state'[w].has_table_stats = state[w].has_table_stats
       /\ state'[w].changes_made = state[w].changes_made
  BY <1>3, <1>5 DEF PublicationState
<1>13. ASSUME StateIsCurrent(w) PROVE StateIsCurrent(w)'
  <2>1. ~table_stats[t].exists
    BY <1>1, <1>2, <1>13 DEF StatementOK, StateIsCurrent
  <2>2. table_stats[t].record_count = 0 /\ table_stats[t].next_row_id = 0 /\ d = 0
    BY <1>3, <1>4, <2>1 DEF IInv, CatalogInv, NoStatsNoRows
  <2>. QED  BY <1>1, <1>7, <1>11, <1>12, <1>13, <2>2 DEF StateIsCurrent, catalogVars
<1>14. AttemptOK(w)'
  BY <1>1, <1>2, <1>7, <1>11, <1>12, <1>13 DEF AttemptOK, catalogVars
<1>. QED  BY <1>1, <1>7, <1>8, <1>9, <1>10, <1>14 DEF QuietStepOK

(* The merged statistics admit the old values and the new ones.            *)
LEMMA PrepareMergedColumnStatsOK ==
  ASSUME IInv, NEW w \in Writers, PrepareMergedColumnStats(w)
  PROVE  QuietStepOK(w)
<1>. DEFINE t   == batch[w].table_id
            old == IF state[w].has_table_stats THEN column_stats[t] ELSE {}
            new == old \cup {w}
            m   == [values |-> new,
                    changed |-> ~state[w].has_table_stats \/ new # old]
<1>1. /\ pc[w] = "read"
      /\ pc' = [pc EXCEPT ![w] = "merged"]
      /\ Publishable(batch[w], state[w])
      /\ merged' = [merged EXCEPT ![w] = m]
      /\ UNCHANGED <<catalogVars, batch, tags, state, attempt, client>>
  BY DEF PrepareMergedColumnStats, Goto
<1>2. StatementOK(w) /\ AttemptOK(w)
  BY DEF IInv, WriterInv
<1>3. t \in Tables /\ state[w] \in PublicationState
  BY <1>1, <1>2 DEF StatementOK, Ended, NativeInlineWriteBatch
<1>4. column_stats[t] \subseteq Values /\ w \in Values
  BY <1>3, ValuesAssumption DEF IInv, TypeOK, CatalogTypeOK
<1>5. m \in PreparedColumnStats
  <2>1. new \in SUBSET Values
    BY <1>4
  <2>2. (~state[w].has_table_stats \/ new # old) \in BOOLEAN
    OBVIOUS
  <2>. HIDE DEF new, old
  <2>. QED  BY <2>1, <2>2 DEF PreparedColumnStats
<1>6. m.values = new /\ (m.changed <=> (~state[w].has_table_stats \/ new # old))
  OBVIOUS
<1>7. ASSUME StateIsCurrent(w)
      PROVE  column_stats[t] \cup {w} = IF m.changed THEN m.values ELSE column_stats[t]
  <2>1. CASE state[w].has_table_stats
    BY <1>6, <2>1
  <2>2. CASE ~state[w].has_table_stats
    <3>1. column_stats[t] = {}
      BY <1>3, <1>7, <2>2 DEF StateIsCurrent, IInv, CatalogInv, NoStatsNoRows
    <3>. QED  BY <1>6, <2>2, <3>1
  <2>. QED  BY <2>1, <2>2
<1>. HIDE DEF m
<1>8. pc'[w] = "merged" /\ merged'[w] = m
  BY <1>1 DEF IInv, TypeOK
<1>9. TypeOK'
  BY <1>1, <1>5 DEF IInv, TypeOK, CatalogTypeOK, catalogVars
<1>10. \A u \in Writers \ {w} : Untouched(u)
  BY <1>1 DEF IInv, TypeOK, Untouched
<1>11. StatementOK(w)'
  <2>1. Publishable(batch[w], state[w])'
    BY <1>1 DEF Publishable, ValidateBinding, CheckInterveningChanges, WithinIdLimits
  <2>. QED  BY <1>1, <1>2, <1>5, <1>8, <2>1 DEF StatementOK, Ended
<1>12. Latest' = Latest
  BY <1>1 DEF catalogVars, Latest
<1>13. StateIsCurrent(w) => StateIsCurrent(w)'
  BY <1>1, <1>7, <1>8, <1>12 DEF StateIsCurrent, catalogVars
<1>14. AttemptOK(w)'
  BY <1>1, <1>2, <1>8, <1>12, <1>13 DEF AttemptOK, catalogVars
<1>. QED  BY <1>1, <1>8, <1>9, <1>10, <1>11, <1>14 DEF QuietStepOK

(* The heart of the argument: a claim that succeeds shows that nothing has *)
(* been committed since the statement read the catalog.                    *)
LEMMA ClaimSnapshotOK ==
  ASSUME IInv, NEW w \in Writers, ClaimSnapshot(w)
  PROVE  QuietStepOK(w)
<1>. DEFINE final == FinalTags(state[w])
<1>1. /\ pc[w] = "merged"
      /\ pc' = [pc EXCEPT ![w] = "claimed"]
      /\ state[w].snapshot_id + 1 \notin DOMAIN snapshot
      /\ ~KeyIsHeld(state[w].snapshot_id + 1)
      /\ tags' = [tags EXCEPT ![w] =
                     IF final = batch[w].candidate THEN tags[w] ELSE final]
      /\ UNCHANGED <<catalogVars, batch, state, merged, attempt, client>>
  BY DEF ClaimSnapshot, Goto, FinalTags
<1>2. StatementOK(w) /\ AttemptOK(w)
  BY DEF IInv, WriterInv
<1>3. /\ state[w] \in PublicationState
      /\ tags[w] = batch[w].candidate
  BY <1>1, <1>2 DEF StatementOK
<1>4. Latest \in Nat /\ state[w].snapshot_id \in Nat
  BY <1>3 DEF PublicationState, IInv, CatalogInv, CatalogTypeOK, HasLatest
<1>5. state[w].snapshot_id = Latest
  <2>1. state[w].snapshot_id <= Latest
    BY <1>1, <1>2 DEF AttemptOK
  <2>2. state[w].snapshot_id + 1 \notin state[w].snapshot_id + 1 .. Latest
    BY <1>1, <1>2 DEF AttemptOK
  <2>. QED  BY <1>4, <2>1, <2>2, SMT
<1>6. pc'[w] = "claimed" /\ tags'[w] = final
  BY <1>1, <1>3 DEF IInv, TypeOK
<1>7. final \in Tags
  BY <1>3, SMT DEF FinalTags, Tags, PublicationState
<1>8. TypeOK'
  <2>1. tags' \in [Writers -> Tags \cup {None}]
    BY <1>1, <1>7 DEF IInv, TypeOK
  <2>. QED  BY <1>1, <2>1 DEF IInv, TypeOK, CatalogTypeOK, catalogVars
<1>9. \A u \in Writers \ {w} : Untouched(u)
  BY <1>1 DEF IInv, TypeOK, Untouched
<1>10. StatementOK(w)'
  <2>1. /\ Publishable(batch[w], state[w]) => Publishable(batch[w], state[w])'
        /\ FinalTags(state[w])' = final
    BY <1>1 DEF Publishable, ValidateBinding, CheckInterveningChanges, WithinIdLimits,
                FinalTags
  <2>. QED  BY <1>1, <1>2, <1>6, <2>1 DEF StatementOK, Ended
<1>11. Latest' = Latest
  BY <1>1 DEF catalogVars, Latest
<1>12. StateIsCurrent(w) => StateIsCurrent(w)'
  BY <1>1, <1>6, <1>11 DEF StateIsCurrent, catalogVars
<1>13. AttemptOK(w)'
  BY <1>1, <1>2, <1>5, <1>6, <1>11, <1>12 DEF AttemptOK, catalogVars
<1>. QED  BY <1>1, <1>5, <1>6, <1>8, <1>9, <1>10, <1>13 DEF QuietStepOK

(* A lost claim leaves the rows as they were written and is counted.       *)
LEMMA ClaimConflictOK ==
  ASSUME IInv, NEW w \in Writers, ClaimConflict(w)
  PROVE  QuietStepOK(w)
<1>1. /\ pc[w] = "merged"
      /\ pc' = [pc EXCEPT ![w] = "publish"]
      /\ attempt[w] < MaxRetry
      /\ attempt' = [attempt EXCEPT ![w] = attempt[w] + 1]
      /\ UNCHANGED <<catalogVars, batch, tags, state, merged, client>>
  BY DEF ClaimConflict, Goto
<1>2. StatementOK(w)
  BY DEF IInv, WriterInv
<1>3. pc'[w] = "publish"
  BY <1>1 DEF IInv, TypeOK
<1>4. TypeOK'
  <2>1. attempt' \in [Writers -> 0 .. MaxRetry]
    BY <1>1, MaxRetryAssumption, SMT DEF IInv, TypeOK
  <2>. QED  BY <1>1, <2>1 DEF IInv, TypeOK, CatalogTypeOK, catalogVars
<1>5. \A u \in Writers \ {w} : Untouched(u)
  BY <1>1 DEF IInv, TypeOK, Untouched
<1>6. StatementOK(w)' /\ AttemptOK(w)'
  BY <1>1, <1>2, <1>3 DEF StatementOK, AttemptOK, Ended
<1>. QED  BY <1>1, <1>3, <1>4, <1>5, <1>6 DEF QuietStepOK

-----------------------------------------------------------------------------

(* The inductive invariant.                                                *)

(* The invariant holds in the empty catalog.                               *)
LEMMA InitInv == Init => IInv
<1>. SUFFICES ASSUME Init PROVE IInv
  OBVIOUS
<1>1. CatalogInv
  BY CatalogInitInv DEF Init
<1>2. TypeOK
  BY <1>1, MaxRetryAssumption, SMT DEF Init, TypeOK, CatalogInv
<1>3. WriterInv
  BY DEF Init, WriterInv, StatementOK, AttemptOK, ClientOK, OneClaim, Ended
<1>. QED  BY <1>1, <1>2, <1>3 DEF IInv

(* A step of one statement before its commit preserves the invariant.      *)
LEMMA QuietStepInv ==
  ASSUME IInv, CatalogInv', NEW w \in Writers, QuietStepOK(w)
  PROVE  IInv'
<1>1. TypeOK' /\ UNCHANGED <<catalogVars, client>>
  BY DEF QuietStepOK
<1>2. Latest' = Latest
  BY <1>1 DEF catalogVars, Latest
<1>3. ASSUME NEW u \in Writers
      PROVE  StatementOK(u)' /\ AttemptOK(u)'
  BY <1>1, StutterKeepsStatement DEF QuietStepOK, IInv, WriterInv
<1>4. \A x \in Clients : ClientOK(x)'
  BY <1>1, <1>2 DEF IInv, WriterInv, ClientOK
<1>5. OneClaim'
  <2>1. \A u \in Writers \ {w} : pc'[u] = pc[u]
    BY DEF QuietStepOK, Untouched
  <2>2. ASSUME pc'[w] = "claimed"
        PROVE  /\ \A u \in Writers : pc[u] # "claimed"
               /\ \A x \in Clients : client[x].pc # "claimed"
    <3>1. ~KeyIsHeld(Latest + 1)
      BY <2>2 DEF QuietStepOK
    <3>2. ASSUME NEW u \in Writers, pc[u] = "claimed"
          PROVE  state[u].snapshot_id = Latest
      BY <3>2 DEF IInv, WriterInv, AttemptOK
    <3>3. ASSUME NEW x \in Clients, client[x].pc = "claimed"
          PROVE  client[x].id = Latest + 1
      BY <3>3 DEF IInv, WriterInv, ClientOK
    <3>. QED  BY <3>1, <3>2, <3>3 DEF KeyIsHeld, ClaimedBy, ClaimedByClient
  <2>. QED  BY <1>1, <2>1, <2>2 DEF IInv, WriterInv, OneClaim
<1>. QED  BY <1>1, <1>3, <1>4, <1>5 DEF IInv, WriterInv

(* A commit preserves it, because the one who commits is the only one that *)
(* holds a claim.                                                          *)
LEMMA CommitBatchInv ==
  ASSUME IInv, CatalogInv', NEW w \in Writers, CommitBatch(w)
  PROVE  IInv'
<1>1. pc[w] = "claimed" /\ End(w, "committed") /\ UNCHANGED client
  BY DEF CommitBatch, ClaimedRow, StatsWithBatch
<1>2. /\ Latest' = Latest + 1
      /\ DOMAIN snapshot' = DOMAIN snapshot \cup {Latest + 1}
  BY CommitIsAppend, PublishLatest DEF AppendBatch, IInv, CatalogInv
<1>3. TypeOK'
  BY <1>1, MaxRetryAssumption, SMT DEF End, IInv, TypeOK, CatalogInv, Ended
<1>4. pc'[w] = "committed" /\ \A u \in Writers \ {w} : Untouched(u)
  BY <1>1 DEF End, IInv, TypeOK, Untouched
<1>5. /\ \A u \in Writers \ {w} : pc[u] # "claimed"
      /\ \A x \in Clients : client[x].pc # "claimed"
  BY <1>1 DEF IInv, WriterInv, OneClaim
<1>6. ASSUME NEW u \in Writers
      PROVE  StatementOK(u)' /\ AttemptOK(u)'
  <2>1. CASE u = w
    BY <1>4, <2>1 DEF StatementOK, AttemptOK, Ended
  <2>2. CASE u # w
    BY <1>2, <1>4, <1>5, <2>2, CommitKeepsStatement DEF IInv, WriterInv
  <2>. QED  BY <2>1, <2>2
<1>7. \A x \in Clients : ClientOK(x)'
  BY <1>1, <1>5 DEF ClientOK
<1>8. OneClaim'
  BY <1>1, <1>4, <1>5, ZenonT(30) DEF OneClaim, Untouched
<1>. QED  BY <1>3, <1>6, <1>7, <1>8 DEF IInv, WriterInv

(* Every step of a native statement preserves it.                          *)
LEMMA WriterStepInv ==
  ASSUME IInv, CatalogInv', NEW w \in Writers, WriterStep(w) \/ AbortStatement(w)
  PROVE  IInv'
<1>1. CASE CommitBatch(w)
  BY <1>1, CommitBatchInv
<1>2. CASE InsertNothing(w)
  BY <1>2, EndOK, QuietStepInv DEF InsertNothing, Ended
<1>3. CASE FailStatement(w)
  BY <1>3, EndOK, QuietStepInv DEF FailStatement, Ended
<1>4. CASE AbortStatement(w)
  BY <1>4, EndOK, QuietStepInv DEF AbortStatement, Ended
<1>5. CASE PlanDirectInsert(w)
  BY <1>5, PlanDirectInsertOK, QuietStepInv
<1>6. CASE PrepareNativeInlineWrite(w)
  BY <1>6, PrepareNativeInlineWriteOK, QuietStepInv
<1>7. CASE InsertRows(w)
  BY <1>7, InsertRowsOK, QuietStepInv
<1>8. CASE ReadPublicationState(w)
  BY <1>8, ReadPublicationStateOK, QuietStepInv
<1>9. CASE DeriveNextRowId(w)
  BY <1>9, DeriveNextRowIdOK, QuietStepInv
<1>10. CASE PrepareMergedColumnStats(w)
  BY <1>10, PrepareMergedColumnStatsOK, QuietStepInv
<1>11. CASE ClaimSnapshot(w)
  BY <1>11, ClaimSnapshotOK, QuietStepInv
<1>12. CASE ClaimConflict(w)
  BY <1>12, ClaimConflictOK, QuietStepInv
<1>. QED
  BY <1>1, <1>2, <1>3, <1>4, <1>5, <1>6, <1>7, <1>8, <1>9, <1>10, <1>11, <1>12
  DEF WriterStep

(* So does every step of a DuckLake transaction.                           *)
LEMMA ClientStepInv ==
  ASSUME IInv, CatalogInv', NEW x \in Clients, ClientStep(x)
  PROVE  IInv'
<1>1. UNCHANGED writerVars
  BY DEF ClientStep, DuckLakeClaim, DuckLakeFinish, DuckLakeAbort, EndClient
<1>2. \A u \in Writers : Untouched(u)
  BY <1>1 DEF writerVars, Untouched
<1>3. CASE DuckLakeClaim(x)
  <2>1. PICK op \in Operation :
          client' = [client EXCEPT ![x] =
                      [pc |-> "claimed", op |-> op, id |-> Latest + 1]]
    BY <1>3 DEF DuckLakeClaim
  <2>2. ~KeyIsHeld(Latest + 1) /\ UNCHANGED catalogVars
    BY <1>3 DEF DuckLakeClaim
  <2>3. Latest' = Latest /\ Latest \in Nat
    BY <2>2 DEF catalogVars, Latest, IInv, CatalogInv, HasLatest, CatalogTypeOK
  <2>4. TypeOK'
    BY <1>1, <2>1, <2>3, SMT DEF IInv, TypeOK, CatalogInv, writerVars
  <2>5. \A u \in Writers : StatementOK(u)' /\ AttemptOK(u)'
    BY <1>2, <2>2, StutterKeepsStatement DEF IInv, WriterInv
  <2>6. client'[x] = [pc |-> "claimed", op |-> op, id |-> Latest + 1]
        /\ \A y \in Clients \ {x} : client'[y] = client[y]
    BY <2>1 DEF IInv, TypeOK
  <2>7. \A y \in Clients : ClientOK(y)'
    BY <2>3, <2>6, SMT DEF ClientOK, IInv, WriterInv
  <2>8. /\ \A u \in Writers : pc[u] # "claimed"
        /\ \A y \in Clients : client[y].pc # "claimed"
    <3>1. ASSUME NEW u \in Writers, pc[u] = "claimed"
          PROVE  state[u].snapshot_id = Latest
      BY <3>1 DEF IInv, WriterInv, AttemptOK
    <3>2. ASSUME NEW y \in Clients, client[y].pc = "claimed"
          PROVE  client[y].id = Latest + 1
      BY <3>2 DEF IInv, WriterInv, ClientOK
    <3>. QED  BY <2>2, <3>1, <3>2 DEF KeyIsHeld, ClaimedBy, ClaimedByClient
  <2>9. OneClaim'
    BY <1>2, <2>6, <2>8, ZenonT(30) DEF OneClaim, Untouched
  <2>. QED  BY <2>4, <2>5, <2>7, <2>9 DEF IInv, WriterInv
<1>4. ASSUME NEW how \in Ended, EndClient(x, how)
      PROVE  /\ TypeOK'
             /\ client'[x].pc # "claimed"
             /\ \A y \in Clients \ {x} : client'[y] = client[y]
             /\ OneClaim'
  <2>1. /\ client[x].pc = "claimed"
        /\ client' = [client EXCEPT ![x] = [pc |-> how, op |-> None, id |-> 0]]
    BY <1>4 DEF EndClient
  <2>2. TypeOK'
    BY <1>1, <2>1 DEF IInv, TypeOK, CatalogInv, writerVars
  <2>3. /\ client'[x].pc # "claimed"
        /\ \A y \in Clients \ {x} : client'[y] = client[y]
    BY <2>1 DEF IInv, TypeOK, Ended
  <2>4. OneClaim'
    <3>1. OneClaim
      BY DEF IInv, WriterInv
    <3>2. \A y \in Clients : client'[y].pc = "claimed" => client[y].pc = "claimed"
      BY <2>3
    <3>3. \A u \in Writers : pc'[u] = pc[u]
      BY <1>2 DEF Untouched
    <3>. QED  BY <3>1, <3>2, <3>3 DEF OneClaim
  <2>. QED  BY <2>2, <2>3, <2>4
<1>5. CASE DuckLakeAbort(x)
  <2>1. EndClient(x, "failed") /\ UNCHANGED catalogVars
    BY <1>5 DEF DuckLakeAbort
  <2>2. Latest' = Latest
    BY <2>1 DEF catalogVars, Latest
  <2>3. \A u \in Writers : StatementOK(u)' /\ AttemptOK(u)'
    BY <1>2, <2>1, StutterKeepsStatement DEF IInv, WriterInv
  <2>4. \A y \in Clients : ClientOK(y)'
    BY <1>4, <2>1, <2>2 DEF ClientOK, IInv, WriterInv, Ended
  <2>. QED  BY <1>4, <2>1, <2>3, <2>4 DEF IInv, WriterInv, Ended
<1>6. CASE DuckLakeFinish(x)
  <2>1. EndClient(x, "committed") /\ DuckLakeCommit(client[x].op, x)
    BY <1>6 DEF DuckLakeFinish
  <2>2. \E row : snapshot' = WithSnapshot(Latest + 1, row)
    BY <2>1 DEF DuckLakeCommit
  <2>3. /\ Latest' = Latest + 1
        /\ DOMAIN snapshot' = DOMAIN snapshot \cup {Latest + 1}
    BY <2>2, PublishLatest DEF IInv, CatalogInv
  <2>4. client[x].pc = "claimed"
    BY <2>1 DEF EndClient
  <2>5. /\ \A u \in Writers : pc[u] # "claimed"
        /\ \A y \in Clients \ {x} : client[y].pc # "claimed"
    BY <2>4 DEF IInv, WriterInv, OneClaim
  <2>6. \A u \in Writers : StatementOK(u)' /\ AttemptOK(u)'
    BY <1>2, <2>3, <2>5, CommitKeepsStatement DEF IInv, WriterInv
  <2>7. \A y \in Clients : ClientOK(y)'
    BY <1>4, <2>1, <2>5 DEF ClientOK, Ended
  <2>. QED  BY <1>4, <2>1, <2>6, <2>7 DEF IInv, WriterInv, Ended
<1>. QED  BY <1>3, <1>5, <1>6 DEF ClientStep

(* Expiry preserves it while the retention window covers every attempt.    *)
LEMMA ExpireInv ==
  ASSUME IInv, CatalogInv', NEW s \in DOMAIN snapshot,
         RetentionCoversAttempts(s), Expire(s)
  PROVE  IInv'
<1>1. ExpireSnapshot(s) /\ UNCHANGED <<writerVars, client>>
  BY DEF Expire
<1>2. Latest' = Latest
  BY <1>1, ExpireLatest DEF IInv, CatalogInv
<1>3. /\ DOMAIN snapshot' = DOMAIN snapshot \ {s}
      /\ \A r \in DOMAIN snapshot' : snapshot'[r] = snapshot[r]
      /\ UNCHANGED <<live, inline_schema, table_stats, column_stats, rows>>
      /\ s # Latest
  BY <1>1 DEF ExpireSnapshot
<1>4. snapshot'[Latest] = snapshot[Latest] /\ Latest \in Nat /\ s \in Nat
  BY <1>3 DEF IInv, CatalogInv, HasLatest, CatalogTypeOK
<1>5. TypeOK'
  BY <1>1 DEF IInv, TypeOK, CatalogInv, writerVars
<1>6. ASSUME NEW u \in Writers
      PROVE  StatementOK(u)' /\ AttemptOK(u)'
  <2>1. StatementOK(u) /\ AttemptOK(u)
    BY DEF IInv, WriterInv
  <2>2. StatementOK(u)'
    BY <1>1, <2>1 DEF writerVars, StatementOK, FinalTags, Publishable, ValidateBinding,
                      CheckInterveningChanges, WithinIdLimits
  <2>3. StateIsCurrent(u) => StateIsCurrent(u)'
    BY <1>1, <1>2, <1>3, <1>4 DEF StateIsCurrent, writerVars
  <2>4. ASSUME pc[u] \in {"derive", "read", "merged", "claimed"}
        PROVE  state[u].snapshot_id + 1 .. Latest \subseteq DOMAIN snapshot'
    <3>1. state[u].snapshot_id \in Nat
      BY <2>1, <2>4 DEF StatementOK, PublicationState
    <3>2. state[u].snapshot_id + 1 .. Latest \subseteq DOMAIN snapshot
      BY <2>1, <2>4 DEF AttemptOK
    <3>3. s <= state[u].snapshot_id
      <4>1. CASE pc[u] = "claimed"
        BY <1>4, <2>1, <4>1 DEF AttemptOK, IInv, CatalogInv, HasLatest
      <4>2. CASE pc[u] # "claimed"
        BY <2>4, <4>2 DEF RetentionCoversAttempts, Attempting
      <4>. QED  BY <4>1, <4>2
    <3>. QED  BY <1>3, <1>4, <3>1, <3>2, <3>3, SMT
  <2>5. AttemptOK(u)'
    <3>1. pc' = pc /\ state' = state
      BY <1>1 DEF writerVars
    <3>2. SUFFICES ASSUME pc[u] \in {"derive", "read", "merged", "claimed"}
                   PROVE  /\ state[u].snapshot_id <= Latest
                          /\ pc[u] = "claimed" => state[u].snapshot_id = Latest
                          /\ state[u].snapshot_id + 1 .. Latest \subseteq DOMAIN snapshot'
                          /\ state[u].snapshot_id = Latest => StateIsCurrent(u)'
      BY <1>2, <3>1 DEF AttemptOK
    <3>. QED  BY <2>1, <2>3, <2>4, <3>2 DEF AttemptOK
  <2>. QED  BY <2>2, <2>5
<1>7. \A x \in Clients : ClientOK(x)'
  BY <1>1, <1>2 DEF IInv, WriterInv, ClientOK
<1>8. OneClaim'
  BY <1>1 DEF IInv, WriterInv, OneClaim, writerVars
<1>. QED  BY <1>5, <1>6, <1>7, <1>8 DEF IInv, WriterInv

(* Every step of the system preserves the invariant.                       *)
LEMMA StepInv == IInv /\ [Next]_vars => IInv'
<1>. SUFFICES ASSUME IInv, [Next]_vars PROVE IInv'
  OBVIOUS
<1>1. CatalogInv'
  BY StepRefines, CatalogStepInv DEF IInv
<1>2. CASE \E w \in Writers : WriterStep(w) \/ AbortStatement(w)
  BY <1>1, <1>2, WriterStepInv
<1>3. CASE \E x \in Clients : ClientStep(x)
  BY <1>1, <1>3, ClientStepInv
<1>4. CASE \E s \in DOMAIN snapshot : RetentionCoversAttempts(s) /\ Expire(s)
  BY <1>1, <1>4, ExpireInv
<1>5. CASE UNCHANGED vars
  <2>1. /\ UNCHANGED catalogVars
        /\ UNCHANGED client
        /\ \A u \in Writers : Untouched(u)
    BY <1>5 DEF vars, writerVars, Untouched
  <2>2. Latest' = Latest
    BY <2>1 DEF catalogVars, Latest
  <2>3. TypeOK'
    BY <1>1, <1>5 DEF vars, writerVars, IInv, TypeOK, CatalogInv
  <2>4. \A u \in Writers : StatementOK(u)' /\ AttemptOK(u)'
    BY <2>1, StutterKeepsStatement DEF IInv, WriterInv
  <2>5. (\A x \in Clients : ClientOK(x)') /\ OneClaim'
    BY <2>1, <2>2, SMT DEF IInv, WriterInv, ClientOK, OneClaim, Untouched
  <2>. QED  BY <1>1, <2>3, <2>4, <2>5 DEF IInv, WriterInv
<1>. QED  BY <1>2, <1>3, <1>4, <1>5 DEF Next, Terminated

-----------------------------------------------------------------------------

(* Type correctness of the native inline writer.                           *)
THEOREM TypeCorrect == Spec => []TypeOK
<1>1. IInv => TypeOK
  BY DEF IInv
<1>. QED  BY InitInv, StepInv, <1>1, PTL DEF Spec

(* The native writer implements atomic appends: interleaved with DuckLake  *)
(* commits, aborts and expiry, every reader sees each native INSERT or     *)
(* COPY as one step that adds the next snapshot with its rows and exact    *)
(* statistics.                                                             *)
THEOREM ImplementsCatalog == Spec => CatalogSpec
<1>1. Init => CatalogInit
  BY DEF Init
<1>. QED  BY InitInv, StepInv, StepRefines, <1>1, PTL DEF Spec, CatalogSpec

(* Hence the promises of the catalog hold of the native writer: no lost    *)
(* update of the statistics, no row ID used twice, no committed value      *)
(* excluded, no row with the snapshot of a failed attempt.                 *)
THEOREM NativeWriterIsCorrect ==
  Spec => [](/\ TableStatsExact
             /\ StatsAdmitCommittedValues
             /\ RowsCarryTheirSnapshot)
BY ImplementsCatalog, CatalogIsCorrect, PTL

(* No committed value is excluded by the column statistics: the bounds     *)
(* that a publication merged before its claim still admit what others      *)
(* committed in between (PrepareMergedColumnStats).                        *)
THEOREM BoundsAdmitCommittedValues == Spec => []StatsAdmitCommittedValues
BY NativeWriterIsCorrect, PTL

(* Every committed row carries the snapshot and the row IDs of the attempt *)
(* that published it, never the candidates of one that failed              *)
(* (RetagInlineRows).                                                      *)
THEOREM RowsAreRetagged == Spec => []RowsCarryTheirSnapshot
BY NativeWriterIsCorrect, PTL

(* What ValidateBinding and CheckInterveningChanges found before the claim *)
(* holds at the commit: at a claim that succeeded, what was read is        *)
(* current.                                                                *)
LEMMA CommitCrossesNothing ==
  ASSUME IInv, NEW w \in Writers, pc[w] = "claimed"
  PROVE  /\ batch[w].table_id \in live
         /\ inline_schema[batch[w].table_id] = batch[w].schema_version
         /\ \A s \in DOMAIN snapshot :
              s > batch[w].start_snapshot_id =>
                \/ snapshot[s].change.table # batch[w].table_id
                \/ snapshot[s].change.kind \notin ConflictingKinds
<1>1. StateIsCurrent(w) /\ Publishable(batch[w], state[w])
  BY DEF IInv, WriterInv, StatementOK, AttemptOK
<1>2. /\ batch[w].table_id \in live
      /\ inline_schema[batch[w].table_id] = batch[w].schema_version
  BY <1>1 DEF StateIsCurrent, Publishable, ValidateBinding
<1>3. \A s \in DOMAIN snapshot :
        s > batch[w].start_snapshot_id => snapshot[s].change \in state[w].changes_made
  BY <1>1 DEF StateIsCurrent
<1>. QED  BY <1>1, <1>2, <1>3 DEF Publishable, CheckInterveningChanges

(* No native append commits across a change that it must not cross.        *)
THEOREM AppendsCrossNothing == Spec => NoAppendAcrossConflict
<1>1. IInv /\ [Next]_vars =>
        [\A w \in Writers :
           pc[w] = "claimed" /\ pc'[w] = "committed" =>
             /\ batch[w].table_id \in live
             /\ inline_schema[batch[w].table_id] = batch[w].schema_version
             /\ \A s \in DOMAIN snapshot :
                  s > batch[w].start_snapshot_id =>
                    \/ snapshot[s].change.table # batch[w].table_id
                    \/ snapshot[s].change.kind \notin ConflictingKinds]_vars
  BY CommitCrossesNothing
<1>. QED  BY InitInv, StepInv, <1>1, PTL DEF Spec, NoAppendAcrossConflict
=============================================================================
