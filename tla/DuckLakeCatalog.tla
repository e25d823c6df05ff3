--------------------------- MODULE DuckLakeCatalog ---------------------------
(***************************************************************************)
(* The DuckLake catalog that pg_ducklake keeps in the PostgreSQL tables of *)
(* the schema ducklake, as it is promised to its readers: a sequence of    *)
(* committed snapshots, each of which changes the catalog in one atomic    *)
(* step.                                                                   *)
(*                                                                         *)
(* This is the abstract specification of native appends.  The module       *)
(* NativeInlineWriter shows how a PostgreSQL backend takes many            *)
(* interleaved steps to make what is here the single step AppendBatch.     *)
(*                                                                         *)
(* DuckLake's own commits and its expiry of snapshots are not in this      *)
(* repository (third_party/ducklake is a submodule).  They are modelled    *)
(* from the metadata that the native writer reads back.                    *)
(***************************************************************************)
EXTENDS Integers

CONSTANTS
  Tables,   \* table_ids of the DuckLake tables
  Values,   \* classes of column values that statistics must not confuse
  MaxRows,  \* bound: the largest number of rows of one statement
  MaxId     \* max_protocol_id, the largest int64 (small in the models)

ASSUME MaxRowsAssumption == MaxRows \in Nat
ASSUME MaxIdAssumption == MaxId \in Nat

VARIABLES
  snapshot,       \* ducklake_snapshot with its ducklake_snapshot_changes row
  live,           \* ducklake_table: the tables whose end_snapshot is NULL
  inline_schema,  \* ducklake_inlined_data_tables: MAX(schema_version) by table
  table_stats,    \* ducklake_table_stats, by table
  column_stats,   \* ducklake_table_column_stats: the values the bounds admit
  rows            \* committed rows, one record for the rows of a statement

catalogVars ==
  <<snapshot, live, inline_schema, table_stats, column_stats, rows>>

-----------------------------------------------------------------------------

(* The entries of changes_made that CheckInterveningChanges refuses.       *)
ConflictingKinds ==
  {"dropped_table", "altered_table", "deleted_from_table", "inlined_delete"}

ChangeKinds ==
  ConflictingKinds \cup
    {"created_table", "inserted_into_table", "inlined_insert", "inline_flush"}

Change == [kind : ChangeKinds, table : Tables]

SnapshotRow ==
  [change : Change, schema_version : Nat, next_catalog_id : Nat,
   next_file_id : Nat]

TableStats == [exists : BOOLEAN, record_count : Nat, next_row_id : Nat]

Batch ==
  [table : Tables, begin_snapshot : Nat, row_id : Nat, count : Nat,
   value : Values]

(* SELECT MAX(snapshot_id) FROM ducklake.ducklake_snapshot.                *)
Latest ==
  CHOOSE s \in DOMAIN snapshot : \A r \in DOMAIN snapshot : r <= s

(* Add the row of the snapshot s.                                          *)
WithSnapshot(s, row) ==
  [r \in DOMAIN snapshot \cup {s} |-> IF r = s THEN row ELSE snapshot[r]]

-----------------------------------------------------------------------------

(* The tables exist, and nothing has been written to them yet.             *)
CatalogInit ==
  /\ \E t \in Tables :
       snapshot = [s \in {0} |->
         [change |-> [kind |-> "created_table", table |-> t],
          schema_version |-> 0, next_catalog_id |-> 0, next_file_id |-> 0]]
  /\ live = Tables
  /\ inline_schema = [t \in Tables |-> 0]
  /\ table_stats =
       [t \in Tables |->
         [exists |-> FALSE, record_count |-> 0, next_row_id |-> 0]]
  /\ column_stats = [t \in Tables |-> {}]
  /\ rows = {}

RowsFit(t, n) == table_stats[t].next_row_id + n <= MaxId

(* The statistics and the row range of n more rows of the table t.         *)
AddRows(t, n, v, s) ==
  /\ table_stats' =
       [table_stats EXCEPT ![t] =
         [exists |-> TRUE, record_count |-> @.record_count + n,
          next_row_id |-> @.next_row_id + n]]
  /\ column_stats' = [column_stats EXCEPT ![t] = @ \cup {v}]
  /\ rows' = rows \cup
       {[table |-> t, begin_snapshot |-> s,
         row_id |-> table_stats[t].next_row_id, count |-> n, value |-> v]}

(* One native INSERT or COPY of n rows, as a reader of the catalog sees    *)
(* it: the next snapshot appears together with its rows, its change record *)
(* and statistics that count and admit those rows.                         *)
AppendBatch(t, n, v) ==
  /\ t \in live
  /\ Latest < MaxId
  /\ RowsFit(t, n)
  /\ snapshot' =
       WithSnapshot(Latest + 1,
         [change |-> [kind |-> "inlined_insert", table |-> t],
          schema_version |-> snapshot[Latest].schema_version,
          next_catalog_id |-> snapshot[Latest].next_catalog_id,
          next_file_id |-> snapshot[Latest].next_file_id + 1])
  /\ AddRows(t, n, v, Latest + 1)
  /\ UNCHANGED <<live, inline_schema>>

-----------------------------------------------------------------------------

(* A transaction of the DuckLake library: what it does to which table, and *)
(* how many rows it adds if it adds any.                                   *)
Operation ==
  [kind : ChangeKinds \ {"inlined_insert"}, table : Tables, count : 1 .. MaxRows]

OperationIsPossible(op) ==
  /\ op.table \in live
  /\ Latest < MaxId
  /\ op.kind = "inserted_into_table" => RowsFit(op.table, op.count)

(* Changes of the schema start a new schema version, ALTER TABLE with a    *)
(* new inlined data table.  An insert and a flush write a data file.       *)
DuckLakeCommit(op, v) ==
  LET last   == snapshot[Latest]
      t      == op.table
      isDdl  == op.kind \in {"created_table", "altered_table", "dropped_table"}
      isFile == op.kind \in {"inserted_into_table", "inline_flush"}
      schema == IF isDdl THEN last.schema_version + 1 ELSE last.schema_version
  IN /\ OperationIsPossible(op)
     /\ snapshot' =
          WithSnapshot(Latest + 1,
            [change |-> [kind |-> op.kind, table |-> t],
             schema_version |-> schema,
             next_catalog_id |->
               IF isDdl THEN last.next_catalog_id + 1 ELSE last.next_catalog_id,
             next_file_id |->
               IF isFile THEN last.next_file_id + 1 ELSE last.next_file_id])
     /\ live' = IF op.kind = "dropped_table" THEN live \ {t} ELSE live
     /\ inline_schema' =
          IF op.kind = "altered_table"
            THEN [inline_schema EXCEPT ![t] = schema]
            ELSE inline_schema
     /\ IF op.kind = "inserted_into_table"
          THEN AddRows(t, op.count, v, Latest + 1)
          ELSE UNCHANGED <<table_stats, column_stats, rows>>

(* ducklake_expire_snapshots forgets a snapshot that is not the latest,    *)
(* with its change record.                                                 *)
ExpireSnapshot(s) ==
  /\ s \in DOMAIN snapshot \ {Latest}
  /\ snapshot' = [r \in DOMAIN snapshot \ {s} |-> snapshot[r]]
  /\ UNCHANGED <<live, inline_schema, table_stats, column_stats, rows>>

CatalogNext ==
  \/ \E t \in Tables, n \in 1 .. MaxRows, v \in Values : AppendBatch(t, n, v)
  \/ \E op \in Operation, v \in Values : DuckLakeCommit(op, v)
  \/ \E s \in DOMAIN snapshot : ExpireSnapshot(s)

CatalogSpec == CatalogInit /\ [][CatalogNext]_catalogVars

-----------------------------------------------------------------------------

CatalogTypeOK ==
  /\ DOMAIN snapshot \subseteq Nat
  /\ snapshot \in [DOMAIN snapshot -> SnapshotRow]
  /\ live \subseteq Tables
  /\ inline_schema \in [Tables -> Nat]
  /\ table_stats \in [Tables -> TableStats]
  /\ column_stats \in [Tables -> SUBSET Values]
  /\ rows \subseteq Batch

HasRow(b, i) == b.row_id <= i /\ i < b.row_id + b.count

(* The committed rows of t have the row IDs below next, each of them once. *)
RowIdsFill(t, next) ==
  /\ \A i \in 0 .. next - 1 : \E b \in rows : b.table = t /\ HasRow(b, i)
  /\ \A b \in rows : b.table = t => b.row_id + b.count <= next
  /\ \A i \in 0 .. next - 1 : \A a, b \in rows :
       a.table = t /\ b.table = t /\ HasRow(a, i) /\ HasRow(b, i) => a = b

(* The statistics row of a table counts every committed row exactly once:  *)
(* the row IDs below next_row_id, record_count of them, belong to one      *)
(* committed statement each, and no committed row has another row ID.      *)
(* Concurrent appends that lose an update of ducklake_table_stats or share *)
(* a range of row IDs break it.                                            *)
TableStatsExact ==
  \A t \in Tables :
    /\ table_stats[t].record_count = table_stats[t].next_row_id
    /\ RowIdsFill(t, table_stats[t].next_row_id)

(* Persisted column statistics never exclude a committed value, whatever   *)
(* appends run between the read of the old bounds and their update.        *)
StatsAdmitCommittedValues ==
  \A b \in rows : b.value \in column_stats[b.table]

(* The rows of a statement carry the snapshot that their own transaction   *)
(* published: no two statements share one, none is ahead of the latest,    *)
(* and the change record of the snapshot, unless it has expired, says that *)
(* rows were added to their table.                                         *)
RowsCarryTheirSnapshot ==
  /\ \A b \in rows :
       /\ b.begin_snapshot <= Latest
       /\ b.begin_snapshot \in DOMAIN snapshot =>
            LET c == snapshot[b.begin_snapshot].change
            IN /\ c.kind \in {"inlined_insert", "inserted_into_table"}
               /\ c.table = b.table
  /\ \A a, b \in rows : a.begin_snapshot = b.begin_snapshot => a = b

(* The inductive invariant of the catalog: its types, the existence of the *)
(* latest snapshot (Latest is a CHOOSE), tables without a statistics row,  *)
(* and the promises above.  Row IDs stay unique only because they all lie  *)
(* below next_row_id, and snapshots stay unshared only because no row is   *)
(* ahead of Latest; both are parts of the promises.                        *)
HasLatest ==
  Latest \in DOMAIN snapshot /\ \A r \in DOMAIN snapshot : r <= Latest

NoStatsNoRows ==
  \A t \in Tables :
    ~table_stats[t].exists =>
      /\ table_stats[t].record_count = 0
      /\ table_stats[t].next_row_id = 0
      /\ column_stats[t] = {}
      /\ \A b \in rows : b.table # t

CatalogInv ==
  /\ CatalogTypeOK
  /\ HasLatest
  /\ NoStatsNoRows
  /\ TableStatsExact
  /\ StatsAdmitCommittedValues
  /\ RowsCarryTheirSnapshot

=============================================================================
