---------------------------- MODULE CatalogSync ----------------------------
(***************************************************************************)
(* Two catalogs of the same tables: PostgreSQL's pg_class and DuckLake's   *)
(* metadata.  DDL of a PostgreSQL session is forwarded to DuckLake by      *)
(* event triggers and the utility hook (ducklake_table.cpp, hooks.cpp,     *)
(* sorted_by.cpp); DDL of an external DuckLake client is brought back by a *)
(* trigger on ducklake_snapshot (catalog_sync.cpp).  Nothing but names     *)
(* relates the two.                                                        *)
(*                                                                         *)
(* One session runs DDL, in blocks or in statements of their own; external *)
(* clients commit snapshots at any moment.  The session sees pg_class as   *)
(* it is committed now, except for what it changed and keeps locked; its   *)
(* DuckDB transaction, once open in a block, sees the metadata as it was   *)
(* at its first query.                                                     *)
(***************************************************************************)
EXTENDS Naturals

CONSTANTS
  LakeNames,            \* names that DuckLake tables are given
  HeapNames,            \* names that PostgreSQL tables are given
  MaxIndexes,           \* bound: ducklake_sorted indexes on a table
  MaxLeaked,            \* bound: transactions after set_sort left its flag
  PathWithIfNotExists,  \* IF NOT EXISTS is used together with table_path
  Replacements,         \* clients replace a table in a single snapshot
  SortedRenames         \* clients rename sorted tables

ASSUME SwitchesAssumption ==
  /\ PathWithIfNotExists \in BOOLEAN /\ Replacements \in BOOLEAN
  /\ SortedRenames \in BOOLEAN

ASSUME BoundsAssumption == MaxIndexes \in Nat \ {0} /\ MaxLeaked \in Nat

VARIABLES
  cat,      \* the committed catalogs
  mine,     \* the catalogs as the session sees them
  tx,       \* "none", "statement" or "block"
  touched,  \* names whose pg_class entry the transaction changed (and locks)
  wrote,    \* names whose DuckLake table it changed
  active,   \* the block's DuckDB transaction is open
  stale,    \* names whose DuckLake table others changed since it opened
  options,  \* g_pending: the table_path of a CREATE not yet carried out
  syncing,  \* syncing_from_metadata, of the session's backend
  leaked    \* history: 0, or 1 + the transactions since an error left the
            \* flag raised

vars == <<cat, mine, tx, touched, wrote, active, stale, options, syncing,
          leaked>>

Names == LakeNames \cup HeapNames

Paths == {"default", "custom"}

(* A DuckLake table: where it was put, where its CREATE asked for, and if  *)
(* it is sorted.                                                           *)
LakeTables == [path : Paths, asked : Paths, sorted : BOOLEAN]

NoTable == [path |-> "none"]

(* pg: what pg_class has under a name; idx: its ducklake_sorted indexes.   *)
Catalogs == [pg : [Names -> {"none", "heap", "ducklake"}],
             idx : [Names -> 0 .. MaxIndexes],
             lake : [Names -> LakeTables \cup {NoTable}]]

TypeOK ==
  /\ cat \in Catalogs /\ mine \in Catalogs
  /\ tx \in {"none", "statement", "block"}
  /\ touched \subseteq Names /\ wrote \subseteq Names /\ stale \subseteq Names
  /\ active \in BOOLEAN /\ syncing \in BOOLEAN /\ leaked \in 0 .. MaxLeaked + 1
  /\ options \in Paths
  /\ tx = "none" => mine = cat /\ touched = {} /\ wrote = {}
  /\ active => tx = "block"

Init ==
  /\ cat = [pg |-> [n \in Names |-> "none"], idx |-> [n \in Names |-> 0],
            lake |-> [n \in Names |-> NoTable]]
  /\ mine = cat
  /\ tx = "none"
  /\ touched = {} /\ wrote = {} /\ stale = {}
  /\ active = FALSE /\ syncing = FALSE /\ leaked = 0
  /\ options = "default"

Exists(c, n) == c.lake[n] # NoTable

(***************************************************************************)
(* Transactions of the session.                                            *)
(***************************************************************************)

Begin ==
  /\ tx = "none"
  /\ tx' \in {"statement", "block"}
  /\ leaked <= MaxLeaked
  /\ leaked' = IF leaked = 0 THEN 0 ELSE leaked + 1
  /\ UNCHANGED <<cat, mine, touched, wrote, active, stale, options, syncing>>

(* The transaction is over, and c is committed.                            *)
Ends(c) ==
  /\ cat' = c /\ mine' = c
  /\ tx' = "none"
  /\ touched' = {} /\ wrote' = {} /\ stale' = {}
  /\ active' = FALSE

(* An error: everything is rolled back but the backend's variables.        *)
Fails(o) == Ends(cat) /\ options' = o /\ UNCHANGED <<syncing, leaked>>

(* ROLLBACK, or a statement that fails for a reason of its own.            *)
Rollback == tx # "none" /\ Fails(options)

(* The locks keep pg_class as the transaction left it; DuckLake refuses a  *)
(* commit that changes a table others have changed (external).             *)
(* ExecuteCommit inserts the snapshot with the sync trigger switched off.  *)
Commit ==
  /\ tx # "none"
  /\ IF wrote \cap stale # {}
       THEN Ends(cat)
       ELSE Ends([pg |-> [n \in Names |-> IF n \in touched THEN mine.pg[n]
                                                         ELSE cat.pg[n]],
                  idx |-> [n \in Names |-> IF n \in touched THEN mine.idx[n]
                                                          ELSE cat.idx[n]],
                  lake |-> [n \in Names |-> IF n \in wrote THEN mine.lake[n]
                                                         ELSE cat.lake[n]]])
  /\ UNCHANGED <<options, syncing, leaked>>

(* A query that reaches DuckDB: in a block its transaction opens.          *)
Query ==
  /\ tx = "block" /\ ~active
  /\ active' = TRUE
  /\ UNCHANGED <<cat, mine, tx, touched, wrote, stale, options, syncing,
                 leaked>>

(* A statement of the session changes pg_class and the indexes of the      *)
(* names in ns to what p says, and forwards to DuckLake the tables l of    *)
(* the names in ls.                                                        *)
Does(ns, p, i, ls, l) ==
  /\ mine' = [pg |-> p, idx |-> i, lake |-> l]
  /\ touched' = touched \cup ns
  /\ wrote' = wrote \cup ls
  /\ active' = (active \/ (tx = "block" /\ ls # {}))
  /\ UNCHANGED <<cat, tx, stale>>

(***************************************************************************)
(* Tables.                                                                 *)
(***************************************************************************)

(* Mutant: an error leaves the options of a failed CREATE behind.          *)
AfterFailedCreateKept(o) == o

(* PG_CATCH of the utility hook: ClearPendingCreateOptions, if this CREATE *)
(* had stripped any.                                                       *)
AfterFailedCreate(o) == IF o = "default" THEN options ELSE "default"

(* StripDucklakeCreateOptions: an option replaces what is pending, none    *)
(* leaves it.                                                              *)
Stripped(o) == IF o = "default" THEN options ELSE o

(* CREATE TABLE n (..) USING ducklake, AS or not, with o for its path.     *)
(* exists: IF NOT EXISTS, which passes over a name in use without running  *)
(* the trigger's body.  While syncing, the trigger returns at once.        *)
CreateDucklakeTable(n, o, exists) ==
  LET put == [path |-> Stripped(o), asked |-> o, sorted |-> FALSE]
      pg == [mine.pg EXCEPT ![n] = "ducklake"]
  IN /\ tx # "none"
     /\ exists /\ o # "default" => PathWithIfNotExists
     /\ \/ /\ mine.pg[n] # "none" /\ exists
           /\ options' = Stripped(o)
           /\ UNCHANGED <<cat, mine, tx, touched, wrote, active, stale,
                          syncing, leaked>>
        \/ /\ mine.pg[n] # "none" /\ ~exists
           /\ Fails(AfterFailedCreate(o))
        \/ /\ mine.pg[n] = "none" /\ syncing
           /\ Does({n}, pg, mine.idx, {}, mine.lake)
           /\ options' = Stripped(o)
           /\ UNCHANGED <<syncing, leaked>>
        \/ /\ mine.pg[n] = "none" /\ ~syncing /\ Exists(mine, n)
           /\ Fails("default")
        \/ /\ mine.pg[n] = "none" /\ ~syncing /\ ~Exists(mine, n)
           /\ Does({n}, pg, mine.idx, {n}, [mine.lake EXCEPT ![n] = put])
           /\ options' = "default"
           /\ UNCHANGED <<syncing, leaked>>

(* Any other CREATE TABLE: the trigger finds no DuckLake table.            *)
CreateHeapTable(n) ==
  /\ tx # "none" /\ mine.pg[n] = "none"
  /\ Does({n}, [mine.pg EXCEPT ![n] = "heap"], mine.idx, {}, mine.lake)
  /\ UNCHANGED <<options, syncing, leaked>>

(* What ducklake_drop_table_trigger asks of a dropped name: is it in the   *)
(* metadata (the rows of a statement's own DuckDB commits included, those  *)
(* of a block not yet written), or does DropTargetLivesInDuckDBCatalog     *)
(* find it in the open DuckDB transaction.                                 *)
DropTargetIsDucklakeTable(n) ==
  \/ Exists(mine, n)
  \/ tx = "block" /\ Exists(cat, n)

(* DROP TABLE n, whatever n is.  The indexes go with it.  DuckDB's DROP is *)
(* IF EXISTS: a table its transaction does not see is passed over.         *)
DropTable(n) ==
  LET forwarded == ~syncing /\ DropTargetIsDucklakeTable(n)
      gone == IF forwarded /\ Exists(mine, n) THEN {n} ELSE {}
  IN /\ tx # "none" /\ mine.pg[n] # "none"
     /\ Does({n}, [mine.pg EXCEPT ![n] = "none"], [mine.idx EXCEPT ![n] = 0],
             gone, [m \in Names |-> IF m \in gone THEN NoTable
                                                 ELSE mine.lake[m]])
     /\ UNCHANGED <<options, syncing, leaked>>

(* ALTER TABLE n RENAME TO m: ducklake_alter_table_trigger.  DuckDB fails  *)
(* if it does not see n, or sees m.                                        *)
RenameTable(n, m) ==
  LET pg == [mine.pg EXCEPT ![n] = "none", ![m] = "ducklake"]
      idx == [mine.idx EXCEPT ![n] = 0, ![m] = mine.idx[n]]
  IN /\ tx # "none" /\ mine.pg[n] = "ducklake" /\ mine.pg[m] = "none"
     /\ \/ /\ syncing
           /\ Does({n, m}, pg, idx, {}, mine.lake)
           /\ UNCHANGED <<options, syncing, leaked>>
        \/ /\ ~syncing /\ Exists(mine, n) /\ ~Exists(mine, m)
           /\ Does({n, m}, pg, idx, {n, m},
                   [mine.lake EXCEPT ![n] = NoTable, ![m] = mine.lake[n]])
           /\ UNCHANGED <<options, syncing, leaked>>
        \/ /\ ~syncing /\ (~Exists(mine, n) \/ Exists(mine, m))
           /\ Fails(options)

(***************************************************************************)
(* Sort keys.                                                              *)
(***************************************************************************)

SetSorted(n, b) == [mine.lake EXCEPT ![n].sorted = b]

(* ALTER TABLE n SET or RESET SORTED BY, and idx indexes in pg_class; s is *)
(* the flag afterwards.  An error if DuckDB does not see n.                *)
Sorts(n, b, idx, s) ==
  IF Exists(mine, n)
    THEN /\ Does({n}, mine.pg, [mine.idx EXCEPT ![n] = idx], {n},
                 SetSorted(n, b))
         /\ syncing' = s
         /\ UNCHANGED <<options, leaked>>
    ELSE Fails(options)

(* CREATE INDEX ON n USING ducklake_sorted: ApplyCreateSortedIndex after   *)
(* PostgreSQL's own work.                                                  *)
CreateSortedIndex(n) ==
  /\ tx # "none" /\ ~syncing
  /\ mine.pg[n] = "ducklake" /\ mine.idx[n] < MaxIndexes
  /\ Sorts(n, TRUE, mine.idx[n] + 1, syncing)

(* DROP INDEX of a ducklake_sorted index: HandleDropSortedIndex, whatever  *)
(* other index the table may have.                                         *)
DropSortedIndex(n) ==
  /\ tx # "none" /\ ~syncing
  /\ mine.idx[n] > 0
  /\ Sorts(n, FALSE, mine.idx[n] - 1, syncing)

(* While syncing, neither reaches DuckLake.                                *)
IndexWhileSyncing(n) ==
  /\ tx # "none" /\ syncing /\ mine.pg[n] = "ducklake"
  /\ \E i \in 0 .. MaxIndexes :
       /\ i \in {mine.idx[n] - 1, mine.idx[n] + 1}
       /\ Does({n}, mine.pg, [mine.idx EXCEPT ![n] = i], {}, mine.lake)
  /\ UNCHANGED <<options, syncing, leaked>>

(* Mutant: the indexes are not replaced.                                   *)
SetSortKeepsIndexes(n) == mine.idx[n]

(* SyncSortedIndexes: the table's indexes make room for one.               *)
SetSortIndexes(n) == 1

(* ducklake.set_sort(n, ..).  The flag is raised around the CREATE INDEX   *)
(* without a PG_TRY: an error there leaves it raised.                      *)
SetSort(n) ==
  /\ tx # "none" /\ mine.pg[n] = "ducklake"
  /\ \/ Sorts(n, TRUE, SetSortIndexes(n), FALSE)
     \/ /\ Exists(mine, n)
        /\ Ends(cat)
        /\ syncing' = TRUE /\ leaked' = 1
        /\ UNCHANGED options

(* ducklake.reset_sort(n).                                                 *)
ResetSort(n) ==
  /\ tx # "none" /\ mine.pg[n] = "ducklake"
  /\ Sorts(n, FALSE, 0, FALSE)

(***************************************************************************)
(* External clients: a snapshot, and ducklake_snapshot_trigger on it.      *)
(***************************************************************************)

(* SyncNewTables: names that begin at the snapshot and are not in use.     *)
SyncNewTables(pg, begun) ==
  [n \in Names |-> IF n \in begun /\ pg[n] = "none" THEN "ducklake" ELSE pg[n]]

(* Mutant: dropped tables are not looked for.                              *)
SyncDroppedTablesNone(pg, ended) == pg

(* SyncDroppedTables: names that end at the snapshot, whatever they are.   *)
SyncDroppedTables(pg, ended) ==
  [n \in Names |-> IF n \in ended THEN "none" ELSE pg[n]]

(* SyncSortKeys: a table whose sort keys changed gets one index or none;   *)
(* an index on a table that has none yet is out.                           *)
SyncSortKeys(pg, idx, lake, changed) ==
  [n \in Names |-> CASE pg[n] = "none" -> 0
                     [] n \in changed -> IF lake[n].sorted THEN 1 ELSE 0
                     [] OTHER -> idx[n]]

(* A client commits a snapshot that begins and ends tables and changes     *)
(* sort keys; lake is the metadata after it.  The trigger, in the client's *)
(* transaction, waits for names the session has locked (then the session   *)
(* ends first), and for the session's own uncommitted snapshot row.        *)
ExternalCommit(lake, begun, ended, resorted) ==
  LET pg1 == SyncNewTables(cat.pg, begun)
      pg2 == SyncDroppedTables(pg1, ended)
      idx == SyncSortKeys(pg2, cat.idx, lake, resorted)
      c == [pg |-> pg2, idx |-> idx, lake |-> lake]
      changed == begun \cup ended \cup resorted
      acts == {n \in Names : pg1[n] # cat.pg[n] \/ pg2[n] # pg1[n]}
                \cup resorted
  IN /\ acts \cap touched = {}
     /\ tx = "statement" => wrote = {}
     /\ cat' = c
     /\ mine' = [pg |-> [n \in Names |-> IF n \in touched THEN mine.pg[n]
                                                        ELSE c.pg[n]],
                 idx |-> [n \in Names |-> IF n \in touched THEN mine.idx[n]
                                                         ELSE c.idx[n]],
                 lake |-> IF active THEN mine.lake ELSE c.lake]
     /\ stale' = IF active THEN stale \cup changed ELSE stale
     /\ UNCHANGED <<tx, touched, wrote, active, options, syncing, leaked>>

NewTable == [path |-> "default", asked |-> "default", sorted |-> FALSE]

ExternalCreate(n) ==
  /\ ~Exists(cat, n)
  /\ ExternalCommit([cat.lake EXCEPT ![n] = NewTable], {n}, {}, {})

ExternalDrop(n) ==
  /\ Exists(cat, n)
  /\ ExternalCommit([cat.lake EXCEPT ![n] = NoTable], {}, {n}, {})

(* The metadata row of the old name ends where the new one's begins; the   *)
(* rows of its sort keys stay as they are.                                 *)
ExternalRename(n, m) ==
  /\ Exists(cat, n) /\ ~Exists(cat, m)
  /\ cat.lake[n].sorted => SortedRenames
  /\ ExternalCommit([cat.lake EXCEPT ![n] = NoTable, ![m] = cat.lake[n]],
                    {m}, {n}, {})

(* CREATE OR REPLACE TABLE, or DROP and CREATE in one transaction.         *)
ExternalReplace(n) ==
  /\ Replacements /\ Exists(cat, n)
  /\ ExternalCommit([cat.lake EXCEPT ![n] = NewTable], {n}, {n}, {})

(* CREATE INDEX fails on a relation that is not a DuckLake table, and with *)
(* it the client's commit.                                                 *)
ExternalSort(n) ==
  /\ Exists(cat, n) /\ cat.pg[n] # "heap"
  /\ \E b \in BOOLEAN :
       ExternalCommit([cat.lake EXCEPT ![n].sorted = b], {}, {}, {n})

Next ==
  \/ Begin \/ Rollback \/ Commit \/ Query
  \/ \E n \in LakeNames :
       \/ \E o \in Paths, e \in BOOLEAN : CreateDucklakeTable(n, o, e)
       \/ CreateSortedIndex(n) \/ DropSortedIndex(n) \/ IndexWhileSyncing(n)
       \/ SetSort(n) \/ ResetSort(n)
       \/ ExternalCreate(n) \/ ExternalDrop(n) \/ ExternalReplace(n)
       \/ ExternalSort(n)
       \/ \E m \in LakeNames \ {n} : RenameTable(n, m) \/ ExternalRename(n, m)
  \/ \E n \in HeapNames : CreateHeapTable(n)
  \/ \E n \in Names : DropTable(n)

Spec == Init /\ [][Next]_vars

-----------------------------------------------------------------------------
(***************************************************************************)
(* Properties.  They are about the committed catalogs, as long as no       *)
(* set_sort has failed half-way: from then on the session's triggers may   *)
(* be switched off.                                                        *)
(***************************************************************************)

(* Every DuckLake table of pg_class exists in DuckLake: what a session and *)
(* external clients create, rename and drop around each other, in blocks,  *)
(* with stale DuckDB snapshots and failing commits, leaves no table that   *)
(* every query on it would fail to find.                                   *)
PgTablesExist ==
  leaked = 0 => \A n \in Names : cat.pg[n] = "ducklake" => Exists(cat, n)

(* A sorted DuckLake table has a ducklake_sorted index in pg_class (docs/  *)
(* ducklake_feature_coverage.md:74), through all the ways to sort it: the  *)
(* DDL, the functions, an external client.                                 *)
SortedTablesHaveIndex ==
  leaked = 0 =>
    \A n \in Names :
      cat.pg[n] = "ducklake" /\ Exists(cat, n) /\ cat.lake[n].sorted
      => cat.idx[n] > 0

(* A table lies where its own CREATE asked: a table_path pending from a    *)
(* CREATE that failed does not reach the next one (hooks.cpp, PG_CATCH).   *)
PathsAsRequested ==
  leaked = 0 =>
    \A n \in Names : Exists(cat, n) => cat.lake[n].path = cat.lake[n].asked
=============================================================================
