---------------------------- MODULE ColumnStats ----------------------------
(***************************************************************************)
(* The column statistics of a DuckLake table, which its readers prune      *)
(* with: native statements accumulate them while they insert rows          *)
(* (inline_col_stats.cpp) and merge them into the catalog's when they      *)
(* publish (native_inline_writer.cpp), next to clients of DuckLake.        *)
(* NativeInlineWriter has the rest of a statement; there, what statistics  *)
(* admit is a set of values.                                               *)
(***************************************************************************)
EXTENDS Integers, Sequences, FiniteSets

CONSTANTS
  Values,       \* values of a column: numbers, which also have a text
  AsText,       \* the place of a value's text in the order of strcmp
  Unparsable,   \* dates whose text in PostgreSQL is none in DuckDB (BC)
  Comparable,   \* the types that PostgreSQL has a comparison for
  Null, NaN,    \* no values (Null also: a statistic that is not known)
  Layouts,      \* the columns that the table may start with
  MaxSnapshot,  \* bound: snapshots
  MaxAlters,    \* bound: changes of the schema
  MaxRows       \* bound: rows of a statement

VARIABLES
  columns,      \* ducklake_column: the live columns
  schema,       \* the schema version of the inlined data table
  snapshot_id,  \* the latest snapshot
  has_stats,    \* ducklake_table_stats has a row for the table
  stats,        \* ducklake_table_column_stats, by column_id
  present,      \* what the committed rows have in each column
  st            \* the native statement

vars == <<columns, schema, snapshot_id, has_stats, stats, present, st>>

Unknown == [min |-> Null, max |-> Null, contains_null |-> Null,
            contains_nan |-> Null, extra_stats |-> Null]

NoStatement == [pc |-> "idle"]

---------------------------------------------------------------------------
(* The accumulator of a statement.                                         *)

(* DuckLake compares such bounds as values, the others as texts.           *)
RequiresValueComparison(type) == type \in {"integer", "double", "date"}

GetTypeProperties(type) ==
  [bounds_safe |-> type \in {"integer", "double", "date", "varchar"},
   value_cmp |-> RequiresValueComparison(type),
   floating |-> type = "double"]

(* The live columns, nested ones last; ids follow column_order.            *)
Listing ==
  CHOOSE s \in [1..Cardinality(columns) -> columns] :
    \A i, j \in DOMAIN s : i < j =>
      IF s[i].nested = s[j].nested THEN s[i].column_id < s[j].column_id
      ELSE s[j].nested

TopLevel == {c \in columns : ~c.nested}

(* The entry of a column.  Only top-level columns are set up.              *)
SetupInlineColStatsColumn(c) ==
  LET p == GetTypeProperties(c.type)
      compares == p.value_cmp => c.type \in Comparable
  IN [column_id |-> c.column_id, type |-> c.type,
      bounds_safe |-> p.bounds_safe /\ (c.nested \/ compares),
      value_cmp |-> p.value_cmp, floating |-> p.floating,
      ready |-> ~c.nested /\ p.bounds_safe /\ compares,
      has_value |-> FALSE, observed_null |-> FALSE, observed_nan |-> FALSE,
      min |-> Null, max |-> Null]

(* A statement that expects another number of columns accumulates nothing. *)
CreateInlineColStats(s) ==
  IF Cardinality(TopLevel) # s.num_cols THEN <<>>
  ELSE [i \in DOMAIN Listing |-> SetupInlineColStatsColumn(Listing[i])]

Before(e, v, w) == IF e.value_cmp THEN v < w ELSE AsText[v] < AsText[w]

ObserveInlineColStatsDatum(e, v) ==
  IF ~e.bounds_safe \/ ~e.ready THEN e
  ELSE IF e.floating /\ v = NaN THEN [e EXCEPT !.observed_nan = TRUE]
  ELSE IF ~e.has_value
  THEN [e EXCEPT !.has_value = TRUE, !.min = v, !.max = v]
  ELSE [e EXCEPT !.min = IF Before(e, v, @) THEN v ELSE @,
                 !.max = IF Before(e, @, v) THEN v ELSE @]

Observe(e, v) ==
  IF v = Null THEN [e EXCEPT !.observed_null = TRUE]
  ELSE ObserveInlineColStatsDatum(e, v)

(* The contribution of an entry.                                           *)
FinalizeInlineColStats(s) ==
  {[column_id |-> s.entries[i].column_id, type |-> s.entries[i].type,
    invalidate_all |-> i > s.num_cols,
    bounds_safe |-> s.entries[i].bounds_safe /\ s.entries[i].ready,
    min |-> s.entries[i].min, max |-> s.entries[i].max,
    observed_null |-> s.entries[i].observed_null,
    nan_known |-> s.entries[i].floating /\ s.entries[i].ready,
    observed_nan |-> s.entries[i].observed_nan] : i \in DOMAIN s.entries}

---------------------------------------------------------------------------
(* Merging a contribution into the statistics.                             *)

DuckLess(type, v, w) ==
  IF RequiresValueComparison(type) THEN v < w ELSE AsText[v] < AsText[w]

(* DuckLakeColumnStats::MergeStats: a side that one of the two lacks is    *)
(* lost, unless the other has no values at all.                            *)
MergeStats(type, p, c) ==
  LET Least(v, w) == IF DuckLess(type, w, v) THEN w ELSE v
      Greatest(v, w) == IF DuckLess(type, v, w) THEN w ELSE v
  IN IF c.min = Null /\ c.max = Null THEN [min |-> p.min, max |-> p.max]
     ELSE IF p.min = Null /\ p.max = Null
     THEN [min |-> c.min, max |-> c.max]
     ELSE [min |-> IF Null \in {p.min, c.min} THEN Null
                   ELSE Least(p.min, c.min),
           max |-> IF Null \in {p.max, c.max} THEN Null
                   ELSE Greatest(p.max, c.max)]

(* The text of a bound is cast to the type in DuckDB.                      *)
CastThrows(c) == c.type = "date" /\ {c.min, c.max} \cap Unparsable # {}

(* Mutant: a batch seeds the sides that are missing.                       *)
SidesKnownAlways(p, initializing) == {"min", "max"}

(* "Missing persisted sides are unknown over a pre-existing table."        *)
SidesKnown(p, initializing) ==
  {side \in {"min", "max"} : initializing \/ p[side] # Null}

MergeColumnStat(c, p, initializing) ==
  LET merged == MergeStats(c.type, p, c)
      Side(side) == IF side \in SidesKnown(p, initializing)
                    THEN merged[side] ELSE Null
      noBounds == ~c.bounds_safe \/ CastThrows(c)
  IN IF c.invalidate_all THEN Unknown
     ELSE [min |-> IF noBounds THEN Null ELSE Side("min"),
           max |-> IF noBounds THEN Null ELSE Side("max"),
           contains_null |-> IF initializing \/ p.contains_null # Null
                             THEN p.contains_null = TRUE \/ c.observed_null
                             ELSE Null,
           contains_nan |-> IF p.contains_nan = Null THEN Null
                            ELSE p.contains_nan
                                 \/ (c.nan_known /\ c.observed_nan),
           extra_stats |-> Null]

(* What the rows of the catalog become, by column.  A column that the      *)
(* batch says nothing of loses its statistics.                             *)
Merged(s) ==
  LET contributions == FinalizeInlineColStats(s)
      Of(id) == {c \in contributions : c.column_id = id}
  IN IF ~has_stats
     THEN [id \in {c.column_id : c \in contributions} |->
             MergeColumnStat(CHOOSE c \in Of(id) : TRUE, Unknown, TRUE)]
     ELSE [id \in DOMAIN stats |->
             IF Of(id) = {} THEN Unknown
             ELSE MergeColumnStat(CHOOSE c \in Of(id) : TRUE, stats[id],
                                  FALSE)]

---------------------------------------------------------------------------
(* The native statement.                                                   *)

Init ==
  /\ columns \in Layouts
  /\ schema = 0 /\ snapshot_id = 0
  /\ has_stats = FALSE
  /\ stats = [id \in {} |-> Unknown]
  /\ present = [id \in {c.column_id : c \in columns} |-> {}]
  /\ st = NoStatement

(* The statement is planned for the columns and the schema version.        *)
Plan ==
  /\ st.pc = "idle"
  /\ st' = [pc |-> "planned", num_cols |-> Cardinality(TopLevel),
            schema |-> schema, entries |-> <<>>,
            batch |-> [id \in DOMAIN present |-> {}],
            rows |-> 0, merged |-> <<>>, base |-> 0]
  /\ UNCHANGED <<columns, schema, snapshot_id, has_stats, stats, present>>

Start ==
  /\ st.pc = "planned"
  /\ st' = [st EXCEPT !.pc = "inserts", !.entries = CreateInlineColStats(st)]
  /\ UNCHANGED <<columns, schema, snapshot_id, has_stats, stats, present>>

(* What a row may have in a column.                                        *)
Cells(id) ==
  Values \cup {Null} \cup
    (IF \E c \in columns : c.column_id = id /\ c.type = "double"
     THEN {NaN} ELSE {})

(* Columns do not meet in the code, so a row has the same in each.         *)
RowsOver(ids) ==
  {[id \in ids |-> IF v \in Cells(id) THEN v ELSE Null] :
     v \in Values \cup {Null, NaN}}

InsertRow ==
  /\ st.pc = "inserts" /\ st.rows < MaxRows
  /\ \E row \in RowsOver(DOMAIN st.batch) :
       st' = [st EXCEPT
         !.rows = @ + 1,
         !.batch = [id \in DOMAIN @ |-> @[id] \cup {row[id]}],
         !.entries = [i \in DOMAIN @ |->
           IF i > st.num_cols THEN @[i]
           ELSE Observe(@[i], row[@[i].column_id])]]
  /\ UNCHANGED <<columns, schema, snapshot_id, has_stats, stats, present>>

(* Mutant: the statistics are written before the snapshot is claimed.      *)
PrepareMergedColumnStatsWrites ==
  /\ st.pc = "inserts" /\ st.rows > 0
  /\ st.schema = schema
  /\ st' = [st EXCEPT !.pc = "prepared", !.merged = Merged(st),
                      !.base = snapshot_id]
  /\ stats' = [id \in DOMAIN stats |-> Merged(st)[id]]
  /\ UNCHANGED <<columns, schema, snapshot_id, has_stats, present>>

(* An attempt to publish: the state of the catalog is read, the binding is *)
(* good, and the statistics are merged.                                    *)
PrepareMergedColumnStats ==
  /\ st.pc = "inserts" /\ st.rows > 0
  /\ st.schema = schema
  /\ st' = [st EXCEPT !.pc = "prepared", !.merged = Merged(st),
                      !.base = snapshot_id]
  /\ UNCHANGED <<columns, schema, snapshot_id, has_stats, stats, present>>

(* The rows of the catalog: the first write makes one for every column.    *)
ApplyMergedColumnStats(merged) ==
  [id \in IF has_stats THEN DOMAIN stats ELSE DOMAIN present |->
     IF id \in DOMAIN merged THEN merged[id] ELSE Unknown]

(* The attempt claims the next snapshot, and its transaction commits.      *)
Publish ==
  /\ st.pc = "prepared" /\ st.base = snapshot_id
  /\ snapshot_id < MaxSnapshot
  /\ snapshot_id' = snapshot_id + 1
  /\ has_stats' = TRUE
  /\ stats' = ApplyMergedColumnStats(st.merged)
  /\ present' = [id \in DOMAIN present |-> present[id] \cup st.batch[id]]
  /\ st' = NoStatement
  /\ UNCHANGED <<columns, schema>>

(* The snapshot is taken: the next attempt merges anew.                    *)
ClaimConflict ==
  /\ st.pc = "prepared" /\ st.base # snapshot_id
  /\ st' = [st EXCEPT !.pc = "inserts"]
  /\ UNCHANGED <<columns, schema, snapshot_id, has_stats, stats, present>>

(* The statement ends without a publication: it has no rows, the schema    *)
(* changed, memory or the retries are exhausted, or it is rolled back.     *)
EndStatement ==
  /\ st.pc # "idle"
  /\ st' = NoStatement
  /\ UNCHANGED <<columns, schema, snapshot_id, has_stats, stats, present>>

---------------------------------------------------------------------------
(* The clients of DuckLake, with statistics that are true; they know some  *)
(* of them.                                                                *)

TypeOf(id) == (CHOOSE c \in columns : c.column_id = id).type

TrueStats(id, values, known) ==
  LET type == TypeOf(id)
      real == values \ {Null, NaN}
      Known(stat, is) == IF stat \in known THEN is ELSE Null
      Bound(side, is) == IF side \in known /\ real # {} THEN is ELSE Null
  IN [min |-> Bound("min", CHOOSE v \in real :
                             \A w \in real : ~DuckLess(type, w, v)),
      max |-> Bound("max", CHOOSE v \in real :
                             \A w \in real : ~DuckLess(type, v, w)),
      contains_null |-> Known("flags", Null \in values),
      contains_nan |-> IF type = "double" THEN Known("flags", NaN \in values)
                       ELSE Null,
      extra_stats |-> IF type = "variant" THEN Known("flags", values)
                      ELSE Null]

DuckLakeInsert ==
  /\ snapshot_id < MaxSnapshot
  /\ snapshot_id' = snapshot_id + 1
  /\ has_stats' = TRUE
  /\ \E row \in RowsOver(DOMAIN present) :
       present' = [id \in DOMAIN present |-> present[id] \cup {row[id]}]
  /\ \E known \in SUBSET {"min", "max", "flags"} :
       stats' = [id \in DOMAIN present |->
                   TrueStats(id, present'[id], known)]
  /\ UNCHANGED <<columns, schema, st>>

(* ALTER TABLE ADD COLUMN: the rows there are have NULL in it.             *)
DuckLakeAddColumn ==
  /\ snapshot_id < MaxSnapshot /\ schema < MaxAlters
  /\ snapshot_id' = snapshot_id + 1
  /\ schema' = schema + 1
  /\ LET id == Cardinality(columns) + 1
     IN /\ columns' = columns \cup
             {[column_id |-> id, type |-> "integer", nested |-> FALSE]}
        /\ present' = [i \in DOMAIN present \cup {id} |->
             IF i # id THEN present[i] ELSE IF has_stats THEN {Null} ELSE {}]
        /\ \/ UNCHANGED stats
           \/ /\ has_stats
              /\ stats' = [i \in DOMAIN stats \cup {id} |->
                   IF i # id THEN stats[i]
                   ELSE [Unknown EXCEPT !.contains_null = TRUE]]
  /\ UNCHANGED <<has_stats, st>>

---------------------------------------------------------------------------
Next ==
  \/ Plan \/ Start \/ InsertRow \/ PrepareMergedColumnStats
  \/ Publish \/ ClaimConflict \/ EndStatement
  \/ DuckLakeInsert \/ DuckLakeAddColumn

Spec == Init /\ [][Next]_vars

(* Type correctness.                                                       *)
TypeOK ==
  /\ schema \in 0..MaxAlters /\ snapshot_id \in 0..MaxSnapshot
  /\ DOMAIN present = 1..Cardinality(columns)
  /\ DOMAIN stats \subseteq DOMAIN present
  /\ has_stats <=> DOMAIN stats # {}
  /\ \A id \in DOMAIN stats :
       /\ {stats[id].min, stats[id].max} \subseteq Values \cup {Null}
       /\ {stats[id].contains_null, stats[id].contains_nan}
            \subseteq BOOLEAN \cup {Null}
  /\ st.pc \in {"idle", "planned", "inserts", "prepared"}

(* Statistics are conservative: no committed row is outside what they say, *)
(* whatever they leave unknown.  A reader of the table skips what they     *)
(* exclude, so a bound that is too narrow, or a flag that is missing, is a *)
(* wrong answer (MergeColumnStat, in the order that the type has).         *)
StatsAdmitRows ==
  \A id \in DOMAIN stats :
    LET r == stats[id]
    IN /\ \A v \in present[id] \ {Null, NaN} :
            /\ r.min # Null => ~DuckLess(TypeOf(id), v, r.min)
            /\ r.max # Null => ~DuckLess(TypeOf(id), r.max, v)
       /\ r.contains_null = FALSE => Null \notin present[id]
       /\ r.contains_nan = FALSE => NaN \notin present[id]
       /\ r.extra_stats # Null => present[id] \subseteq r.extra_stats

(* Statistics stay sharp: a bound is a committed value.  What a statement  *)
(* accumulated and never published, or an attempt merged and lost to       *)
(* another snapshot, leaves nothing in them (RunPublicationAttempt).       *)
BoundsAreAttained ==
  \A id \in DOMAIN stats :
    {stats[id].min, stats[id].max} \subseteq present[id] \cup {Null}
=============================================================================
