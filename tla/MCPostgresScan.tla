--------------------------- MODULE MCPostgresScan ---------------------------
EXTENDS PostgresScan, TLC

(* Three rows: an id and a text, a text with a wildcard, two nulls.        *)
MCRows ==
  <<[id |-> <<"a", "a">>, text |-> <<"a">>],
    [id |-> <<"a">>, text |-> <<"%", "a">>],
    [id |-> Null, text |-> Null]>>

Const(v) == [op |-> "const", value |-> v]
Op(op, v) == [op |-> op, left |-> Column, right |-> Const(v)]
Strange == [op |-> "strange"]
IsNull == [op |-> "isnull", left |-> Column, right |-> Column]

Plain(e) == [type |-> "plain", e |-> e]
Expression(e) == [type |-> "expression", e |-> e]
Dynamic == [type |-> "dynamic"]
Optional(f) == [type |-> "optional", f |-> f]
Join(type, f, g) == [type |-> type, fs |-> <<f, g>>]

(* What PushdownExpression lets into a filter.                             *)
Expressions1 == {Op(op, v) : op \in {"equal", "contains", "prefix", "suffix"},
                             v \in {<<"a">>, <<"%">>, Null}} \cup {IsNull}
Expressions2 ==
  {e \in Expressions1 \cup {[op |-> "not", e |-> e] : e \in Expressions1}
         \cup {[op |-> "or", es |-> <<e, IsNull>>] : e \in Expressions1}
         \cup {[op |-> "and", es |-> <<e, Strange>>] : e \in Expressions1} :
     PostgresScanPushdownExpression(e)}

IsA == Plain(Op("equal", <<"a">>))
Leaves == {IsA, Plain(IsNull), Dynamic, Optional(Dynamic), Optional(IsA)}
Filters == {NoFilter} \cup Leaves
           \cup {Expression(e) : e \in Expressions2}
           \cup {Join(type, f, g) : type \in {"and", "or"},
                                    f \in Leaves, g \in Leaves}
           \cup {Optional(Join(type, f, Dynamic)) : type \in {"and", "or"},
                                                    f \in Leaves}

(* The attributes of the table, one of which may have been dropped.        *)
Layouts == {<<"id", "text">>, <<"gone", "id", "text">>,
            <<"id", "gone", "text">>}

Order(desc, nulls, limit, offset) ==
  [type |-> "order", column |-> "id", desc |-> desc, nulls |-> nulls,
   limit |-> limit, offset |-> offset]
Index(attno, desc, nulls_first, usable) ==
  [attno |-> attno, desc |-> desc, nulls_first |-> nulls_first,
   usable |-> usable]

Base == [attrs |-> <<"id", "text">>, indexes |-> {}, column_ids |-> <<0, 1>>,
         projection_ids |-> <<>>, filters |-> <<NoFilter, NoFilter>>,
         ops |-> <<>>, sink |-> "collect", wants |-> 0, temp |-> TRUE,
         contains_postgres_table |-> TRUE, command |-> "select",
         row |-> 1, value |-> [kind |-> "text"], unit |-> "micros"]

(* Filters and columns: a scan without workers is enough.                  *)
FilterQueries ==
  {[Base EXCEPT !.attrs = attrs, !.filters = <<NoFilter, f>>,
                !.projection_ids = ids] :
     attrs \in Layouts, f \in Filters, ids \in {<<>>, <<1>>}}
  \cup {[Base EXCEPT !.attrs = attrs, !.column_ids = <<1, 0>>,
                     !.filters = <<IsA, Plain(Op("equal", <<"a">>))>>] :
          attrs \in Layouts}

Orders == {Order(desc, nulls, limit[1], limit[2]) :
             desc \in BOOLEAN, nulls \in {"first", "last", "default"},
             limit \in {<<0, 0>>, <<2, 0>>, <<1, 1>>}}
Indexes == {{Index(attno, desc, first, TRUE)} :
              attno \in 1..2, desc, first \in BOOLEAN}
           \cup {{Index(1, FALSE, FALSE, FALSE)}}
Residual == [type |-> "filter", e |-> Strange]
Ascending == Order(FALSE, "default", 0, 0)

(* The plans above an ORDER BY: alone, under or over a filter that stays   *)
(* in DuckDB, and over another ORDER BY.                                   *)
OrderQueries ==
  {[Base EXCEPT !.attrs = attrs, !.indexes = indexes, !.ops = above] :
     attrs \in Layouts \ {<<"id", "gone", "text">>}, indexes \in Indexes,
     above \in UNION {{<<o>>, <<Residual, o>>, <<o, Residual>>,
                       <<o, Ascending>>} : o \in Orders}}

(* The columns in another order than the table's, with an index on the     *)
(* first of the table.                                                     *)
SwappedQueries ==
  {[Base EXCEPT !.column_ids = <<1, 0>>, !.ops = <<o>>,
                !.indexes = {Index(1, FALSE, FALSE, TRUE)}] : o \in Orders}

(* An ORDER BY over a Top-N that an index serves; the same index serves    *)
(* the outer order, or none does.                                          *)
StackedQueries ==
  {[Base EXCEPT !.indexes = {Index(1, FALSE, FALSE, TRUE)},
                !.ops = <<Order(desc, nulls, 0, 0),
                          Order(FALSE, "default", 2, 0)>>] :
     desc \in BOOLEAN, nulls \in {"first", "default"}}

(* Values: numerics of 16 and of 32 bits, dates, timestamps in each unit,  *)
(* times and uuids, about the edges of their ranges.  A numeric's type may *)
(* have no counterpart.                                                    *)
MCMinTimestamp == -30
Timestamp(n) == [kind |-> "timestamp", n |-> n]
Numbers(width) ==
  {0, 1, 10^(width - 1), 10^width - 1, 5 * 10^(width - 1),
   123456789 \div 10^(9 - width), 100020003 \div 10^(9 - width)}
Numerics == UNION {{Numeric(sign * n, width, scale) :
                      sign \in {-1, 1}, n \in Numbers(width)} :
                     width \in {1, 4, 5, 9}, scale \in 0..9}
Dates == {[kind |-> "date", n |-> n] :
            n \in {DATEVAL_NOBEGIN, DATEVAL_NOEND, -DUCK_DATE_OFFSET, 0,
                   PG_MIN_DATE_VALUE - DUCK_DATE_OFFSET,
                   PG_MAX_DATE_VALUE - DUCK_DATE_OFFSET}}
Timestamps == {Timestamp(n) :
                 n \in {DT_NOBEGIN, DT_NOEND}
                       \cup ((MIN_TIMESTAMP_VALUE - DUCK_TIMESTAMP_OFFSET)
                             ..MAX_TIMESTAMP_VALUE)}
Bytes == {0, 1, 127, 128, 255}
Others == {[kind |-> "timetz", n |-> 1, zone |-> zone] : zone \in -1..1}
          \cup {[kind |-> "uuid", bytes |-> <<a, b>>] : a, b \in Bytes}
ValueQueries ==
  {[Base EXCEPT !.value = v] : v \in Numerics \cup Dates \cup Others}
  \cup {[Base EXCEPT !.value = v, !.unit = unit] :
          v \in Timestamps, unit \in {"micros", "coarse", "nanos"}}

(* Scans with workers: rows for one thread or two, all of them or the      *)
(* first, in an order or in none, a value that DuckDB refuses, a type that *)
(* needs the lock and the source of an INSERT, and a count.                *)
ParallelQueries ==
  {[Base EXCEPT !.temp = FALSE, !.sink = sink, !.wants = wants] :
     sink \in {"collect", "aggregate"}, wants \in 0..1}
  \cup {[Base EXCEPT !.temp = FALSE, !.sink = "aggregate", !.row = 2,
                     !.value = Timestamp(MAX_TIMESTAMP_VALUE)],
        [Base EXCEPT !.temp = FALSE, !.column_ids = <<>>,
                     !.filters = <<>>, !.sink = "aggregate"],
        [Base EXCEPT !.temp = FALSE, !.sink = "aggregate",
                     !.value = [kind |-> "jsonb"], !.command = "insert"],
        [Base EXCEPT !.temp = FALSE, !.ops = <<Ascending>>,
                     !.indexes = {Index(1, FALSE, FALSE, TRUE)}]}

MCQueries ==
  FilterQueries \cup OrderQueries \cup SwappedQueries \cup ParallelQueries
  \cup ValueQueries
=============================================================================
