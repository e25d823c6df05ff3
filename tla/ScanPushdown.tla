---------------------------- MODULE ScanPushdown ----------------------------
(***************************************************************************)
(* What DuckDB pushes into the scan of a Postgres heap table: the filters, *)
(* the columns, and an ORDER BY with its LIMIT.  Pure operators, from      *)
(* DuckDB's query to the Postgres query that libpgduckdb writes for it,    *)
(* and what either query means.                                            *)
(*                                                                         *)
(* The table has the attributes "id" and "text"; an attribute "gone" was   *)
(* dropped.  A row is known by its number.  Every value is a short string, *)
(* a sequence of characters, and those of a column have different lengths, *)
(* which order them.  Truth is three-valued: 2 true, 1 unknown, 0 false,   *)
(* so that AND is a minimum and OR a maximum.                              *)
(***************************************************************************)
EXTENDS Naturals, Sequences, SequencesExt

CONSTANT Rows  \* the rows of the table, in the order of the heap

Null == <<"null">>

---------------------------------------------------------------------------
(* The value of an expression over one column whose value is v.  "like" is *)
(* PostgreSQL's operator; contains, prefix and suffix are DuckDB's, and so *)
(* is "strange", a function PostgreSQL has not: it finds every value true. *)

RECURSIVE Like(_, _)
Like(s, p) ==
  IF p = <<>> THEN s = <<>>
  ELSE CASE Head(p) = "%" ->
              \E i \in 0..Len(s) : Like(SubSeq(s, i + 1, Len(s)), Tail(p))
         [] Head(p) = "\\" ->
              /\ s # <<>> /\ Head(s) = p[2]
              /\ Like(Tail(s), SubSeq(p, 3, Len(p)))
         [] OTHER -> s # <<>> /\ Head(s) = Head(p) /\ Like(Tail(s), Tail(p))

Truth(b) == IF b THEN 2 ELSE 0
Least(S) == CHOOSE n \in S : \A k \in S : n <= k
Greatest(S) == CHOOSE n \in S : \A k \in S : n >= k

Arg(e, v) == IF e.op = "column" THEN v ELSE e.value

RECURSIVE Holds(_, _)
Holds(e, v) ==
  LET children == {Holds(e.es[i], v) : i \in DOMAIN e.es}
      left == Arg(e.left, v)
      right == Arg(e.right, v)
  IN CASE e.op = "and" -> Least(children)
       [] e.op = "or" -> Greatest(children)
       [] e.op = "not" -> 2 - Holds(e.e, v)
       [] e.op = "isnull" -> Truth(left = Null)
       [] e.op = "strange" -> 2
       [] OTHER ->
            IF Null \in {left, right} THEN 1
            ELSE Truth(CASE e.op = "equal" -> left = right
                         [] e.op = "like" -> Like(left, right)
                         [] e.op = "prefix" -> IsPrefix(right, left)
                         [] e.op = "suffix" -> IsSuffix(right, left)
                         [] OTHER -> \E i \in 0..Len(left) :
                              IsPrefix(right, SubSeq(left, i + 1, Len(left))))

---------------------------------------------------------------------------
(* ExpressionToString: the Postgres expression, or NoSql when some part of *)
(* it is not one that libpgduckdb knows how to write.                      *)

NoSql == [op |-> "none"]
Column == [op |-> "column"]

Escape(c) == IF c \in {"%", "_", "\\"} THEN <<"\\", c>> ELSE <<c>>

FuncArgToLikeString(func_name, value) ==
  LET str_val == FlattenSeq([i \in DOMAIN value |-> Escape(value[i])])
  IN IF value = Null THEN Null
     ELSE CASE func_name = "prefix" -> str_val \o <<"%">>
            [] func_name = "suffix" -> <<"%">> \o str_val
            [] OTHER -> <<"%">> \o str_val \o <<"%">>

(* The haystack is an operand; the needle must be a literal.               *)
FuncToLikeString(e) ==
  IF e.right.op = "const"
  THEN [op |-> "like", left |-> e.left,
        right |-> [op |-> "const",
                   value |-> FuncArgToLikeString(e.op, e.right.value)]]
  ELSE NoSql

NotToString(child) ==
  IF child = NoSql THEN NoSql ELSE [op |-> "not", e |-> child]

RECURSIVE ExpressionToString(_)
ExpressionToString(e) ==
  CASE e.op \in {"contains", "prefix", "suffix"} -> FuncToLikeString(e)
    [] e.op \in {"and", "or"} ->
         LET es == [i \in DOMAIN e.es |-> ExpressionToString(e.es[i])]
         IN IF \E i \in DOMAIN es : es[i] = NoSql THEN NoSql
            ELSE [op |-> e.op, es |-> es]
    [] e.op = "not" -> NotToString(ExpressionToString(e.e))
    [] e.op \in {"equal", "isnull"} -> e
    [] OTHER -> NoSql

(* DuckDB keeps above the scan what the scan does not take.                *)
PostgresScanPushdownExpression(e) == ExpressionToString(e) # NoSql

---------------------------------------------------------------------------
(* ExtractQueryFilters: a filter becomes a Postgres expression, is left    *)
(* out ("none"), or ends the query ("throws").  A "dynamic" filter is one  *)
(* the scan does not know.  Children are converted in order, and the first *)
(* child left out of an OR ends it.                                        *)

Sql(e) == [result |-> "sql", e |-> e]
Left == [result |-> "none"]
Throws == [result |-> "throws"]

Stops(rs) == {i \in DOMAIN rs : rs[i].result # "sql"}
Expressions(rs) ==
  LET kept == SelectSeq(rs, LAMBDA r : r.result = "sql")
  IN [i \in DOMAIN kept |-> kept[i].e]

(* Mutant: a child of an OR is dropped as a child of an AND would be.      *)
OrFilterKept(rs) ==
  IF Expressions(rs) = <<>> THEN Left
  ELSE Sql([op |-> "or", es |-> Expressions(rs)])

OrFilter(rs) ==
  IF Stops(rs) # {} THEN rs[Least(Stops(rs))]
  ELSE Sql([op |-> "or", es |-> Expressions(rs)])

AndFilter(rs) ==
  IF Throws \in ToSet(rs) THEN Throws
  ELSE IF Expressions(rs) = <<>> THEN Left
  ELSE Sql([op |-> "and", es |-> Expressions(rs)])

RECURSIVE ExtractQueryFilters(_, _)
ExtractQueryFilters(f, is_inside_optional_filter) ==
  LET Children == [i \in DOMAIN f.fs |->
                     ExtractQueryFilters(f.fs[i], is_inside_optional_filter)]
  IN CASE f.type = "plain" -> Sql(f.e)
       [] f.type = "expression" -> Sql(ExpressionToString(f.e))
       [] f.type = "or" -> OrFilter(Children)
       [] f.type = "and" -> AndFilter(Children)
       [] f.type = "optional" -> ExtractQueryFilters(f.f, TRUE)
       [] OTHER -> IF is_inside_optional_filter THEN Left ELSE Throws

(* What DuckDB means by a filter: with lenience, it may do without an      *)
(* optional one.  It alone knows which rows a dynamic filter will let      *)
(* pass, so it may need any row.                                           *)
RECURSIVE Passes(_, _, _)
Passes(f, v, lenient) ==
  LET children == {Passes(f.fs[i], v, lenient) : i \in DOMAIN f.fs}
  IN CASE f.type \in {"plain", "expression"} -> Holds(f.e, v)
       [] f.type = "or" -> Greatest(children)
       [] f.type = "and" -> Least(children)
       [] f.type = "optional" /\ ~lenient -> Passes(f.f, v, lenient)
       [] OTHER -> Truth(TRUE)

---------------------------------------------------------------------------
(* ORDER BY one column; its nulls go first or last.                        *)

DefaultNulls(order) == IF order.nulls = "default" THEN order.desc
                       ELSE order.nulls = "first"

Before(order, r1, r2) ==
  LET a == Rows[r1][order.column]
      b == Rows[r2][order.column]
  IN IF Null \in {a, b}
     THEN a # b /\ (a = Null) = DefaultNulls(order)
     ELSE IF order.desc THEN Len(b) < Len(a) ELSE Len(a) < Len(b)

Sorted(order, rows) ==
  SortSeq(rows, LAMBDA r1, r2 : Before(order, r1, r2))

Limited(rows, limit, offset) ==
  IF limit = 0 THEN rows
  ELSE SubSeq(rows, offset + 1,
              IF offset + limit < Len(rows) THEN offset + limit ELSE Len(rows))

(* An index of one key, with the options DESC and NULLS FIRST as they are  *)
(* stored; it is usable when it is a valid btree without a predicate.  The *)
(* attribute number asked for counts only live columns.                    *)
IndexSupportsOrder(indexes, attno, order) ==
  \E index \in indexes :
    /\ index.usable
    /\ index.attno = attno
    /\ LET nulls_first == index.nulls_first \/ index.desc
       IN \/ order.desc = index.desc /\ DefaultNulls(order) = nulls_first
          \/ order.desc # index.desc /\ DefaultNulls(order) # nulls_first

(* Whether PostgreSQL's planner can read the rows from an index in order.  *)
IndexOrders(indexes, attno, order) ==
  \E index \in indexes :
    /\ index.usable
    /\ index.attno = attno
    /\ (order.desc = index.desc) = (DefaultNulls(order) = index.nulls_first)

NoOrder == [orders |-> <<>>, limit |-> 0, offset |-> 0]

LiveAttributes(attrs) ==
  SelectSeq([i \in DOMAIN attrs |-> i], LAMBDA i : attrs[i] # "gone")

(* SetTableInfo: the columns of the table as DuckDB sees it.               *)
DuckdbColumns(attrs) == SelectSeq(attrs, LAMBDA a : a # "gone")

(* The name DuckDB gives to the i-th column it reads, and the binding by   *)
(* which the expressions above the scan refer to it, counted from 0.       *)
Named(q, i) == DuckdbColumns(q.attrs)[q.column_ids[i] + 1]
Binding(q, name) == (CHOOSE i \in DOMAIN q.column_ids : Named(q, i) = name) - 1

(* ExtractColumnIndex looks for a column of the table with that number;    *)
(* ResolveColumnIndex sees through the projections in between.             *)
ExtractColumnIndex(q, binding) ==
  {i \in DOMAIN q.column_ids : q.column_ids[i] = binding}

(* TryPushdownOrder on one operator, an ORDER BY, a Top-N or a filter: ops *)
(* are the operators between it and the scan that are still there, bind    *)
(* the order and the limit that the scan is bound to.                      *)
TryPushdownOrder(q, op, below) ==
  IF below.ops # <<>> \/ op.type = "filter"
  THEN [below EXCEPT !.ops = <<op>> \o @]
  ELSE LET found == {i \in ExtractColumnIndex(q, Binding(q, op.column)) :
                       IndexSupportsOrder(q.indexes, q.column_ids[i] + 1, op)}
       IN IF found = {} THEN [ops |-> <<op>>, bind |-> NoOrder]
          ELSE [ops |-> <<>>,
                bind |-> [orders |-> <<[op EXCEPT !.column =
                                          Named(q, Least(found))]>>,
                          limit |-> op.limit, offset |-> op.offset]]

(* The operators of the plan, the topmost first; children come first.      *)
PushdownRecursive(q, ops) ==
  FoldRight(LAMBDA op, below : TryPushdownOrder(q, op, below), ops,
            [ops |-> <<>>, bind |-> NoOrder])

---------------------------------------------------------------------------
(* ConstructTableScanQuery: the Postgres query of the scan.  q.column_ids  *)
(* are the columns DuckDB reads, numbered from 0 among its own, and none   *)
(* when it only counts; q.filters[i] is the filter on the i-th of them.    *)

NoFilter == [type |-> "none"]

CanRemoveFilterColumns(q) ==
  q.projection_ids # <<>> /\ Len(q.projection_ids) # Len(q.column_ids)

Attribute(q, i) == q.attrs[LiveAttributes(q.attrs)[q.column_ids[i] + 1]]

OutputColumns(q) ==
  IF CanRemoveFilterColumns(q)
  THEN [i \in DOMAIN q.projection_ids |-> Attribute(q, q.projection_ids[i])]
  ELSE [i \in DOMAIN q.column_ids |-> Attribute(q, i)]

Extracted(q) ==
  [i \in {i \in DOMAIN q.column_ids : q.filters[i] # NoFilter} |->
     ExtractQueryFilters(q.filters[i], FALSE)]

(* Mutant: ORDER BY is written only where a LIMIT is.                      *)
OrderClauseWithLimit(bind) == IF bind.limit = 0 THEN NoOrder ELSE bind

(* A LIMIT is written only where an ORDER BY is.                           *)
OrderClause(bind) == IF bind.orders = <<>> THEN NoOrder ELSE bind

NoQuery == [count |-> FALSE, columns |-> <<>>, where |-> {}, bind |-> NoOrder]

ConstructTableScanQuery(q, bind) ==
  IF q.column_ids = <<>> THEN [NoQuery EXCEPT !.count = TRUE]
  ELSE [count |-> FALSE, columns |-> OutputColumns(q),
        bind |-> OrderClause(bind),
        where |-> {<<Attribute(q, i), Extracted(q)[i].e>> :
                     i \in {i \in DOMAIN Extracted(q) :
                              Extracted(q)[i].result = "sql"}}]

QueryThrows(q) == \E i \in DOMAIN Extracted(q) : Extracted(q)[i] = Throws

(* The rows PostgreSQL finds for it, in the order it finds them.           *)
PgRows(query) ==
  LET found == SelectSeq([r \in DOMAIN Rows |-> r], LAMBDA r :
                 \A w \in query.where : Holds(w[2], Rows[r][w[1]]) = 2)
      rows == IF query.bind.orders = <<>> THEN found
              ELSE Sorted(query.bind.orders[1], found)
  IN Limited(rows, query.bind.limit, query.bind.offset)

---------------------------------------------------------------------------
(* What DuckDB does with a plan over the rows of a scan, and which rows    *)
(* its query asks for when the plan is run on the whole table.             *)

RunOperator(op, rows) ==
  IF op.type = "filter"
  THEN SelectSeq(rows, LAMBDA r : Holds(op.e, Rows[r].text) = 2)
  ELSE Limited(Sorted(op, rows), op.limit, op.offset)

RunOperators(ops, rows) ==
  FoldRight(LAMBDA op, below : RunOperator(op, below), ops, rows)

RowsPassing(q, lenient) ==
  SelectSeq([r \in DOMAIN Rows |-> r],
            LAMBDA r : \A i \in DOMAIN q.column_ids :
              q.filters[i] = NoFilter \/
              Passes(q.filters[i], Rows[r][Named(q, i)], lenient) = 2)
=============================================================================
