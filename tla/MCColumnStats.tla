--------------------------- MODULE MCColumnStats ---------------------------
(* Small instances of ColumnStats.                                         *)
EXTENDS ColumnStats, TLC

(* The text of 10 comes before that of 9.                                  *)
MCAsText == (10 :> 1) @@ (9 :> 2)

Column(id, type, nested) ==
  [column_id |-> id, type |-> type, nested |-> nested]

(* A column of each type, and a list with its element.                     *)
MCLayouts ==
  {{Column(1, type, FALSE)} :
     type \in {"integer", "double", "date", "varchar", "variant"}}
  \cup {{Column(1, "list", FALSE), Column(2, "integer", TRUE)}}
=============================================================================
