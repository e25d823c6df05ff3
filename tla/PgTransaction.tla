--------------------------- MODULE PgTransaction ---------------------------
(***************************************************************************)
(* What a PostgreSQL session promises about the writes of its              *)
(* transactions, whatever kind of table they go to: the writes of a        *)
(* transaction that commits become visible together, those of one that     *)
(* aborts never do, and rolling back to a savepoint takes back exactly the *)
(* writes made after it.  pg_ducklake claims this for DuckLake tables too  *)
(* (docs/ducklake_feature_coverage.md: "Transactions (ACID): Via           *)
(* PostgreSQL transaction model"); DuckLakeSession is shown to implement   *)
(* this module.                                                            *)
(***************************************************************************)
CONSTANT Stores  \* the kinds of table a transaction may write

VARIABLES
  outer,      \* the stores the transaction wrote outside any savepoint
  inner,      \* the stores it wrote after the open savepoint
  published,  \* the stores whose writes the latest transaction made visible
  doomed      \* TRUE once the running transaction has aborted

avars == <<outer, inner, published, doomed>>

AInit ==
  /\ outer = {} /\ inner = {}
  /\ published = {}
  /\ ~doomed

AWrite ==
  /\ ~doomed
  /\ \E s \in Stores :
       \/ outer' = outer \cup {s} /\ UNCHANGED inner
       \/ inner' = inner \cup {s} /\ UNCHANGED outer
  /\ UNCHANGED <<published, doomed>>

(* RELEASE SAVEPOINT hands the inner writes to the transaction.            *)
AReleaseSavepoint ==
  /\ outer' = outer \cup inner
  /\ inner' = {}
  /\ UNCHANGED <<published, doomed>>

(* ROLLBACK TO SAVEPOINT, or an error after the savepoint.                 *)
ARollbackToSavepoint ==
  /\ inner' = {}
  /\ UNCHANGED <<outer, published, doomed>>

ACommit ==
  /\ ~doomed
  /\ published' = outer \cup inner
  /\ outer' = {} /\ inner' = {}
  /\ UNCHANGED doomed

(* The transaction aborts; a block then waits, doomed, for its end.        *)
AAbort ==
  /\ outer' = {} /\ inner' = {}
  /\ \/ doomed' /\ UNCHANGED published
     \/ ~doomed' /\ published' = {}

ANext ==
  AWrite \/ AReleaseSavepoint \/ ARollbackToSavepoint \/ ACommit \/ AAbort

ASpec == AInit /\ [][ANext]_avars
=============================================================================
