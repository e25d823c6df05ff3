------------------------ MODULE PgDuckdbTransaction ------------------------
(***************************************************************************)
(* One pg_duckdb backend: how its PostgreSQL transaction and the DuckDB    *)
(* transaction of its cached connection are kept together.                 *)
(*                                                                         *)
(* src/pg_duckdb/src/pgduckdb_xact.cpp counts PostgreSQL's command IDs to  *)
(* find transactions that write to both databases, keeps the set of the    *)
(* DuckDB temporary tables, and ends the DuckDB transaction in a callback. *)
(* The hooks (pgduckdb_hooks.cpp) and the DDL hook and event triggers      *)
(* (pgduckdb_ddl.cpp) call it from every statement.  An action is one      *)
(* statement with all of its hooks and triggers, or one event of the       *)
(* transaction.                                                            *)
(*                                                                         *)
(* "statics" holds the process's static variables.  They are not           *)
(* transactional: a statement that fails leaves them as far as it got, and *)
(* only DuckdbXactCallback puts them back.                                 *)
(***************************************************************************)
EXTENDS Naturals, FiniteSets

CONSTANTS
  Oids,             \* OIDs of temporary tables that use the duckdb AM
  DeleteRows,       \* those that are declared ON COMMIT DELETE ROWS
  MaxCid,           \* bound on command IDs: statements per transaction
  MaxNest,          \* bound on executor_nest_level
  AllowMixed,       \* duckdb.unsafe_allow_mixed_transactions
  LateFailures      \* who may fail during COMMIT: "duckdb", "postgres"

ASSUME FlagsAssumption ==
  /\ MaxCid \in Nat /\ MaxNest \in Nat
  /\ AllowMixed \in BOOLEAN
  /\ LateFailures \subseteq {"duckdb", "postgres"}
  /\ DeleteRows \subseteq Oids

VARIABLES
  xact,     \* the PostgreSQL transaction
  statics,  \* static variables of the backend process
  duck,     \* the transaction of the cached DuckDB connection
  tables,   \* temporary tables: in pg_class and in DuckDB, now and committed
  mixed     \* the kind of the last transaction to commit, if it wrote to both

vars == <<xact, statics, duck, tables, mixed>>

FirstCommandId == 0

(* pg: wrote to PostgreSQL objects that are not shells of DuckDB tables;   *)
(* pg_at_savepoint: the same at the savepoint; func: inside of a function; *)
(* called: a function was called; fresh: next_expected_command_id was      *)
(* FirstCommandId when the transaction began; temp: it used a temporary    *)
(* table.                                                                  *)
NoXact == [kind |-> "idle", func |-> FALSE, called |-> FALSE, sub |-> "none",
           cid |-> FirstCommandId, pg |-> FALSE, pg_at_savepoint |-> FALSE,
           fresh |-> TRUE, temp |-> FALSE]

(* late: begun after the PRE_COMMIT callback of an earlier transaction.    *)
NoDuck == [open |-> FALSE, wrote |-> FALSE, late |-> FALSE]

Written == [duck EXCEPT !.open = TRUE, !.wrote = TRUE]

Init ==
  /\ xact = NoXact
  /\ \E allow \in BOOLEAN :
     statics = [next_expected_command_id |-> FirstCommandId,
                top_level_statement |-> TRUE, executor_nest_level |-> 0,
                top_level_duckdb_ddl_type |-> "NONE", initialized |-> FALSE,
                temp |-> {}, temp_old |-> {}, modified |-> FALSE,
                unsafe_allow_execution_inside_functions |-> allow]
  /\ duck = NoDuck
  /\ tables = [pg |-> {}, pg_committed |-> {},
               duck |-> {}, duck_committed |-> {}]
  /\ mixed = "none"

-----------------------------------------------------------------------------
(* A statement can run outside of any transaction, in a block that has not *)
(* failed, or inside of a function.                                        *)
CanRun ==
  \/ xact.kind = "idle"
  \/ xact.kind = "block" /\ xact.sub # "aborted"
  \/ xact.kind = "implicit" /\ xact.func

(* The transaction a statement runs in.                                    *)
Running ==
  IF xact.kind # "idle" THEN xact
  ELSE [NoXact EXCEPT
          !.kind = "implicit",
          !.fresh = statics.next_expected_command_id = FirstCommandId]

(* PostgreSQL's IsInTransactionBlock.                                      *)
IsInTransactionBlock(is_top_level) ==
  xact.kind = "block" \/ xact.sub # "none" \/ ~is_top_level

MixedWritesAllowed(is_top_level) ==
  ~IsInTransactionBlock(is_top_level) \/ AllowMixed

(* pg::DidWrites, DuckDBManager::DidWrites and the check of both.          *)
PgDidWrites == xact.cid > statics.next_expected_command_id

DuckDidWrites == statics.initialized /\ duck.open /\ duck.wrote

DidDisallowedMixedWrites(is_top_level) ==
  ~MixedWritesAllowed(is_top_level) /\ PgDidWrites /\ DuckDidWrites

AllowWrites ==
  MixedWritesAllowed(statics.top_level_statement) \/ ~DuckDidWrites

(* Mutant: ClaimCurrentCommandId without its check.                        *)
ClaimableAlways(is_top_level) == TRUE

(* ClaimCurrentCommandId without force can only be used when no other      *)
(* command ID was used since the last claim.                               *)
Claimable(is_top_level) ==
  \/ xact.cid = statics.next_expected_command_id
  \/ MixedWritesAllowed(is_top_level)

(* The statics after a claim of cid.                                       *)
Claim(s, cid) == [s EXCEPT !.next_expected_command_id = cid + 1]

-----------------------------------------------------------------------------
(* The set of temporary tables with its copy for a rollback.               *)
Modify(s) ==
  IF s.modified THEN s ELSE [s EXCEPT !.modified = TRUE, !.temp_old = s.temp]

RegisterDuckdbTempTable(s, relid) ==
  [Modify(s) EXCEPT !.temp = @ \cup {relid}]

UnregisterDuckdbTempTables(s, relids) ==
  IF relids = {} THEN s ELSE [Modify(s) EXCEPT !.temp = @ \ relids]

(* What DuckdbXactCallback resets for every event.                         *)
EndStatics(s) ==
  [s EXCEPT !.top_level_statement = TRUE, !.executor_nest_level = 0,
            !.top_level_duckdb_ddl_type = "NONE"]

(* The statics after XACT_EVENT_PRE_COMMIT and after XACT_EVENT_ABORT.     *)
(* Without a DuckDB instance the callback returns early.                   *)
CommitStatics(s) ==
  IF ~s.initialized THEN EndStatics(s)
  ELSE [EndStatics(s) EXCEPT
          !.next_expected_command_id = FirstCommandId,
          !.modified = FALSE, !.temp_old = {}]

(* Mutant: AbortStatics that puts the old set back even if this            *)
(* transaction did not change the set.                                     *)
AbortStaticsAlwaysRestores(s) ==
  [CommitStatics(s) EXCEPT !.temp = s.temp_old]

AbortStatics(s) ==
  IF ~s.initialized THEN EndStatics(s)
  ELSE [CommitStatics(s) EXCEPT
          !.temp = IF s.modified THEN s.temp_old ELSE @]

RollsBackTo(x, s) ==
  /\ xact' = x
  /\ statics' = s
  /\ duck' = NoDuck
  /\ tables' = [tables EXCEPT !.pg = tables.pg_committed,
                              !.duck = tables.duck_committed]
  /\ UNCHANGED mixed

RollsBack(s) == RollsBackTo(NoXact, s)

(* Everything is rolled back; a block then waits for ROLLBACK or COMMIT.   *)
AbortTransaction(s) ==
  RollsBackTo(IF xact.kind = "block" THEN [NoXact EXCEPT !.kind = "aborted"]
              ELSE NoXact,
              AbortStatics(s))

(* An error inside of a savepoint aborts only the subtransaction, and no   *)
(* callback touches the statics; the command IDs it used stay used.        *)
AbortSubTransaction(s, cids) ==
  /\ xact' = [xact EXCEPT !.sub = "aborted", !.func = FALSE,
                          !.cid = @ + cids, !.pg = xact.pg_at_savepoint,
                          !.temp = @ \/ cids > 0]
  /\ statics' = s
  /\ UNCHANGED <<duck, tables, mixed>>

(* A statement fails after it changed the statics to s and used command IDs. *)
FailsAfter(s, cids) ==
  \/ xact.sub = "open" /\ AbortSubTransaction(s, cids)
  \/ xact.sub # "open" /\ AbortTransaction(s)

Fails(s) == FailsAfter(s, 0)

-----------------------------------------------------------------------------
(* DuckDBManager::Get().GetConnection(force): creates the instance, then   *)
(* begins a transaction unless one is active, which is an error in a       *)
(* subtransaction.                                                         *)
ConnectionAllowed == duck.open \/ xact.sub = "none"

Initialize(s) == [s EXCEPT !.initialized = TRUE]

OpensTransaction(force, is_top_level) ==
  duck.open \/ force \/ IsInTransactionBlock(is_top_level)

(* INSERT, UPDATE or DELETE on a PostgreSQL table.  The planner hook       *)
(* refuses it when DuckDB was written to.                                  *)
PgWrite ==
  /\ CanRun /\ xact.cid < MaxCid
  /\ \/ /\ AllowWrites
        /\ xact' = [Running EXCEPT !.cid = @ + 1, !.pg = TRUE]
        /\ statics' = [statics EXCEPT !.top_level_statement = FALSE]
        /\ UNCHANGED <<duck, tables, mixed>>
     \/ ~AllowWrites /\ Fails(statics)

(* DDL on PostgreSQL objects: CREATE TABLE passes the create trigger, which *)
(* resets the DDL type; REFRESH MATERIALIZED VIEW sets it.  Neither checks *)
(* for mixed writes.                                                       *)
PgDdl(type) ==
  /\ CanRun /\ xact.cid < MaxCid
  /\ xact' = [Running EXCEPT !.cid = @ + 1, !.pg = TRUE]
  /\ statics' = [statics EXCEPT !.top_level_duckdb_ddl_type = type]
  /\ UNCHANGED <<duck, tables, mixed>>

(* A statement that DuckDB executes is refused inside of a function.       *)
ExecutionAllowed ==
  \/ statics.executor_nest_level = 0
  \/ statics.unsafe_allow_execution_inside_functions

(* SELECT that DuckDB executes: planning it opens the connection, and      *)
(* ExecutorFinish claims the command ID if the DuckDB transaction wrote.   *)
DuckSelect ==
  /\ CanRun /\ xact.cid < MaxCid
  /\ LET s == Initialize(statics)
         top == statics.top_level_statement
         claims == DuckDidWrites
     IN
     \/ ~ExecutionAllowed /\ Fails(statics)
     \/ ExecutionAllowed /\ ~ConnectionAllowed /\ Fails(s)
     \/ /\ ExecutionAllowed /\ ConnectionAllowed
        /\ claims /\ ~Claimable(top)
        /\ Fails(s)
     \/ /\ ExecutionAllowed /\ ConnectionAllowed
        /\ (claims => Claimable(top))
        /\ xact' = IF claims THEN [Running EXCEPT !.cid = @ + 1] ELSE Running
        /\ statics' = IF claims THEN Claim(s, xact.cid) ELSE s
        /\ duck' = [duck EXCEPT !.open = OpensTransaction(FALSE, top)]
        /\ UNCHANGED <<tables, mixed>>

(* INSERT, UPDATE or DELETE on a DuckDB table.  ExecutorStart claims the    *)
(* command ID, ExecutorFinish claims the next one if the transaction that  *)
(* was written to is still open.                                           *)
DuckWrite ==
  /\ CanRun /\ xact.cid + 1 < MaxCid
  /\ LET s == Initialize(statics)
         top == statics.top_level_statement
         refused == DidDisallowedMixedWrites(top) \/ ~ExecutionAllowed
         opens == OpensTransaction(FALSE, top)
         cids == IF opens THEN 2 ELSE 1
     IN
     \/ refused /\ Fails(statics)
     \/ ~refused /\ ~ConnectionAllowed /\ Fails(s)
     \/ /\ ~refused /\ ConnectionAllowed /\ ~Claimable(top)
        /\ s.executor_nest_level < MaxNest
        /\ Fails([s EXCEPT !.executor_nest_level = @ + 1])
     \/ /\ ~refused /\ ConnectionAllowed /\ Claimable(top)
        /\ xact' = [Running EXCEPT !.cid = @ + cids]
        /\ statics' = Claim(s, xact.cid + cids - 1)
        /\ duck' = IF opens THEN Written ELSE duck
        /\ UNCHANGED <<tables, mixed>>

(* COPY that DuckDB executes: to a file, or from one into a DuckDB table,  *)
(* which is a write.  The utility hook runs it before anything else; it    *)
(* makes no claim.                                                         *)
Copy(from) ==
  /\ CanRun
  /\ LET s == Initialize(statics)
         opens == OpensTransaction(FALSE, statics.top_level_statement)
     IN
     \/ ~ConnectionAllowed /\ Fails(s)
     \/ /\ ConnectionAllowed
        /\ xact' = Running
        /\ statics' = s
        /\ duck' = [duck EXCEPT !.open = opens, !.wrote = @ \/ (from /\ opens)]
        /\ UNCHANGED <<tables, mixed>>

(* TRUNCATE of a DuckDB table: the table access method forwards it, while  *)
(* PostgreSQL's own update of pg_class uses a command ID that nobody       *)
(* claims.                                                                 *)
DuckdbTruncateTable(relid) ==
  /\ CanRun /\ xact.cid < MaxCid /\ relid \in tables.pg
  /\ LET s == [Initialize(statics) EXCEPT !.top_level_statement = ~xact.func]
         opens == OpensTransaction(FALSE, ~xact.func)
     IN
     \/ /\ ~ConnectionAllowed \/ relid \notin tables.duck
        /\ Fails(s)
     \/ /\ ConnectionAllowed /\ relid \in tables.duck
        /\ xact' = [Running EXCEPT !.cid = @ + 1, !.temp = TRUE]
        /\ statics' = [s EXCEPT !.top_level_statement =
                                  statics.top_level_statement]
        /\ duck' = IF opens THEN Written ELSE duck
        /\ UNCHANGED <<tables, mixed>>

(* duckdb.raw_query('INSERT ...') in a SELECT that PostgreSQL executes: a  *)
(* DuckDB write that claims no command ID.                                 *)
RawQuery ==
  /\ CanRun
  /\ LET s == [Initialize(statics) EXCEPT !.top_level_statement = FALSE] IN
     \/ ~ConnectionAllowed /\ s.executor_nest_level < MaxNest
        /\ Fails([s EXCEPT !.executor_nest_level = @ + 1])
     \/ /\ ConnectionAllowed
        /\ xact' = Running
        /\ statics' = s
        /\ duck' = Written
        /\ UNCHANGED <<tables, mixed>>

-----------------------------------------------------------------------------
(* The utility hook notes whether a DDL statement is at the top level.     *)
EnterUtility == [statics EXCEPT !.top_level_statement = ~xact.func]

LeaveUtility(s) ==
  [s EXCEPT !.top_level_statement = statics.top_level_statement]

NoDdlPending == statics.top_level_duckdb_ddl_type = "NONE"

(* DuckdbHandleDDLPre for CREATE TABLE USING duckdb: the claim, and for    *)
(* CREATE TABLE AS the plan of the query, made with a DuckDB connection.   *)
CreatePre == [EnterUtility EXCEPT !.top_level_duckdb_ddl_type = "CREATE_TABLE"]

CreatePlanned(as) ==
  LET claimed == Claim(CreatePre, xact.cid)
  IN IF as THEN Initialize(claimed) ELSE claimed

(* duckdb_create_table_trigger up to the connection: it resets the DDL     *)
(* type, its SPI queries end the top level, the table is registered, and   *)
(* the command IDs PostgreSQL used are claimed with force.                 *)
CreateTableTrigger(s, relid) ==
  [RegisterDuckdbTempTable(s, relid) EXCEPT
     !.top_level_duckdb_ddl_type = "NONE",
     !.top_level_statement = FALSE,
     !.next_expected_command_id = xact.cid + 3]

(* CREATE TABLE and, if as is set, CREATE TABLE AS of a temporary table    *)
(* USING duckdb: after the hook, PostgreSQL creates the shell, and the     *)
(* event trigger creates the table in DuckDB.  Each part can fail.         *)
CreateTemp(relid, as) ==
  /\ CanRun /\ xact.cid + 2 < MaxCid
  /\ relid \notin tables.pg \cup tables.duck \cup statics.temp
  /\ LET triggered == CreateTableTrigger(CreatePlanned(as), relid)
         connected == Initialize(triggered)
     IN
     \/ ~NoDdlPending /\ Fails(EnterUtility)
     \/ NoDdlPending /\ ~Claimable(~xact.func) /\ Fails(CreatePre)
     \/ /\ NoDdlPending /\ Claimable(~xact.func)
        /\ \/ FailsAfter(CreatePlanned(as), 1) \* rejected by PostgreSQL
           \/ FailsAfter(triggered, 3) \* ON COMMIT DROP, get_tabledef
           \/ FailsAfter(connected, 3) \* no connection, or DuckDB rejects it
           \/ /\ ConnectionAllowed
              /\ xact' = [Running EXCEPT !.cid = @ + 3, !.temp = TRUE]
              /\ statics' = LeaveUtility(connected)
              /\ duck' = Written
              /\ tables' = [tables EXCEPT !.pg = @ \cup {relid},
                                          !.duck = @ \cup {relid}]
              /\ UNCHANGED mixed

(* DropTablePreCheck: DuckDB tables are claimed; both kinds are refused.   *)
DropTablePreCheck(relids) ==
  IF relids = {} THEN EnterUtility ELSE Claim(EnterUtility, xact.cid)

DropsBoth(relids, heap) ==
  ~MixedWritesAllowed(~xact.func) /\ relids # {} /\ heap = "named"

(* duckdb_drop_trigger for temporary tables: the registered ones are       *)
(* dropped in DuckDB.                                                      *)
DropTrigger(s, relids) ==
  IF relids = {} THEN s
  ELSE UnregisterDuckdbTempTables(Initialize(s), relids)

(* Its last check.                                                         *)
DropsMore(relids, forwarded, heap) ==
  /\ ~MixedWritesAllowed(~xact.func)
  /\ forwarded # {}
  /\ heap # "no" \/ forwarded # relids

(* DROP TABLE of some temporary DuckDB tables, and of PostgreSQL relations *)
(* that are named as well or that CASCADE finds.                           *)
DropTables(relids, heap) ==
  /\ CanRun /\ xact.cid + 2 < MaxCid
  /\ relids # {} \/ heap = "named"
  /\ LET claimable == relids # {} => Claimable(~xact.func)
         claimed == DropTablePreCheck(relids)
         forwarded == relids \cap statics.temp
         dropped == DropTrigger(claimed, forwarded)
         possible == /\ forwarded # {} => ConnectionAllowed
                     /\ forwarded \subseteq tables.duck
         cids == IF relids = {} THEN 1 ELSE IF forwarded = {} THEN 2 ELSE 3
     IN
     \/ ~claimable /\ Fails(EnterUtility)
     \/ claimable /\ DropsBoth(relids, heap) /\ FailsAfter(claimed, 1)
     \/ /\ claimable /\ ~DropsBoth(relids, heap) /\ ~possible
        /\ FailsAfter(Initialize(claimed), 2)
     \/ /\ claimable /\ ~DropsBoth(relids, heap) /\ possible
        /\ DropsMore(relids, forwarded, heap)
        /\ FailsAfter(dropped, 2)
     \/ /\ claimable /\ ~DropsBoth(relids, heap) /\ possible
        /\ ~DropsMore(relids, forwarded, heap)
        /\ xact' = [Running EXCEPT !.cid = @ + cids, !.pg = @ \/ heap # "no",
                                   !.temp = @ \/ relids # {}]
        /\ statics' = IF forwarded = {} THEN LeaveUtility(dropped)
                      ELSE LeaveUtility(Claim(dropped, xact.cid + 2))
        /\ duck' = IF forwarded = {} THEN duck ELSE Written
        /\ tables' = [tables EXCEPT !.pg = @ \ relids, !.duck = @ \ forwarded]
        /\ UNCHANGED mixed

(* duckdb_alter_table_trigger: insists on the DDL type that the hook set,  *)
(* and claims with force.                                                  *)
AlterTableTrigger(s) ==
  [Initialize(s) EXCEPT !.top_level_duckdb_ddl_type = "NONE",
                        !.top_level_statement = FALSE,
                        !.next_expected_command_id = xact.cid + 3]

(* ALTER TABLE, or RENAME, of a temporary DuckDB table.                    *)
AlterTemp(relid, rename) ==
  /\ CanRun /\ xact.cid + 2 < MaxCid
  /\ relid \in tables.pg
  /\ LET pre == [EnterUtility EXCEPT
                   !.top_level_duckdb_ddl_type = "ALTER_TABLE"]
         altered == AlterTableTrigger(Claim(pre, xact.cid))
     IN
     \/ ~NoDdlPending /\ rename /\ Fails(EnterUtility)
     \/ /\ ~NoDdlPending /\ ~rename
        /\ FailsAfter([EnterUtility EXCEPT
                         !.top_level_duckdb_ddl_type = "NONE"], 1)
     \/ NoDdlPending /\ ~Claimable(~xact.func) /\ Fails(pre)
     \/ /\ NoDdlPending /\ Claimable(~xact.func)
        /\ ~ConnectionAllowed \/ relid \notin tables.duck
        /\ FailsAfter(altered, 3)
     \/ /\ NoDdlPending /\ Claimable(~xact.func)
        /\ ConnectionAllowed /\ relid \in tables.duck
        /\ xact' = [Running EXCEPT !.cid = @ + 3, !.temp = TRUE]
        /\ statics' = LeaveUtility(altered)
        /\ duck' = Written
        /\ UNCHANGED <<tables, mixed>>

-----------------------------------------------------------------------------
(* SELECT f() that PostgreSQL executes, its end, and an error in it or in  *)
(* another statement.                                                      *)
CallFunction ==
  /\ CanRun /\ ~xact.func /\ statics.executor_nest_level < MaxNest
  /\ xact' = [Running EXCEPT !.func = TRUE, !.called = TRUE]
  /\ statics' = [statics EXCEPT !.top_level_statement = FALSE,
                                !.executor_nest_level = @ + 1]
  /\ UNCHANGED <<duck, tables, mixed>>

ReturnFunction ==
  /\ xact.func
  /\ xact' = [xact EXCEPT !.func = FALSE]
  /\ statics' = [statics EXCEPT !.executor_nest_level = @ - 1]
  /\ UNCHANGED <<duck, tables, mixed>>

StatementError ==
  /\ CanRun /\ xact.kind # "idle"
  /\ Fails(statics)

Begin ==
  /\ xact.kind = "idle"
  /\ xact' = [Running EXCEPT !.kind = "block"]
  /\ UNCHANGED <<statics, duck, tables, mixed>>

(* Mutant: callbacks that do not see the DuckDB transaction.               *)
HasActiveTransactionMissed == FALSE

(* SAVEPOINT: the callback refuses it in a DuckDB transaction, which       *)
(* aborts the whole block.                                                 *)
HasActiveTransaction == statics.initialized /\ duck.open

Savepoint ==
  /\ xact.kind = "block" /\ xact.sub = "none" /\ ~xact.func
  /\ \/ HasActiveTransaction /\ AbortTransaction(statics)
     \/ /\ ~HasActiveTransaction
        /\ xact' = [xact EXCEPT !.sub = "open", !.pg_at_savepoint = xact.pg]
        /\ UNCHANGED <<statics, duck, tables, mixed>>

ReleaseSavepoint ==
  /\ xact.sub = "open" /\ ~xact.func
  /\ xact' = [xact EXCEPT !.sub = "none"]
  /\ UNCHANGED <<statics, duck, tables, mixed>>

RollbackToSavepoint ==
  /\ xact.sub # "none" /\ ~xact.func
  /\ xact' = [xact EXCEPT !.sub = "open", !.pg = xact.pg_at_savepoint]
  /\ UNCHANGED <<statics, duck, tables, mixed>>

(* The kind of a transaction that wrote to both, for the history.          *)
KindOfCommit ==
  CASE xact.kind = "block" /\ xact.fresh  -> "block"
    [] xact.kind = "block" /\ ~xact.fresh -> "block after a leaked claim"
    [] xact.kind = "implicit" /\ xact.called  -> "function"
    [] xact.kind = "implicit" /\ ~xact.called -> "statement"

(* COMMIT of a block, or the end of a statement outside of one.  The       *)
(* callback checks for mixed writes, with top_level_statement already      *)
(* true, resets the statics, and then commits in DuckDB.  That commit can  *)
(* fail, and PostgreSQL can still fail after it, for instance in its       *)
(* serializability check.                                                  *)
CommitPoint ==
  /\ ~xact.func
  /\ xact.kind = "implicit" \/ (xact.kind = "block" /\ xact.sub # "aborted")

(* PostgreSQL empties the ON COMMIT DELETE ROWS tables after the callback. *)
(* The access method forwards that to DuckDB, in a transaction of its own  *)
(* which, if a block commits, GetConnection begins and nothing ends.       *)
LateTruncation ==
  /\ xact.temp /\ xact.kind = "block"
  /\ tables.pg \cap tables.duck \cap DeleteRows # {}

CommitRefused ==
  /\ CommitPoint
  /\ DidDisallowedMixedWrites(TRUE)
  /\ RollsBack(AbortStatics(statics))

CommitTransaction ==
  /\ CommitPoint
  /\ ~DidDisallowedMixedWrites(TRUE)
  /\ xact' = NoXact
  /\ statics' = CommitStatics(statics)
  /\ duck' = IF LateTruncation
             THEN [open |-> TRUE, wrote |-> TRUE, late |-> TRUE] ELSE NoDuck
  /\ tables' = [tables EXCEPT !.pg_committed = tables.pg,
                              !.duck_committed = tables.duck]
  /\ mixed' = IF xact.pg /\ DuckDidWrites THEN KindOfCommit ELSE "none"

CommitFailsLate(who) ==
  /\ CommitPoint
  /\ ~DidDisallowedMixedWrites(TRUE)
  /\ LET s == AbortStatics(CommitStatics(statics)) IN
     \/ who = "duckdb" /\ duck.open /\ RollsBack(s)
     \/ /\ who = "postgres"
        /\ xact' = NoXact
        /\ statics' = s
        /\ duck' = NoDuck
        /\ tables' = [tables EXCEPT !.pg = tables.pg_committed,
                                    !.duck_committed = tables.duck]
        /\ UNCHANGED mixed

(* PREPARE TRANSACTION is refused while a DuckDB transaction is active,    *)
(* and by PostgreSQL after the use of a temporary table; otherwise the     *)
(* callback falls through to doing nothing.                                *)
PrepareTransaction ==
  /\ xact.kind = "block" /\ xact.sub = "none" /\ ~xact.func
  /\ \/ /\ HasActiveTransaction \/ xact.temp
        /\ RollsBack(AbortStatics(statics))
     \/ /\ ~HasActiveTransaction /\ ~xact.temp
        /\ xact' = NoXact
        /\ statics' = EndStatics(statics)
        /\ UNCHANGED <<duck, tables, mixed>>

(* ROLLBACK of a block that still runs, or of one that has failed (which   *)
(* fired the callback before, unless only a subtransaction had failed).    *)
Rollback ==
  /\ ~xact.func
  /\ \/ xact.kind = "block" /\ RollsBack(AbortStatics(statics))
     \/ /\ xact.kind = "aborted"
        /\ xact' = NoXact
        /\ UNCHANGED <<statics, duck, tables, mixed>>

(* CALL duckdb.recycle_ddb(): refused in a transaction block; it throws    *)
(* the DuckDB instance away, and pg_temp with it.                          *)
RecycleDdb ==
  /\ xact.kind = "idle" /\ statics.initialized
  /\ statics' = [statics EXCEPT !.initialized = FALSE]
  /\ duck' = NoDuck
  /\ tables' = [tables EXCEPT !.duck = {}, !.duck_committed = {}]
  /\ UNCHANGED <<xact, mixed>>

Next ==
  \/ PgWrite
  \/ \E type \in {"NONE", "REFRESH_MATERIALIZED_VIEW"} : PgDdl(type)
  \/ DuckSelect
  \/ DuckWrite
  \/ RawQuery
  \/ \E from \in BOOLEAN : Copy(from)
  \/ \E relid \in Oids : DuckdbTruncateTable(relid)
  \/ \E relid \in Oids, as \in BOOLEAN : CreateTemp(relid, as)
  \/ \E relid \in Oids, rename \in BOOLEAN : AlterTemp(relid, rename)
  \/ \E relids \in SUBSET tables.pg, heap \in {"no", "named", "cascade"} :
       DropTables(relids, heap)
  \/ CallFunction
  \/ ReturnFunction
  \/ StatementError
  \/ Begin
  \/ Savepoint
  \/ ReleaseSavepoint
  \/ RollbackToSavepoint
  \/ CommitRefused
  \/ CommitTransaction
  \/ \E who \in LateFailures : CommitFailsLate(who)
  \/ PrepareTransaction
  \/ Rollback
  \/ RecycleDdb

Spec == Init /\ [][Next]_vars

-----------------------------------------------------------------------------
Kinds ==
  {"none", "block", "block after a leaked claim", "function", "statement"}

DdlTypes ==
  {"NONE", "CREATE_TABLE", "ALTER_TABLE", "REFRESH_MATERIALIZED_VIEW"}

Xacts ==
  [kind : {"idle", "implicit", "block", "aborted"}, func : BOOLEAN,
   called : BOOLEAN, sub : {"none", "open", "aborted"}, cid : 0..MaxCid,
   pg : BOOLEAN, pg_at_savepoint : BOOLEAN, fresh : BOOLEAN, temp : BOOLEAN]

Statics ==
  [next_expected_command_id : 0..MaxCid, top_level_statement : BOOLEAN,
   executor_nest_level : 0..MaxNest, top_level_duckdb_ddl_type : DdlTypes,
   initialized : BOOLEAN, temp : SUBSET Oids, temp_old : SUBSET Oids,
   modified : BOOLEAN, unsafe_allow_execution_inside_functions : BOOLEAN]

(* The command IDs, the sets of tables and the flags have their types.     *)
TypeOK ==
  /\ xact \in Xacts
  /\ statics \in Statics
  /\ duck \in [open : BOOLEAN, wrote : BOOLEAN, late : BOOLEAN]
  /\ tables \in [pg : SUBSET Oids, pg_committed : SUBSET Oids,
                 duck : SUBSET Oids, duck_committed : SUBSET Oids]
  /\ mixed \in Kinds

(* A transaction block that began with a fresh next_expected_command_id    *)
(* never commits after it wrote both to PostgreSQL and to DuckDB           *)
(* (ClaimCurrentCommandId, AllowWrites and CheckForDisallowedMixedWrites   *)
(* between them catch every order of the statements).                      *)
BlocksDoNotMixWrites == mixed # "block"

(* Every temporary table that DuckDB has is in temporary_duckdb_tables, so  *)
(* that duckdb_drop_trigger forwards its DROP, whatever mix of rollbacks,  *)
(* savepoints, failed statements and late failures of COMMIT went before.  *)
TempTablesAreRegistered == tables.duck \subseteq statics.temp

(* DuckDB has no savepoints: no DuckDB transaction is ever active inside   *)
(* of a subtransaction (GetConnection and DuckdbSubXactCallback), so that  *)
(* ROLLBACK TO SAVEPOINT never leaves DuckDB's writes behind.              *)
NoDuckdbInSubtransactions == xact.sub # "none" => ~duck.open

(* The DuckDB transaction ends with the PostgreSQL transaction, and the    *)
(* static variables are ready for the next one: between transactions       *)
(* nothing is open but the truncation of ON COMMIT DELETE ROWS tables, no  *)
(* DDL is pending and no statement is nested.                              *)
NothingOutlivesTheTransaction ==
  xact.kind = "idle" =>
    /\ (duck.open => duck.late)
    /\ tables.duck = tables.duck_committed
    /\ statics.top_level_statement
    /\ statics.executor_nest_level = 0
    /\ statics.top_level_duckdb_ddl_type = "NONE"
=============================================================================
