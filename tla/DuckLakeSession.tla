-------------------------- MODULE DuckLakeSession --------------------------
(***************************************************************************)
(* One backend of pg_ducklake: its PostgreSQL transaction and the DuckDB   *)
(* transaction that must follow it.                                        *)
(*                                                                         *)
(* DuckLake keeps a transaction of its own on the DuckDB connection.  Its  *)
(* writes stay there until DuckDB commits; the commit flushes them, over   *)
(* SPI and in internal subtransactions, into metadata tables of the very   *)
(* PostgreSQL transaction that is running.  duckdb_manager.cpp drives the  *)
(* DuckDB transaction from PostgreSQL's transaction callbacks, hooks.cpp   *)
(* commits it early on an explicit COMMIT, libpgduckdb's GetConnection     *)
(* opens it.  A statement outside a block is a transaction of its own; its *)
(* steps here are the queries it runs (a function may run several).        *)
(*                                                                         *)
(* PostgreSQL and DuckDB themselves are external: PgTransaction says what  *)
(* a session owes, and the property Atomicity says that this one pays.     *)
(***************************************************************************)
EXTENDS Naturals, FiniteSets

CONSTANTS
  Servers,      \* SERVERs of the ducklake_secret wrapper that may come and go
  MaxVersion    \* bound: inlined schema versions of the one DuckLake table

ASSUME SessionConstants == MaxVersion \in Nat \ {0}

VARIABLES
  block,    \* "none", "statement" (implicit), "open" or "failed" (BEGIN)
  sub,      \* TRUE while a savepoint or an EXCEPTION block is open
  pending,  \* what the transaction wrote: "heap", "lake" (flushed metadata)
  inner,    \* what it wrote after the savepoint
  published,  \* what the latest transaction made visible
  duck,     \* the DuckDB transaction: is it active, has it unflushed writes
  mgr,      \* DuckDBManager: the instance and the state pushed into it
  allow,    \* allow_subtransaction
  force,    \* force_scan_transaction
  servers,  \* the committed secret servers
  mine,     \* secret servers this transaction created
  inbox,    \* an invalidation message waits to be accepted
  cache     \* direct_insert.cpp's session caches

sessionVars == <<block, sub, pending, inner, published, duck, mgr, allow,
                 force, servers, mine, inbox, cache>>

Stores == {"heap", "lake"}

NoDuck == [active |-> FALSE, wrote |-> FALSE]

(* No DuckDB instance: before the first use and after recycle_ddb().       *)
NoInstance == [db |-> "none", valid |-> FALSE, loaded |-> {}, raced |-> FALSE]

(* inlining_info_cache (0: no entry) and inlined_col_types_cache, keyed by *)
(* the schema version (0: no entry).                                       *)
EmptyCache == [info |-> 0, types |-> [v \in 1 .. MaxVersion |-> 0]]

ResetDirectInsertCaches == EmptyCache

SessionTypeOK ==
  /\ block \in {"none", "statement", "open", "failed"}
  /\ sub \in BOOLEAN
  /\ pending \in SUBSET Stores /\ inner \in SUBSET Stores
  /\ published \in SUBSET Stores
  /\ duck \in [active : BOOLEAN, wrote : BOOLEAN]
  /\ mgr \in [db : {"none", "bare", "attached"}, valid : BOOLEAN,
              loaded : SUBSET Servers, raced : BOOLEAN]
  /\ allow \in BOOLEAN /\ force \in BOOLEAN /\ inbox \in BOOLEAN
  /\ servers \in SUBSET Servers /\ mine \in SUBSET Servers
  /\ cache \in [info : 0 .. MaxVersion,
                types : [1 .. MaxVersion -> 0 .. MaxVersion]]
  /\ block = "none" => ~sub /\ pending = {} /\ inner = {} /\ mine = {}
  /\ ~sub => inner = {}
  /\ duck.wrote => duck.active

SessionInit ==
  /\ block = "none" /\ sub = FALSE
  /\ pending = {} /\ inner = {} /\ published = {}
  /\ duck = NoDuck
  /\ mgr = NoInstance
  /\ allow = FALSE /\ force = FALSE /\ inbox = FALSE
  /\ servers = {} /\ mine = {}
  /\ cache = EmptyCache

Running == block \in {"statement", "open"}

(***************************************************************************)
(* Ends and errors of PostgreSQL transactions.                             *)
(***************************************************************************)

(* Mutant: an abort leaves an open gate open.                              *)
GateAfterAbortKept(g) == g

(* DuckLakeXactCallback on ABORT closes the gate, whatever g left it.      *)
GateAfterAbort(g) == FALSE

(* DuckLakeXactCallback on ABORT: the DuckDB transaction is rolled back.   *)
DuckAfterAbort(d) == NoDuck

(* InvalidateSecretsIfInitialized, the callback on SERVERs and USER        *)
(* MAPPINGs: only an instance that exists has anything to invalidate.      *)
InvalidateSecrets(m) == IF m.db = "none" THEN m ELSE [m EXCEPT !.valid = FALSE]

(* What an error finds: the manager, the caches, the gate and the DuckDB   *)
(* transaction at that moment.                                             *)
Now == [mgr |-> mgr, cache |-> cache, gate |-> allow, duck |-> duck]

(* AbortTransaction: the block is over or stays behind as failed.  The     *)
(* aborted transaction's own invalidations are applied again.              *)
AbortTransaction(after, e) ==
  /\ allow' = GateAfterAbort(e.gate)
  /\ duck' = DuckAfterAbort(e.duck)
  /\ cache' = IF e.duck.active THEN ResetDirectInsertCaches ELSE e.cache
  /\ mgr' = IF mine # {} THEN InvalidateSecrets(e.mgr) ELSE e.mgr
  /\ block' = after
  /\ sub' = FALSE
  /\ pending' = {} /\ inner' = {} /\ mine' = {}
  /\ published' = IF after = "none" THEN {} ELSE published
  /\ UNCHANGED servers

(* An error after a savepoint only aborts the subtransaction, of which     *)
(* DuckLakeXactCallback hears nothing: an EXCEPTION block catches it, a    *)
(* transaction block waits for ROLLBACK TO.                                *)
AbortSubTransaction(e) ==
  /\ inner' = {}
  /\ sub' = (block # "statement")
  /\ block' = IF block = "statement" THEN block ELSE "failed"
  /\ mgr' = e.mgr /\ cache' = e.cache /\ allow' = e.gate /\ duck' = e.duck
  /\ UNCHANGED <<pending, published, servers, mine>>

(* An error outside any savepoint.                                         *)
FailsOutside(e) ==
  AbortTransaction(IF block = "open" THEN "failed" ELSE "none", e)

Fails(e) == IF sub THEN AbortSubTransaction(e) ELSE FailsOutside(e)

Begin ==
  /\ block = "none"
  /\ \E b \in {"statement", "open"} : block' = b
  /\ UNCHANGED <<sub, pending, inner, published, duck, mgr, allow, force,
                 servers, mine, inbox, cache>>

(* Any write of PostgreSQL's own executor.                                 *)
HeapWrite ==
  /\ Running
  /\ IF sub THEN inner' = inner \cup {"heap"} /\ UNCHANGED pending
            ELSE pending' = pending \cup {"heap"} /\ UNCHANGED inner
  /\ UNCHANGED <<block, sub, published, duck, mgr, allow, force, servers,
                 mine, inbox, cache>>

(* A statement fails for a reason of its own.                              *)
StatementFails ==
  /\ Running
  /\ Fails(Now)
  /\ UNCHANGED <<force, inbox>>

(***************************************************************************)
(* Savepoints.                                                             *)
(***************************************************************************)

(* Mutant: the guard does not look at the DuckDB transaction.              *)
SavepointAllowedAlways == TRUE

(* DuckLakeSubXactCallback on START_SUB.                                   *)
SavepointAllowed == ~duck.active \/ allow

(* SAVEPOINT, or the start of an EXCEPTION block.  An error in the         *)
(* callback aborts the whole block: the subtransaction never began.        *)
Savepoint ==
  /\ Running /\ ~sub
  /\ IF SavepointAllowed
       THEN /\ sub' = TRUE
            /\ UNCHANGED <<block, pending, inner, published, duck, mgr,
                           allow, servers, mine, cache>>
       ELSE FailsOutside(Now)
  /\ UNCHANGED <<force, inbox>>

ReleaseSavepoint ==
  /\ Running /\ sub
  /\ sub' = FALSE
  /\ pending' = pending \cup inner /\ inner' = {}
  /\ UNCHANGED <<block, published, duck, mgr, allow, force, servers, mine,
                 inbox, cache>>

(* ROLLBACK TO SAVEPOINT, out of a failed subtransaction or a good one.    *)
RollbackToSavepoint ==
  /\ block \in {"open", "failed"} /\ sub
  /\ block' = "open"
  /\ inner' = {}
  /\ UNCHANGED <<sub, pending, published, duck, mgr, allow, force, servers,
                 mine, inbox, cache>>

(***************************************************************************)
(* The DuckDB instance and its connection.                                 *)
(***************************************************************************)

(* ShouldBeginTransaction: IsInTransactionBlock, or f: the query planned   *)
(* last calls a DuckLake-only function (force_scan_transaction).           *)
ShouldBeginTransaction(f) == block \in {"open", "failed"} \/ f

(* GetConnection joins a DuckDB transaction anywhere but opens none in a   *)
(* subtransaction.                                                         *)
ConnectionAllowed == duck.active \/ ~sub

(* GetConnection: the transaction the next query runs in.                  *)
Opened(f) ==
  IF ~duck.active /\ ShouldBeginTransaction(f)
    THEN [active |-> TRUE, wrote |-> FALSE]
    ELSE duck

(* Mutant: messages about servers are ignored.                             *)
AcceptedNever(m) == m

(* Messages are accepted before a query takes its first lock.              *)
Accepted(m) == IF inbox THEN InvalidateSecrets(m) ELSE m

(* RefreshConnectionState: unless they are valid, the secrets are dropped  *)
(* and created again from what the catalog shows.  late: another backend   *)
(* commits a change after the load has listed the servers; its message is  *)
(* accepted during the load and the flag is set over it.                   *)
RefreshConnectionState(m, seen, late) ==
  IF m.valid THEN m
             ELSE [m EXCEPT !.valid = TRUE, !.loaded = seen, !.raced = late]

(* The secrets were dropped, and then one could not be created.            *)
RefreshFailed(m) == [m EXCEPT !.loaded = {}]

(* Initialize up to OnPostInit's attach: an instance without the catalog.  *)
Bare == [NoInstance EXCEPT !.db = "bare"]

(* Get: the instance a query finds, if it had to be built and the attach   *)
(* succeeded.                                                              *)
Got == IF mgr.db = "none" THEN [Bare EXCEPT !.db = "attached"]
                          ELSE Accepted(mgr)

(* OnPostInit clears the caches.                                           *)
GotCache == IF mgr.db = "none" THEN ResetDirectInsertCaches ELSE cache

(* OnPostInit fails: ducklake_attach_catalog asks for a connection, which  *)
(* a subtransaction refuses, or the ATTACH itself fails.  The instance     *)
(* stays.                                                                  *)
AttachFails ==
  /\ Running /\ mgr.db = "none"
  /\ Fails([Now EXCEPT !.mgr = Bare, !.cache = ResetDirectInsertCaches])
  /\ inbox' = FALSE
  /\ UNCHANGED force

(* GetConnection throws in a subtransaction.                               *)
ConnectionRefused ==
  /\ Running /\ mgr.db # "none"
  /\ ~ConnectionAllowed
  /\ AbortSubTransaction([Now EXCEPT !.mgr = Accepted(mgr)])
  /\ inbox' = FALSE
  /\ UNCHANGED force

(* A committed change of another backend, with its message.                *)
Toggled == {s \in SUBSET Servers :
              Cardinality((s \ servers) \cup (servers \ s)) = 1}

(* What a query does after it has its connection: the manager m, the       *)
(* caches c, the DuckDB transaction d.  In a DuckDB transaction a write    *)
(* waits for its end; otherwise DuckDB commits the statement at once and   *)
(* the flush writes the metadata (SPIExecuteInSubtransaction opens the     *)
(* gate and closes it).                                                    *)
QuerySucceeds(write, m, c, d) ==
  /\ mgr' = m /\ cache' = c
  /\ duck' = IF d.active /\ write THEN [d EXCEPT !.wrote = TRUE] ELSE d
  /\ pending' = IF write /\ ~d.active THEN pending \cup {"lake"} ELSE pending
  /\ allow' = FALSE
  /\ UNCHANGED <<block, sub, inner, published, mine>>

(* A query on DuckLake tables.  planned: it calls a DuckLake-only function *)
(* (the planner hook notes it before anything else).  It may fail in       *)
(* DuckDB, with the metadata gate open or not; in an instance without the  *)
(* catalog it always fails.                                                *)
DuckQuery ==
  /\ Running /\ ConnectionAllowed
  /\ force' \in BOOLEAN
  /\ inbox' = FALSE
  /\ LET d == Opened(force')
         seen == servers \cup mine
     IN \/ /\ mgr.db # "bare"
           /\ \E write \in BOOLEAN :
                QuerySucceeds(write, RefreshConnectionState(Got, seen, FALSE),
                              GotCache, d)
           /\ UNCHANGED servers
        \/ /\ mgr.db # "bare" /\ ~Got.valid
           /\ servers' \in Toggled
           /\ QuerySucceeds(FALSE, RefreshConnectionState(Got, seen, TRUE),
                            GotCache, d)
        \/ \E g \in BOOLEAN :
             FailsOutside([mgr |-> RefreshConnectionState(Got, seen, FALSE),
                           cache |-> GotCache, gate |-> g, duck |-> d])
        \/ /\ ~Got.valid
           /\ FailsOutside([mgr |-> RefreshFailed(Got), cache |-> GotCache,
                            gate |-> FALSE, duck |-> d])

(* A query of PostgreSQL alone is planned: the flag is cleared.            *)
PlanPlainQuery ==
  /\ Running /\ force
  /\ force' = FALSE
  /\ UNCHANGED <<block, sub, pending, inner, published, duck, mgr, allow,
                 servers, mine, inbox, cache>>

(* ducklake.recycle_ddb(), as a statement of its own: refused in a block.  *)
Recycle ==
  /\ block = "none" /\ mgr.db # "none"
  /\ mgr' = NoInstance
  /\ duck' = NoDuck
  /\ published' = {}
  /\ UNCHANGED <<block, sub, pending, inner, allow, force, servers, mine,
                 inbox, cache>>

(***************************************************************************)
(* COMMIT and ROLLBACK.                                                    *)
(***************************************************************************)

(* The PostgreSQL commit, with everything the transaction wrote.           *)
Publish(written, m, d, c) ==
  /\ published' = written
  /\ block' = "none" /\ sub' = FALSE
  /\ pending' = {} /\ inner' = {}
  /\ servers' = servers \cup mine /\ mine' = {}
  /\ mgr' = m /\ duck' = d /\ cache' = c
  /\ allow' = FALSE

(* What the transaction wrote once d's writes are flushed.                 *)
Flushed(d) == pending \cup inner \cup (IF d.wrote THEN {"lake"} ELSE {})

(* Mutant: PRE_COMMIT forgets the DuckDB transaction.                      *)
PreCommitNothing(m) == Publish(pending \cup inner, m, NoDuck, cache)

(* DuckLakeXactCallback on PRE_COMMIT commits the DuckDB transaction, if   *)
(* there is one, and drops the caches with it.                             *)
PreCommit(m) ==
  Publish(Flushed(duck), m, NoDuck,
          IF duck.active THEN ResetDirectInsertCaches ELSE cache)

(* The end of a statement's transaction.  The flush may meet a conflict it *)
(* cannot retry, and PostgreSQL may fail after the callback.               *)
FinishStatement ==
  /\ block = "statement" /\ ~sub
  /\ \/ PreCommit(mgr)
     \/ AbortTransaction("none", [Now EXCEPT !.duck = NoDuck])
     \/ /\ duck.active
        /\ AbortTransaction("none", [Now EXCEPT !.duck = NoDuck,
                                    !.cache = ResetDirectInsertCaches])
  /\ UNCHANGED <<force, inbox>>

(* ForceDuckDBCommitOnExplicitCommit: DuckDB's own COMMIT, in the          *)
(* transaction GetConnection finds or opens.                               *)
HookFlush(d) == Flushed(d)

(* COMMIT of a good block.  Without an instance there is no hook.  With    *)
(* one, the hook's connection is refused after a savepoint if no DuckDB    *)
(* transaction is open, and its flush may meet a conflict: either error    *)
(* leaves the block failed.  PRE_COMMIT then finds nothing left to commit, *)
(* so the caches stay.  PostgreSQL may still fail afterwards.              *)
CommitBlock ==
  /\ block = "open"
  /\ LET m == Accepted(mgr)
         fresh == RefreshConnectionState(m, servers \cup mine, FALSE)
         hook == mgr.db # "none"
     IN \/ /\ ~hook
           /\ PreCommit(mgr)
        \/ /\ hook /\ ConnectionAllowed
           /\ Publish(HookFlush(Opened(force)), fresh, NoDuck, cache)
        \/ /\ hook /\ ~ConnectionAllowed
           /\ AbortSubTransaction([Now EXCEPT !.mgr = m])
        \/ /\ hook /\ ConnectionAllowed
           /\ \/ AbortTransaction("failed", [Now EXCEPT !.mgr = fresh])
              \/ /\ ~m.valid
                 /\ AbortTransaction("failed",
                                     [Now EXCEPT !.mgr = RefreshFailed(m)])
        \/ /\ hook => ConnectionAllowed
           /\ AbortTransaction("none",
                [Now EXCEPT !.duck = NoDuck,
                            !.mgr = IF hook THEN fresh ELSE mgr])
  /\ inbox' = (inbox /\ mgr.db = "none")
  /\ UNCHANGED force

(* COMMIT of a block that has failed.  The hook runs all the same: after a *)
(* savepoint its connection is refused and the block remains as it was;    *)
(* otherwise an empty DuckDB transaction comes and goes.  Loading secrets  *)
(* without a transaction may fail, and then that transaction stays open.   *)
CommitFailedBlock ==
  /\ block = "failed"
  /\ \/ /\ mgr.db = "none"
        /\ AbortTransaction("none", Now)
        /\ UNCHANGED inbox
     \/ /\ mgr.db # "none" /\ ConnectionAllowed
        /\ block' = "none" /\ published' = {}
        /\ mgr' = RefreshConnectionState(Accepted(mgr), servers, FALSE)
        /\ duck' = NoDuck
        /\ inbox' = FALSE
        /\ UNCHANGED <<sub, pending, inner, allow, servers, mine, cache>>
     \/ /\ mgr.db # "none" /\ ConnectionAllowed /\ ~Accepted(mgr).valid
        /\ mgr' = RefreshFailed(Accepted(mgr))
        /\ duck' = Opened(force)
        /\ inbox' = FALSE
        /\ UNCHANGED <<block, sub, pending, inner, published, allow,
                       servers, mine, cache>>
  /\ UNCHANGED force

(* ROLLBACK (and PREPARE TRANSACTION, while max_prepared_transactions is   *)
(* 0).  A block that failed outside a savepoint has aborted already: no    *)
(* callback runs.                                                          *)
Rollback ==
  /\ \/ /\ block = "open" \/ (block = "failed" /\ sub)
        /\ AbortTransaction("none", Now)
     \/ /\ block = "failed" /\ ~sub
        /\ block' = "none" /\ published' = {}
        /\ UNCHANGED <<sub, pending, inner, duck, mgr, allow,
                       servers, mine, cache>>
  /\ UNCHANGED <<force, inbox>>

(***************************************************************************)
(* Secret servers.                                                         *)
(***************************************************************************)

(* Another backend commits a change of a server or a user mapping.         *)
OtherChangesServers ==
  /\ servers' \in Toggled
  /\ inbox' = TRUE
  /\ UNCHANGED <<block, sub, pending, inner, published, duck, mgr, allow,
                 force, mine, cache>>

(* This transaction creates one, outside any savepoint.                    *)
CreateServer ==
  /\ Running /\ ~sub
  /\ \E s \in Servers \ (servers \cup mine) : mine' = mine \cup {s}
  /\ mgr' = InvalidateSecrets(mgr)
  /\ UNCHANGED <<block, sub, pending, inner, published, duck, allow, force,
                 servers, inbox, cache>>

SessionNext ==
  \/ Begin \/ HeapWrite \/ StatementFails
  \/ Savepoint \/ ReleaseSavepoint \/ RollbackToSavepoint
  \/ AttachFails \/ ConnectionRefused \/ DuckQuery \/ PlanPlainQuery
  \/ Recycle
  \/ FinishStatement \/ CommitBlock \/ CommitFailedBlock \/ Rollback
  \/ OtherChangesServers \/ CreateServer

SessionSpec == SessionInit /\ [][SessionNext]_sessionVars

-----------------------------------------------------------------------------
(***************************************************************************)
(* Properties.                                                             *)
(***************************************************************************)

Pg == INSTANCE PgTransaction
        WITH outer <- pending \cup (IF duck.wrote THEN {"lake"} ELSE {}),
             doomed <- block = "failed" /\ ~sub

(* The session implements PgTransaction: whatever order of queries,        *)
(* savepoints, errors, hooks and callbacks, DuckLake writes and heap       *)
(* writes of one transaction become published together or not at all, though *)
(* the first wait in DuckDB and are flushed by one of three paths (DuckDB's *)
(* autocommit, the COMMIT hook, DuckLakeXactCallback on PRE_COMMIT).       *)
Atomicity == Pg!ASpec

(* DuckDB never holds a transaction across a savepoint: its writes could   *)
(* not be taken back by ROLLBACK TO (GetConnection, DuckLakeSubXact-       *)
(* Callback and the gate between them).                                    *)
NoDuckdbAcrossSavepoints == ~(sub /\ duck.active)

(* A DuckDB transaction that outlives its PostgreSQL transaction, as it    *)
(* may when a failed block's COMMIT cannot reload the secrets, holds no    *)
(* writes; and the gate that lets subtransactions pass is shut whenever    *)
(* the user's next command runs.                                           *)
NothingIsCarriedOver ==
  /\ ~Running => ~duck.wrote
  /\ ~allow

(* The secrets DuckDB works with are those of the catalog, uncommitted     *)
(* changes of this transaction included, unless the invalidation flag is   *)
(* down, a message is under way, or a change raced the load.               *)
SecretsAreCurrent ==
  mgr.valid /\ ~inbox /\ ~mgr.raced => mgr.loaded = servers \cup mine
=============================================================================
