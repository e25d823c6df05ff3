--------------------------- MODULE MaintenanceWorker ---------------------------
(***************************************************************************)
(* The background maintenance of pg_ducklake                               *)
(* (pg_ducklake/src/maintenance_worker.cpp): a launcher that wakes up      *)
(* every maintenance_naptime and starts a worker for each database, and    *)
(* workers that run the maintenance pipeline of one database, one          *)
(* transaction for each operation.                                         *)
(*                                                                         *)
(* Slots in shared memory keep a database from having two workers and      *)
(* count the workers against maintenance_max_workers.  The launcher claims *)
(* the slot before the worker exists; the worker releases it with the last *)
(* statement of its main function.                                         *)
(*                                                                         *)
(* What an operation does to the catalog is DuckLake's (external).  Here   *)
(* every operation writes through SPI at least twice: a flush, say,        *)
(* deletes the inlined rows before it adds the data file that holds them.  *)
(* maintenance_enabled is on; while it is off the launcher only naps.      *)
(***************************************************************************)
EXTENDS Integers, Sequences, FiniteSets

CONSTANTS
  DatabaseOrder,  \* the databases, in the order of the scan of pg_database
  Installed,      \* the databases with the extension
  MaxWorkers,     \* maintenance_max_workers
  TotalSlots,     \* DUCKLAKE_MAX_MAINTENANCE_WORKERS
  MaxTables       \* bound: DuckLake tables of a database

Databases == {DatabaseOrder[i] : i \in DOMAIN DatabaseOrder}

ASSUME MaintenanceConstants ==
  /\ DatabaseOrder \in Seq(Databases)
  /\ Installed \subseteq Databases
  /\ MaxWorkers \in Nat \ {0}
  /\ TotalSlots \in Nat \ {0}
  /\ MaxTables \in Nat

VARIABLES
  slots,     \* the database of each slot that is in use
  scan,      \* the databases the launcher has yet to look at
  claimed,   \* its slot for the first of them, before it registers a worker
  pc,        \* where the worker of each database is
  tables,    \* ntables: how many tables it found
  task,      \* the operation of the pipeline it is at
  tx,        \* what its transaction has written: nothing, half, all
  torn,      \* history: the operations that were committed by half
  killed     \* history: the databases whose worker was terminated

launcherVars == <<scan, claimed>>
workerVars == <<pc, tables, task, tx, torn>>
vars == <<slots, launcherVars, workerVars, killed>>

Extent == {"nothing", "half", "all"}

(* The pipeline for n tables: flush each, expire, compact each, clean up.  *)
Kinds == {"flush", "expire", "compact", "cleanup"}

Pipeline(n) ==
  [i \in 1 .. 2 * n + 2 |->
     CASE i <= n -> "flush"
       [] i = n + 1 -> "expire"
       [] n + 1 < i /\ i < 2 * n + 2 -> "compact"
       [] i = 2 * n + 2 -> "cleanup"]

-----------------------------------------------------------------------------
(* The slot helpers.                                                       *)

HasWorkerForDatabase(db) == \E i \in DOMAIN slots : slots[i] = db

CountActiveWorkers == Cardinality(DOMAIN slots)

FreeSlots == (1 .. TotalSlots) \ DOMAIN slots

ClaimSlot(db) ==
  LET i == CHOOSE j \in FreeSlots : \A k \in FreeSlots : j <= k
  IN slots' = [j \in DOMAIN slots \cup {i} |-> IF j = i THEN db ELSE slots[j]]

(* The first slot of the database.                                         *)
ReleaseSlot(db) ==
  LET K == {i \in DOMAIN slots : slots[i] = db}
      i == CHOOSE j \in K : \A k \in K : j <= k
  IN slots' = IF K = {} THEN slots ELSE [j \in DOMAIN slots \ {i} |-> slots[j]]

-----------------------------------------------------------------------------

Init ==
  /\ slots = <<>>
  /\ scan = <<>>
  /\ claimed = FALSE
  /\ pc = [db \in Databases |-> "none"]
  /\ tables = [db \in Databases |-> 0]
  /\ task = [db \in Databases |-> 0]
  /\ tx = [db \in Databases |-> "nothing"]
  /\ torn = [db \in Databases |-> {}]
  /\ killed = {}

(* After its nap the launcher reads pg_database.                           *)
Wake ==
  /\ scan = <<>>
  /\ scan' = DatabaseOrder
  /\ UNCHANGED <<slots, claimed, workerVars, killed>>

(* Mutant: a database that has a worker is given another one.              *)
MayLaunchAgain(db) == CountActiveWorkers < MaxWorkers /\ FreeSlots # {}

(* The critical section in front of the registration of a worker.          *)
MayLaunch(db) ==
  /\ ~HasWorkerForDatabase(db)
  /\ CountActiveWorkers < MaxWorkers
  /\ FreeSlots # {}

LaunchWorker ==
  /\ scan # <<>> /\ ~claimed
  /\ IF MayLaunch(Head(scan))
       THEN ClaimSlot(Head(scan)) /\ claimed' = TRUE /\ UNCHANGED scan
       ELSE scan' = Tail(scan) /\ UNCHANGED <<slots, claimed>>
  /\ UNCHANGED <<workerVars, killed>>

RegisterWorker ==
  /\ claimed
  /\ pc' = [pc EXCEPT ![Head(scan)] = "registered"]
  /\ claimed' = FALSE
  /\ scan' = Tail(scan)
  /\ UNCHANGED <<slots, tables, task, tx, torn, killed>>

(* Mutant: the slot of a worker that cannot be registered is kept.         *)
RegistrationFailsKeepsSlot ==
  /\ claimed
  /\ claimed' = FALSE
  /\ scan' = Tail(scan)
  /\ UNCHANGED <<slots, workerVars, killed>>

(* max_worker_processes are in use: the slot is given back.                *)
RegistrationFails ==
  /\ claimed
  /\ ReleaseSlot(Head(scan))
  /\ claimed' = FALSE
  /\ scan' = Tail(scan)
  /\ UNCHANGED <<workerVars, killed>>

-----------------------------------------------------------------------------

(* The worker connects and looks for the extension and the tables.         *)
StartWorker(db) ==
  /\ pc[db] = "registered"
  /\ IF db \in Installed
       THEN \E n \in 0 .. MaxTables :
              /\ pc' = [pc EXCEPT ![db] = "working"]
              /\ tables' = [tables EXCEPT ![db] = n]
              /\ task' = [task EXCEPT ![db] = 1]
       ELSE /\ pc' = [pc EXCEPT ![db] = "cleanup"]
            /\ UNCHANGED <<tables, task>>
  /\ UNCHANGED <<slots, launcherVars, tx, torn, killed>>

Task(db) == Pipeline(tables[db])[task[db]]

(* The writes of an operation, in its transaction.                         *)
WriteMetadata(db) ==
  /\ pc[db] = "working"
  /\ tx[db] # "all"
  /\ tx' = [tx EXCEPT ![db] = IF @ = "nothing" THEN "half" ELSE "all"]
  /\ UNCHANGED <<slots, launcherVars, pc, tables, task, torn, killed>>

(* The next operation, or the end of the pipeline.                         *)
NextTask(db) ==
  LET last == task[db] = Len(Pipeline(tables[db]))
  IN /\ pc' = [pc EXCEPT ![db] = IF last THEN "cleanup" ELSE @]
     /\ task' = [task EXCEPT ![db] = IF last THEN 0 ELSE @ + 1]
     /\ tables' = [tables EXCEPT ![db] = IF last THEN 0 ELSE @]
     /\ tx' = [tx EXCEPT ![db] = "nothing"]

CommitTransactionCommand(db) ==
  torn' = [torn EXCEPT ![db] = IF tx[db] = "half" THEN @ \cup {Task(db)} ELSE @]

(* The helper returned true: it has written everything, or nothing because *)
(* its operation is switched off or finds nothing to do.                   *)
CommitTask(db) ==
  /\ pc[db] = "working"
  /\ tx[db] # "half"
  /\ CommitTransactionCommand(db)
  /\ NextTask(db)
  /\ UNCHANGED <<slots, launcherVars, killed>>

(* Mutant: the transaction of a failed operation is committed.             *)
FailTaskCommits(db) ==
  /\ pc[db] = "working"
  /\ CommitTransactionCommand(db)
  /\ NextTask(db)
  /\ UNCHANGED <<slots, launcherVars, killed>>

(* The helper returned false, or PostgreSQL raised an error that PG_CATCH  *)
(* has aborted.  Either way nothing is committed.                          *)
FailTask(db) ==
  /\ pc[db] = "working"
  /\ NextTask(db)
  /\ UNCHANGED <<slots, launcherVars, torn, killed>>

FinishWorker(db) ==
  /\ pc[db] = "cleanup"
  /\ ReleaseSlot(db)
  /\ pc' = [pc EXCEPT ![db] = "none"]
  /\ UNCHANGED <<launcherVars, tables, task, tx, torn, killed>>

(* SIGTERM, a FATAL error when the worker connects, or an error outside of *)
(* the PG_TRY blocks (when a transaction commits, say): the process exits, *)
(* its transaction is aborted, and the statement that releases its slot is *)
(* not reached.                                                            *)
Terminate(db) ==
  /\ pc[db] \in {"registered", "working"}
  /\ killed' = killed \cup {db}
  /\ pc' = [pc EXCEPT ![db] = "none"]
  /\ tables' = [tables EXCEPT ![db] = 0]
  /\ task' = [task EXCEPT ![db] = 0]
  /\ tx' = [tx EXCEPT ![db] = "nothing"]
  /\ UNCHANGED <<slots, launcherVars, torn>>

LauncherStep == Wake \/ LaunchWorker \/ RegisterWorker \/ RegistrationFails

WorkerStep(db) ==
  \/ StartWorker(db)
  \/ WriteMetadata(db)
  \/ CommitTask(db)
  \/ FailTask(db)
  \/ FinishWorker(db)

Next ==
  \/ LauncherStep
  \/ \E db \in Databases : WorkerStep(db) \/ Terminate(db)

Spec == Init /\ [][Next]_vars

(* The launcher and the workers are running processes, and PostgreSQL has  *)
(* room for another worker again and again.                                *)
Fairness ==
  /\ WF_vars(LauncherStep)
  /\ \A db \in Databases :
       /\ WF_vars(WorkerStep(db))
       /\ SF_vars(RegisterWorker /\ Head(scan) = db)

FairSpec == Spec /\ Fairness

-----------------------------------------------------------------------------

TypeOK ==
  /\ DOMAIN slots \subseteq 1 .. TotalSlots
  /\ slots \in [DOMAIN slots -> Databases]
  /\ scan \in Seq(Databases)
  /\ claimed \in BOOLEAN
  /\ claimed => scan # <<>>
  /\ pc \in [Databases -> {"none", "registered", "working", "cleanup"}]
  /\ tables \in [Databases -> 0 .. MaxTables]
  /\ task \in [Databases -> 0 .. 2 * MaxTables + 2]
  /\ tx \in [Databases -> Extent]
  /\ torn \in [Databases -> SUBSET Kinds]
  /\ killed \subseteq Databases

(* No maintenance operation is committed by half, whichever of its queries *)
(* fails and whenever the worker is terminated.                            *)
OperationsAreWhole == \A db \in Databases : torn[db] = {}

(* A worker that exists, or is about to be registered, owns a slot, and no *)
(* two slots are of the same database.  So no database has two workers,    *)
(* the slots count at least the workers there are, and ReleaseSlot, which  *)
(* is given a database, never releases the slot of another worker.         *)
WorkersOwnSlots ==
  /\ \A db \in Databases : pc[db] # "none" => HasWorkerForDatabase(db)
  /\ claimed => HasWorkerForDatabase(Head(scan)) /\ pc[Head(scan)] = "none"
  /\ \A i, j \in DOMAIN slots : slots[i] = slots[j] => i = j

(* With a slot for every database, each one with the extension whose       *)
(* worker is never terminated is maintained again and again, whatever      *)
(* happens to the workers of the others and to the registrations: the slot *)
(* is always released, and claimed again by a later scan.                  *)
UndisturbedDatabasesMaintained ==
  \A db \in Installed : []<>(pc[db] = "cleanup") \/ <>(db \in killed)

=============================================================================
