--------------------------- MODULE MotherDuckSync ---------------------------
(***************************************************************************)
(* The MotherDuck catalog sync of pg_duckdb, for one Postgres database:    *)
(* the sync of the background worker, which mirrors the MotherDuck catalog *)
(* as Postgres shell relations, the same sync run by                       *)
(* duckdb.force_motherduck_sync() in an ordinary backend, and the event    *)
(* triggers that register relations in duckdb.tables and forward user DDL  *)
(* to MotherDuck.  The worker's life cycle is MotherDuckWorker's; here an  *)
(* error or a signal replaces it by a worker that knows nothing.           *)
(*                                                                         *)
(* catalog[v] is the set of relations MotherDuck holds at catalog version  *)
(* v.  A process sees the version its DuckDB instance has fetched, which   *)
(* lags.  A Postgres relation is absent, a relation of the user, or a      *)
(* shell registered in duckdb.tables with the motherduck_catalog_version   *)
(* of the sync that made it (0 is NULL: made by a user's CREATE).          *)
(* One MotherDuck database with one schema; every Postgres transaction of  *)
(* a sync is one step.  MotherDuck stays enabled.                          *)
(***************************************************************************)
EXTENDS Naturals, Sequences, SequencesExt, FiniteSets

CONSTANTS
    Worker,       \* the background worker
    Backends,     \* ordinary sessions
    Tables,       \* names of MotherDuck tables
    Views,        \* names of MotherDuck views
    MaxVersion,   \* bound on the catalog versions
    MaxFailures   \* bound on the errors and signals that end a sync

ASSUME SyncConstants ==
    Worker \notin Backends /\ MaxVersion \in Nat \ {0} /\ MaxFailures \in Nat

Relations == Tables \cup Views
Processes == {Worker} \cup Backends

VARIABLES
    catalog,        \* MotherDuck's relations at each catalog version
    schema,         \* the Postgres schema: absent, denied or granted (CREATE)
    is_default_db,  \* the MotherDuck database is the default database
    relations,      \* the Postgres relations
    proc,           \* sync variables of each process
    failures

vars == <<catalog, schema, is_default_db, relations, proc, failures>>

Absent == [kind |-> "absent", version |-> 0]
User == [kind |-> "user", version |-> 0]
Shell(version) == [kind |-> "shell", version |-> version]

(* local: version of the catalog this process has fetched; last_known:     *)
(* last_known_motherduck_catalog_versions; version:                        *)
(* current_motherduck_catalog_version; view: the relations its DuckDB      *)
(* transaction sees; ok: all_tables_synced_successfully; doing:            *)
(* doing_motherduck_sync.  skipped and disturbed are history: the schema   *)
(* was passed over without clearing ok, and another process wrote shells   *)
(* during this sync.                                                       *)
Idle == [phase |-> "idle", local |-> 1, last_known |-> 0,
         version |-> 0, view |-> {}, todo |-> {}, ok |-> TRUE,
         doing |-> FALSE, skipped |-> FALSE, disturbed |-> FALSE]

(* BgwMainLoop sets doing_motherduck_sync for good.                        *)
Started == [Idle EXCEPT !.doing = TRUE]

Init ==
    /\ catalog \in {<<s>> : s \in SUBSET Relations}
    /\ is_default_db \in BOOLEAN
    /\ schema \in IF is_default_db THEN {"denied", "granted"} ELSE {"absent"}
    /\ relations = [r \in Relations |-> Absent]
    /\ proc = [p \in Processes |-> IF p = Worker THEN Started ELSE Idle]
    /\ failures = 0

---------------------------------------------------------------------------
(* MotherDuck itself (external): the catalog changes, and the DuckDB       *)
(* instance of a process fetches the change some time later.               *)

Upstream == Last(catalog)

Toggle(r) == IF r \in Upstream THEN Upstream \ {r} ELSE Upstream \cup {r}

CatalogChanges(r) ==
    /\ Len(catalog) < MaxVersion
    /\ catalog' = Append(catalog, Toggle(r))
    /\ UNCHANGED <<schema, is_default_db, relations, proc, failures>>

Fetch(p) ==
    /\ proc[p].local < Len(catalog)
    /\ proc' = [proc EXCEPT ![p].local = Len(catalog)]
    /\ UNCHANGED <<catalog, schema, is_default_db, relations, failures>>

---------------------------------------------------------------------------
(* The event triggers.                                                     *)

(* Mutant: DDL is forwarded whatever the process is doing.                 *)
ForwardsAlways(p) == TRUE

(* DDL of process p on a shell relation is sent on to MotherDuck.          *)
Forwards(p) == ~proc[p].doing

(* What dropping the shells rs in process p makes of MotherDuck's catalog. *)
DropForwarded(p, rs) ==
    IF Forwards(p) /\ rs \cap Upstream # {} THEN Append(catalog, Upstream \ rs) ELSE catalog

(* The duckdb.tables row of a shell that process p creates.                *)
RegisteredVersion(p) == IF proc[p].doing THEN proc[p].version ELSE 0

(* Every other sync in progress: its shells are written under its feet.    *)
Disturb(ps) ==
    [q \in Processes |-> IF q \notin ps /\ proc[q].phase # "idle"
                         THEN [proc[q] EXCEPT !.disturbed = TRUE] ELSE proc[q]]

---------------------------------------------------------------------------
(* Sessions.                                                               *)

(* CREATE TABLE ... USING duckdb, or CREATE VIEW over a MotherDuck         *)
(* relation.  DuckDB commits first; Postgres may then fail to.             *)
UserCreatesShell(b, r) ==
    /\ proc[b].phase = "idle" /\ schema # "absent"
    /\ relations[r] = Absent
    /\ Forwards(b) => r \notin Upstream /\ Len(catalog) < MaxVersion
    /\ catalog' = IF Forwards(b) THEN Append(catalog, Upstream \cup {r}) ELSE catalog
    /\ \/ relations' = [relations EXCEPT ![r] = Shell(RegisteredVersion(b))]
       \/ UNCHANGED relations
    /\ proc' = Disturb({b})
    /\ UNCHANGED <<schema, is_default_db, failures>>

(* DROP of a shell: forwarded to MotherDuck, after which Postgres may      *)
(* fail to commit.                                                         *)
UserDropsShell(b, r) ==
    /\ proc[b].phase = "idle"
    /\ relations[r].kind = "shell"
    /\ Len(catalog) < MaxVersion
    /\ catalog' = DropForwarded(b, {r})
    /\ \/ relations' = [relations EXCEPT ![r] = Absent]
       \/ UNCHANGED relations
    /\ proc' = Disturb({b})
    /\ UNCHANGED <<schema, is_default_db, failures>>

(* A relation of Postgres's own comes or goes under one of the names.      *)
UserCreates(r) ==
    /\ schema # "absent" /\ relations[r] = Absent
    /\ relations' = [relations EXCEPT ![r] = User]
    /\ UNCHANGED <<catalog, schema, is_default_db, proc, failures>>

UserDrops(r) ==
    /\ relations[r] = User
    /\ relations' = [relations EXCEPT ![r] = Absent]
    /\ UNCHANGED <<catalog, schema, is_default_db, proc, failures>>

(* GRANT or REVOKE CREATE ON SCHEMA for the MotherDuck role.               *)
ChangeGrant ==
    /\ schema # "absent"
    /\ schema' = IF schema = "denied" THEN "granted" ELSE "denied"
    /\ UNCHANGED <<catalog, is_default_db, relations, proc, failures>>

---------------------------------------------------------------------------
(* The sync.                                                               *)

(* A sync whose version is the one known does nothing.                     *)
BeginSync(q) ==
    IF q.last_known = q.local THEN q
    ELSE [q EXCEPT !.phase = "schema", !.version = q.local, !.last_known = q.local,
                   !.ok = TRUE, !.skipped = FALSE, !.disturbed = FALSE]

(* The end of a sync: force_motherduck_sync clears its flag, and will      *)
(* clear the versions it knows before it syncs again.                      *)
EndSync(p, q) ==
    [Idle EXCEPT !.local = q.local, !.doing = p = Worker,
                 !.last_known = IF p = Worker THEN q.last_known ELSE 0]

(* One turn of the worker's loop: BackgroundWorkerCheck.                   *)
BackgroundWorkerCheck ==
    /\ proc[Worker].phase = "idle"
    /\ proc[Worker].last_known # proc[Worker].local
    /\ proc' = [proc EXCEPT ![Worker] = BeginSync(@)]
    /\ UNCHANGED <<catalog, schema, is_default_db, relations, failures>>

(* duckdb.force_motherduck_sync(), in an ordinary backend.                 *)
ForceMotherDuckSync(b) ==
    /\ proc[b].phase = "idle"
    /\ proc' = [proc EXCEPT ![b] = BeginSync([@ EXCEPT !.last_known = 0, !.doing = TRUE])]
    /\ UNCHANGED <<catalog, schema, is_default_db, relations, failures>>

(* An ERROR out of the sync of p ends it, and the worker with it.          *)
AfterError(p, q) == IF p = Worker THEN Started ELSE EndSync(p, q)

(* The commit of one step of the sync, after which p is q.  What the step  *)
(* wrote stays when the extension's cache turns out to have changed.       *)
Commit(p, q) ==
    \/ proc' = [Disturb({p}) EXCEPT ![p] = q] /\ UNCHANGED failures
    \/ /\ failures < MaxFailures /\ failures' = failures + 1
       /\ proc' = [Disturb({p}) EXCEPT ![p] = AfterError(p, @)]

(* Nothing was written, the sync goes on as q.                             *)
GoOn(p, q) == proc' = [proc EXCEPT ![p] = q] /\ UNCHANGED <<relations, failures>>

(* A query of the sync to DuckDB throws, or the worker gets a SIGTERM.     *)
SyncThrows(p) ==
    /\ proc[p].phase # "idle" /\ failures < MaxFailures
    /\ failures' = failures + 1
    /\ proc' = [proc EXCEPT ![p] = AfterError(p, @)]
    /\ UNCHANGED <<catalog, schema, is_default_db, relations>>

(* GetSchemas and CreateSchemaIfNotExists.                                 *)
CreateSchemaIfNotExists(p) ==
    LET view == catalog[proc[p].local]
        synced == [proc[p] EXCEPT !.phase = "relations", !.view = view, !.todo = view]
        passed_over == [proc[p] EXCEPT !.phase = "relations", !.view = view, !.skipped = TRUE]
    IN /\ proc[p].phase = "schema"
       /\ \/ schema = "granted" /\ GoOn(p, synced) /\ UNCHANGED schema
          \/ schema # "granted" /\ GoOn(p, passed_over) /\ UNCHANGED schema
          \/ /\ schema = "denied" /\ ~is_default_db
             /\ schema' = "granted" /\ GoOn(p, synced)
          \/ /\ schema = "absent"
             /\ schema' = "granted" /\ Commit(p, synced) /\ UNCHANGED relations
       /\ UNCHANGED <<catalog, is_default_db>>

Done(p, r) == [proc[p] EXCEPT !.todo = @ \ {r}]

(* Mutant: a relation that could not be synced is forgotten.               *)
FailedForgotten(p, r) == Done(p, r)

Failed(p, r) == [Done(p, r) EXCEPT !.ok = FALSE]

(* None of the columns has a type Postgres knows: no CREATE to run, as if  *)
(* MotherDuck did not have the relation.                                   *)
Unmapped(p, r) == [Done(p, r) EXCEPT !.view = @ \ {r}]

(* Mutant: the name is not looked up first.                                *)
ReplaceableAnything(r) == TRUE

Replaceable(r) == relations[r].kind \in {"absent", "shell"}

(* DROP of the old shell, if any, and CREATE of the new one, both in one   *)
(* subtransaction, and the commit.                                         *)
Recreate(p, r, created) ==
    /\ Replaceable(r) /\ schema = "granted"
    /\ relations' = [relations EXCEPT ![r] = created]
    /\ catalog' = IF relations[r].kind = "shell" THEN DropForwarded(p, {r}) ELSE catalog
    /\ Commit(p, Done(p, r))

(* A name too long, a conflict, or a DROP or CREATE that fails: a WARNING. *)
NotCreated(p, r) == GoOn(p, Failed(p, r)) /\ UNCHANGED catalog

CreateTable(p, r) ==
    /\ proc[p].phase = "relations" /\ r \in proc[p].todo \cap Tables
    /\ \/ GoOn(p, Unmapped(p, r)) /\ UNCHANGED catalog
       \/ NotCreated(p, r)
       \/ Recreate(p, r, Shell(RegisteredVersion(p)))
    /\ UNCHANGED <<schema, is_default_db>>

(* Only the background worker's CREATE VIEW is taken as it is: in a        *)
(* backend it is a plain Postgres view in the default database, and sent   *)
(* to MotherDuck, which has it already, in any other.                      *)
CreateView(p, r) ==
    /\ proc[p].phase = "relations" /\ r \in proc[p].todo \cap Views
    /\ proc[p].todo \cap Tables = {}
    /\ \/ GoOn(p, Unmapped(p, r)) /\ UNCHANGED catalog
       \/ NotCreated(p, r)
       \/ p = Worker /\ Recreate(p, r, Shell(RegisteredVersion(p)))
       \/ p \in Backends /\ is_default_db /\ Recreate(p, r, User)
    /\ UNCHANGED <<schema, is_default_db>>

(* The shells the sync of p did not make: NULL versions compare unknown.   *)
Outdated(p) == {r \in Relations : /\ relations[r].kind = "shell"
                                  /\ relations[r].version \notin {0, proc[p].version}}

(* The cleanup, or its omission.  A DROP that fails is a WARNING.          *)
DropOutdated(p) ==
    /\ proc[p].phase = "relations" /\ proc[p].todo = {}
    /\ \/ ~proc[p].ok /\ GoOn(p, EndSync(p, proc[p])) /\ UNCHANGED catalog
       \/ /\ proc[p].ok
          /\ \E dropped \in SUBSET Outdated(p) :
                /\ relations' = [r \in Relations |-> IF r \in dropped THEN Absent ELSE relations[r]]
                /\ catalog' = DropForwarded(p, dropped)
          /\ Commit(p, EndSync(p, proc[p]))
    /\ UNCHANGED <<schema, is_default_db>>

SyncStep(p) ==
    \/ CreateSchemaIfNotExists(p)
    \/ \E r \in Relations : CreateTable(p, r) \/ CreateView(p, r)
    \/ DropOutdated(p)

---------------------------------------------------------------------------
Next ==
    \/ \E r \in Relations : CatalogChanges(r) \/ UserCreates(r) \/ UserDrops(r)
    \/ \E b \in Backends, r \in Relations : UserCreatesShell(b, r) \/ UserDropsShell(b, r)
    \/ \E b \in Backends : ForceMotherDuckSync(b)
    \/ ChangeGrant \/ BackgroundWorkerCheck
    \/ \E p \in Processes : Fetch(p) \/ SyncStep(p) \/ SyncThrows(p)

Spec == Init /\ [][Next]_vars

---------------------------------------------------------------------------
RelationStates == {Absent, User} \cup {Shell(v) : v \in 0..MaxVersion}

Syncs ==
    [phase : {"idle", "schema", "relations"}, local : 1..MaxVersion,
     last_known : 0..MaxVersion, version : 0..MaxVersion,
     view : SUBSET Relations, todo : SUBSET Relations, ok : BOOLEAN,
     doing : BOOLEAN, skipped : BOOLEAN, disturbed : BOOLEAN]

(* No process has fetched a version that MotherDuck has not reached.       *)
TypeOK ==
    /\ catalog \in Seq(SUBSET Relations) /\ Len(catalog) \in 1..MaxVersion
    /\ schema \in {"absent", "denied", "granted"}
    /\ is_default_db \in BOOLEAN
    /\ relations \in [Relations -> RelationStates]
    /\ proc \in [Processes -> Syncs]
    /\ \A p \in Processes : proc[p].local <= Len(catalog)
    /\ failures \in 0..MaxFailures

(* A session that is not inside force_motherduck_sync() forwards its DDL,  *)
(* whichever way its earlier syncs ended; the worker never does.           *)
ForwardingFollowsSync ==
    /\ \A b \in Backends : proc[b].doing <=> proc[b].phase # "idle"
    /\ proc[Worker].doing

(* p has just run its cleanup.                                             *)
CleansUp(p) == proc[p].phase = "relations" /\ proc[p].todo = {} /\ proc'[p].phase = "idle"

(* Replacing and dropping shells during a sync never reaches MotherDuck:   *)
(* no step of a sync changes its catalog.                                  *)
SyncNeverWritesUpstream ==
    [][\A p \in Processes : proc'[p].todo # proc[p].todo \/ CleansUp(p)
                            => catalog' = catalog]_vars

(* A sync never drops or replaces a relation that is the user's own.       *)
UserRelationsSurvive ==
    [][\A r \in Relations : relations[r] = User /\ relations'[r] # User
                            => relations'[r] = Absent /\ proc' = proc]_vars

(* A cleanup drops the shell of a relation MotherDuck still has only if    *)
(* the sync passed its schema over, or another session wrote shells while  *)
(* it ran: a relation that failed to be updated is never cleaned up.       *)
CleanupDropsGoneTables ==
    [][\A p \in Processes, r \in Relations :
         CleansUp(p) /\ relations[r].kind = "shell" /\ relations'[r] = Absent
         => \/ r \notin proc[p].view
            \/ proc[p].skipped
            \/ proc[p].disturbed]_vars

=============================================================================
