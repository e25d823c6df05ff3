-------------------------- MODULE MotherDuckWorker --------------------------
(***************************************************************************)
(* The life cycle of pg_duckdb's MotherDuck background worker, for one     *)
(* Postgres database: who starts it, the lock file that keeps it single,   *)
(* its entry in shared memory (BgwStatePerDB), how sessions wake it and    *)
(* share its session hint, and how it exits, fails and is restarted.  What *)
(* one sync does is MotherDuckSync's; here a sync takes a while and ends.  *)
(***************************************************************************)
EXTENDS Naturals, FiniteSets

CONSTANTS
    Workers,      \* registrations of the background worker
    Backends,     \* sessions of the database
    NoWorker,     \* nobody holds the lock file
    MaxVersion,   \* bound on the MotherDuck catalog versions
    MaxFailures   \* bound on the errors and signals that end a worker

ASSUME MotherDuckWorkerConstants ==
    /\ NoWorker \notin Workers
    /\ MaxVersion \in Nat \ {0}
    /\ MaxFailures \in Nat

VARIABLES
    version,    \* MotherDuck's server_catalog_version
    enabled,    \* the motherduck server and a user mapping exist
    worker,     \* life cycle of each registration
    lock,       \* holder of the pgduckdb_worker.<oid> lock file
    state,      \* BgwStatePerDB of the database
    loop,       \* variables of each worker's main loop
    reused,     \* sessions with reused_bgw_session_hint
    reset,      \* history: a claimed session hint was declared free
    failures

vars == <<version, enabled, worker, lock, state, loop, reused, reset, failures>>

(* activity stands for activity_count /= last_activity_count, the only     *)
(* thing asked of the two counters; a worker starts with them unequal.     *)
NoState == [found |-> FALSE, latch |-> NoWorker, activity |-> FALSE,
            bgw_session_hint_is_reused |-> FALSE]

(* local: catalog version its DuckDB instance has fetched; awake: a query  *)
(* has told the instance to fetch; last_known: the version synced last.    *)
NotStarted == [syncing |-> FALSE, local |-> 0, awake |-> FALSE, last_known |-> 0]

Init ==
    /\ version = 1
    /\ enabled = FALSE
    /\ worker = [w \in Workers |-> "none"]
    /\ lock = NoWorker
    /\ state = NoState
    /\ loop = [w \in Workers |-> NotStarted]
    /\ reused = {}
    /\ reset = FALSE
    /\ failures = 0

---------------------------------------------------------------------------
(* MotherDuck (external): the catalog changes, and an instance that a      *)
(* query has woken fetches it.                                             *)

CatalogChanges ==
    /\ version < MaxVersion
    /\ version' = version + 1
    /\ UNCHANGED <<enabled, worker, lock, state, loop, reused, reset, failures>>

Fetch(w) ==
    /\ loop[w].awake /\ loop[w].local < version
    /\ loop' = [loop EXCEPT ![w].local = version, ![w].awake = FALSE]
    /\ UNCHANGED <<version, enabled, worker, lock, state, reused, reset, failures>>

---------------------------------------------------------------------------
(* Sessions.                                                               *)

HasBgwRunningForMyDatabase ==
    \E w \in Workers : worker[w] \in {"running", "exiting", "erroring"}

Unregistered == {w \in Workers : worker[w] = "none"}

(* duckdb.enable_motherduck(): commit, then start the worker if needed.    *)
EnableMotherDuck ==
    /\ ~enabled
    /\ enabled' = TRUE
    /\ IF HasBgwRunningForMyDatabase \/ Unregistered = {} THEN UNCHANGED worker
       ELSE \E w \in Unregistered : worker' = [worker EXCEPT ![w] = "launched"]
    /\ UNCHANGED <<version, lock, state, loop, reused, reset, failures>>

(* DROP USER MAPPING.                                                      *)
DisableMotherDuck ==
    /\ enabled
    /\ enabled' = FALSE
    /\ UNCHANGED <<version, worker, lock, state, loop, reused, reset, failures>>

(* The first use of the user data cache in a session.                      *)
StartBackgroundWorkerIfNeeded ==
    /\ enabled /\ ~HasBgwRunningForMyDatabase
    /\ \E w \in Unregistered : worker' = [worker EXCEPT ![w] = "launched"]
    /\ UNCHANGED <<version, enabled, lock, state, loop, reused, reset, failures>>

(* Mutant: sessions do not count their activity.                           *)
TriggerNothing ==
    /\ enabled /\ state.found /\ ~state.activity
    /\ UNCHANGED vars

(* A query on DuckDB relations, or one that names an unknown relation.     *)
TriggerActivity ==
    /\ enabled /\ state.found /\ ~state.activity
    /\ state' = [state EXCEPT !.activity = TRUE]
    /\ UNCHANGED <<version, enabled, worker, lock, loop, reused, reset, failures>>

(* Mutant: the entry is not marked.                                        *)
PossiblyReuseUnmarked(b) ==
    /\ b \notin reused
    /\ state.found /\ ~state.bgw_session_hint_is_reused
    /\ reused' = reused \cup {b}
    /\ UNCHANGED <<version, enabled, worker, lock, state, loop, reset, failures>>

(* The connection string of a session asks for the worker's session hint.  *)
PossiblyReuseBgwSessionHint(b) ==
    /\ b \notin reused
    /\ state.found /\ ~state.bgw_session_hint_is_reused
    /\ state' = [state EXCEPT !.bgw_session_hint_is_reused = TRUE]
    /\ reused' = reused \cup {b}
    /\ UNCHANGED <<version, enabled, worker, lock, loop, reset, failures>>

(* before_shmem_exit of a session that reused the hint; it does not ask    *)
(* whether the entry is still the one it marked.                           *)
UnclaimBgwSessionHint(b) ==
    /\ b \in reused
    /\ state' = IF state.found THEN [state EXCEPT !.bgw_session_hint_is_reused = FALSE] ELSE state
    /\ reused' = reused \ {b}
    /\ UNCHANGED <<version, enabled, worker, lock, loop, reset, failures>>

---------------------------------------------------------------------------
(* The worker.                                                             *)

(* Mutant: the lock file is opened but never locked.                       *)
CanAlwaysTakeBgwLock == TRUE

CanTakeBgwLockForDatabase == lock = NoWorker

(* SetBackgroundWorkerState: the hint is free again, whoever uses it.      *)
NewState(w) == [found |-> TRUE, latch |-> w, activity |-> TRUE,
                bgw_session_hint_is_reused |-> FALSE]

LaunchWorker(w) ==
    /\ worker[w] = "launched"
    /\ IF CanTakeBgwLockForDatabase
       THEN /\ lock' = w
            /\ worker' = [worker EXCEPT ![w] = "running"]
            /\ state' = NewState(w)
            /\ reset' = (reset \/ reused # {})
            /\ loop' = [loop EXCEPT ![w] = [NotStarted EXCEPT !.local = version]]
       ELSE /\ worker' = [worker EXCEPT ![w] = "none"]
            /\ UNCHANGED <<lock, state, reset, loop>>
    /\ UNCHANGED <<version, enabled, reused, failures>>

(* PG_FINALLY of the worker's main function: the entry is removed while    *)
(* the process still holds the lock.                                       *)
LeaveMainLoop(w, next) ==
    /\ worker' = [worker EXCEPT ![w] = next]
    /\ state' = NoState
    /\ loop' = [loop EXCEPT ![w] = NotStarted]

(* One turn of the loop: exit if MotherDuck is disabled, wake the DuckDB   *)
(* instance if there was activity, and sync if the version is a new one.   *)
RunOneCheck(w) ==
    /\ worker[w] = "running" /\ ~loop[w].syncing
    /\ IF ~enabled \/ ~state.found
       THEN LeaveMainLoop(w, IF enabled THEN "erroring" ELSE "exiting")
       ELSE /\ state.activity \/ loop[w].local # loop[w].last_known
            /\ state' = [state EXCEPT !.activity = FALSE]
            /\ loop' = [loop EXCEPT
                         ![w].awake = @ \/ state.activity,
                         ![w].syncing = loop[w].local # loop[w].last_known,
                         ![w].last_known = loop[w].local]
            /\ UNCHANGED worker
    /\ UNCHANGED <<version, enabled, lock, reused, reset, failures>>

SyncEnds(w) ==
    /\ loop[w].syncing
    /\ loop' = [loop EXCEPT ![w].syncing = FALSE]
    /\ UNCHANGED <<version, enabled, worker, lock, state, reused, reset, failures>>

(* An ERROR leaves through PG_FINALLY ...                                  *)
SyncErrors(w) ==
    /\ worker[w] = "running" /\ failures < MaxFailures
    /\ failures' = failures + 1
    /\ LeaveMainLoop(w, "erroring")
    /\ UNCHANGED <<version, enabled, lock, reused, reset>>

(* ... while SIGTERM is FATAL and leaves the entry behind.                 *)
TerminateWorker(w) ==
    /\ worker[w] = "running" /\ failures < MaxFailures
    /\ failures' = failures + 1
    /\ worker' = [worker EXCEPT ![w] = "failed"]
    /\ lock' = NoWorker
    /\ loop' = [loop EXCEPT ![w] = NotStarted]
    /\ UNCHANGED <<version, enabled, state, reused, reset>>

(* The process exits and with it its lock; exit code 0 ends the            *)
(* registration, exit code 1 has the postmaster start it again.            *)
ExitWorker(w) ==
    /\ worker[w] \in {"exiting", "erroring"}
    /\ worker' = [worker EXCEPT ![w] = IF @ = "exiting" THEN "none" ELSE "failed"]
    /\ lock' = NoWorker
    /\ UNCHANGED <<version, enabled, state, loop, reused, reset, failures>>

RestartWorker(w) ==
    /\ worker[w] = "failed"
    /\ worker' = [worker EXCEPT ![w] = "launched"]
    /\ UNCHANGED <<version, enabled, lock, state, loop, reused, reset, failures>>

---------------------------------------------------------------------------
WorkerStep(w) ==
    LaunchWorker(w) \/ RunOneCheck(w) \/ SyncEnds(w) \/ ExitWorker(w) \/ RestartWorker(w)

Next ==
    \/ CatalogChanges \/ EnableMotherDuck \/ DisableMotherDuck
    \/ StartBackgroundWorkerIfNeeded \/ TriggerActivity
    \/ \E b \in Backends : PossiblyReuseBgwSessionHint(b) \/ UnclaimBgwSessionHint(b)
    \/ \E w \in Workers : Fetch(w) \/ SyncErrors(w) \/ TerminateWorker(w) \/ WorkerStep(w)

Spec == Init /\ [][Next]_vars

(* The postmaster starts and restarts registered workers, the worker wakes *)
(* at least once a second, sessions keep coming and querying, and a DuckDB *)
(* instance that was woken fetches the catalog.                            *)
Fairness ==
    /\ WF_vars(StartBackgroundWorkerIfNeeded) /\ WF_vars(TriggerActivity)
    /\ \A w \in Workers : WF_vars(WorkerStep(w)) /\ WF_vars(Fetch(w))

FairSpec == Spec /\ Fairness

---------------------------------------------------------------------------
TypeOK ==
    /\ version \in 1..MaxVersion /\ enabled \in BOOLEAN
    /\ worker \in [Workers -> {"none", "launched", "running", "exiting", "erroring", "failed"}]
    /\ lock \in {NoWorker} \cup {w \in Workers : worker[w] \in {"running", "exiting", "erroring"}}
    /\ state \in [found : BOOLEAN, latch : Workers \cup {NoWorker}, activity : BOOLEAN,
                  bgw_session_hint_is_reused : BOOLEAN]
    /\ loop \in [Workers -> [syncing : BOOLEAN, local : 0..MaxVersion, awake : BOOLEAN,
                             last_known : 0..MaxVersion]]
    /\ reused \subseteq Backends /\ reset \in BOOLEAN /\ failures \in 0..MaxFailures

(* The worker in its loop holds the lock file and owns the entry in shared *)
(* memory: GetState() never raises its ERROR, and activity reaches the     *)
(* worker that is there, through races of registrations, exits, errors,    *)
(* signals and restarts.                                                   *)
RunningWorkerOwnsState ==
    \A w \in Workers : worker[w] = "running" => lock = w /\ state.found /\ state.latch = w

(* "We do this having a single normal backend use the same session_hint":  *)
(* two sessions share the worker's hint only when a worker started while   *)
(* one was using it.                                                       *)
HintSharedOnlyAfterRestart == Cardinality(reused) > 1 => reset

(* While MotherDuck stays enabled, every catalog version is overtaken by   *)
(* another or taken up by a worker, however many workers died on the way.  *)
EveryVersionIsTakenUp ==
    \A v \in 1..MaxVersion :
        (enabled /\ version = v)
            ~> (~enabled \/ version > v \/ \E w \in Workers : loop[w].last_known = v)
=============================================================================
