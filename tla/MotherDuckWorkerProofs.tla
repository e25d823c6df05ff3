------------------------ MODULE MotherDuckWorkerProofs ------------------------
(***************************************************************************)
(* Safety of the life cycle of the MotherDuck worker, for any number of    *)
(* registrations, sessions, catalog versions and failures.                 *)
(*                                                                         *)
(* The argument: a process that has passed LaunchWorker holds the lock     *)
(* file until it is gone, so there is one of them at a time; it writes the *)
(* shared entry after it took the lock and removes it before it gives the  *)
(* lock up, so nobody but the worker in its loop touches an entry that is  *)
(* in use.                                                                 *)
(***************************************************************************)
EXTENDS MotherDuckWorker, FiniteSetTheorems, TLAPS

(* Most leaves are first-order: Zenon is tried unless another is named.    *)
USE Zenon

Active == {"running", "exiting", "erroring"}

(* Whoever is past the lock file holds it.                                 *)
ActiveHoldsLock == \A w \in Workers : worker[w] \in Active => lock = w

(* While no claimed hint was declared free, at most one session uses the   *)
(* hint, and the entry, if there is one, says so.                          *)
HintHasOneUser ==
    ~reset => /\ \A a, b \in reused : a = b
              /\ reused # {} /\ state.found => state.bgw_session_hint_is_reused

IInv == TypeOK /\ ActiveHoldsLock /\ RunningWorkerOwnsState /\ HintHasOneUser

---------------------------------------------------------------------------

(* Initially nobody is registered.                                         *)
LEMMA InitOK == Init => IInv
<1>. SUFFICES ASSUME Init PROVE IInv
  OBVIOUS
<1>1. 1 \in 1..MaxVersion /\ 0 \in 0..MaxVersion /\ 0 \in 0..MaxFailures
  BY MotherDuckWorkerConstants, SMT
<1>2. TypeOK
  BY <1>1 DEF Init, TypeOK, NoState, NotStarted
<1>. QED
  BY <1>2 DEF Init, IInv, ActiveHoldsLock, RunningWorkerOwnsState, HintHasOneUser, Active

(* MotherDuck's own steps and those of sessions leave workers that run     *)
(* alone: they never take the entry away nor give it another owner.        *)
LEMMA OthersOK ==
    ASSUME IInv,
           \/ CatalogChanges \/ EnableMotherDuck \/ DisableMotherDuck
           \/ StartBackgroundWorkerIfNeeded \/ TriggerActivity
           \/ \E w \in Workers : Fetch(w) \/ SyncEnds(w) \/ RestartWorker(w)
    PROVE  IInv'
<1>. USE DEF IInv
<1>1. CASE CatalogChanges
  <2>1. version' \in 1..MaxVersion
    BY <1>1, MotherDuckWorkerConstants, SMT DEF CatalogChanges, TypeOK
  <2>. QED
    BY <1>1, <2>1
    DEF CatalogChanges, TypeOK, ActiveHoldsLock, RunningWorkerOwnsState, HintHasOneUser
<1>2. ASSUME NEW w \in Workers, worker[w] \in {"none", "failed"},
             worker' = [worker EXCEPT ![w] = "launched"], enabled' \in BOOLEAN,
             UNCHANGED <<version, lock, state, loop, reused, reset, failures>>
      PROVE  IInv'
  <2>1. \A v \in Workers : worker'[v] \in Active <=> worker[v] \in Active
    BY <1>2 DEF TypeOK, Active
  <2>2. \A v \in Workers : worker'[v] = "running" => worker[v] = "running"
    BY <1>2 DEF TypeOK
  <2>3. TypeOK'
    BY <1>2, <2>1 DEF TypeOK, Active
  <2>. QED
    BY <1>2, <2>1, <2>2, <2>3 DEF ActiveHoldsLock, RunningWorkerOwnsState, HintHasOneUser
<1>3. CASE DisableMotherDuck
  BY <1>3
  DEF DisableMotherDuck, TypeOK, ActiveHoldsLock, RunningWorkerOwnsState, HintHasOneUser
<1>4. CASE EnableMotherDuck
  <2>1. CASE UNCHANGED worker
    BY <1>4, <2>1
    DEF EnableMotherDuck, TypeOK, ActiveHoldsLock, RunningWorkerOwnsState, HintHasOneUser
  <2>2. CASE \E w \in Unregistered : worker' = [worker EXCEPT ![w] = "launched"]
    BY <1>2, <1>4, <2>2 DEF EnableMotherDuck, Unregistered
  <2>. QED
    BY <1>4, <2>1, <2>2 DEF EnableMotherDuck
<1>5. CASE StartBackgroundWorkerIfNeeded
  BY <1>2, <1>5 DEF StartBackgroundWorkerIfNeeded, Unregistered, TypeOK
<1>6. CASE TriggerActivity
  BY <1>6
  DEF TriggerActivity, TypeOK, ActiveHoldsLock, RunningWorkerOwnsState, HintHasOneUser
<1>7. ASSUME NEW w \in Workers, Fetch(w) \/ SyncEnds(w)
      PROVE  IInv'
  <2>1. version \in 0..MaxVersion
    BY MotherDuckWorkerConstants, SMT DEF TypeOK
  <2>2. loop' \in [Workers -> [syncing : BOOLEAN, local : 0..MaxVersion, awake : BOOLEAN,
                               last_known : 0..MaxVersion]]
    <3>1. CASE Fetch(w)
      BY <2>1, <3>1, SMT DEF Fetch, TypeOK
    <3>2. CASE SyncEnds(w)
      BY <3>2 DEF SyncEnds, TypeOK
    <3>. QED
      BY <1>7, <3>1, <3>2
  <2>. QED
    BY <1>7, <2>2
    DEF Fetch, SyncEnds, TypeOK, ActiveHoldsLock, RunningWorkerOwnsState, HintHasOneUser
<1>8. ASSUME NEW w \in Workers, RestartWorker(w)
      PROVE  IInv'
  BY <1>2, <1>8 DEF RestartWorker, TypeOK
<1>. QED
  BY <1>1, <1>3, <1>4, <1>5, <1>6, <1>7, <1>8

(* The session hint: claimed by one session at a time, given back by the   *)
(* session that claimed it.                                                *)
LEMMA HintOK ==
    ASSUME IInv, NEW b \in Backends,
           PossiblyReuseBgwSessionHint(b) \/ UnclaimBgwSessionHint(b)
    PROVE  IInv'
<1>. USE DEF IInv
<1>1. CASE PossiblyReuseBgwSessionHint(b)
  <2>1. ~reset => reused = {}
    BY <1>1 DEF PossiblyReuseBgwSessionHint, HintHasOneUser, TypeOK
  <2>. QED
    BY <1>1, <2>1
    DEF PossiblyReuseBgwSessionHint, TypeOK, ActiveHoldsLock, RunningWorkerOwnsState,
        HintHasOneUser
<1>2. CASE UnclaimBgwSessionHint(b)
  <2>1. ~reset => reused' = {}
    BY <1>2 DEF UnclaimBgwSessionHint, HintHasOneUser
  <2>. QED
    BY <1>2, <2>1
    DEF UnclaimBgwSessionHint, TypeOK, ActiveHoldsLock, RunningWorkerOwnsState,
        HintHasOneUser
<1>. QED
  BY <1>1, <1>2

(* A worker that leaves its main loop was the only active one.             *)
LEMMA LeaveOK ==
    ASSUME IInv, NEW w \in Workers, worker[w] = "running",
           NEW next \in {"exiting", "erroring"}, LeaveMainLoop(w, next),
           UNCHANGED <<version, enabled, lock, reused, reset>>,
           failures' \in 0..MaxFailures
    PROVE  IInv'
<1>. USE DEF IInv
<1>1. lock = w /\ \A v \in Workers : worker[v] \in Active => v = w
  BY DEF ActiveHoldsLock, Active
<1>2. /\ worker'[w] = next /\ \A v \in Workers \ {w} : worker'[v] = worker[v]
      /\ worker' \in [Workers -> {"none", "launched", "running", "exiting", "erroring", "failed"}]
  BY DEF LeaveMainLoop, TypeOK
<1>3. 0 \in 0..MaxVersion
  BY MotherDuckWorkerConstants, SMT
<1>4. TypeOK'
  BY <1>1, <1>2, <1>3 DEF LeaveMainLoop, TypeOK, NoState, NotStarted
<1>5. ActiveHoldsLock' /\ RunningWorkerOwnsState'
  BY <1>1, <1>2 DEF ActiveHoldsLock, RunningWorkerOwnsState, Active
<1>6. HintHasOneUser'
  BY DEF HintHasOneUser, LeaveMainLoop, NoState
<1>. QED
  BY <1>4, <1>5, <1>6

(* The steps of a worker that take or give up the lock or the entry.       *)
LEMMA WorkerOK ==
    ASSUME IInv, NEW w \in Workers,
           \/ LaunchWorker(w) \/ RunOneCheck(w) \/ ExitWorker(w)
           \/ SyncErrors(w) \/ TerminateWorker(w)
    PROVE  IInv'
<1>. USE DEF IInv
<1>1. CASE LaunchWorker(w)
  <2>1. CASE lock = NoWorker
    <3>1. \A v \in Workers : worker[v] \notin Active
      BY <2>1, MotherDuckWorkerConstants DEF ActiveHoldsLock
    <3>2. /\ worker' = [worker EXCEPT ![w] = "running"] /\ lock' = w
          /\ state' = NewState(w) /\ reset' = (reset \/ reused # {})
          /\ loop' = [loop EXCEPT ![w] = [NotStarted EXCEPT !.local = version]]
          /\ UNCHANGED <<version, enabled, reused, failures>>
      BY <1>1, <2>1 DEF LaunchWorker, CanTakeBgwLockForDatabase
    <3>3. \A v \in Workers : worker'[v] \in Active => v = w
      BY <3>1, <3>2 DEF TypeOK
    <3>4. 0 \in 0..MaxVersion /\ version \in 0..MaxVersion
      BY MotherDuckWorkerConstants, SMT DEF TypeOK
    <3>5. [NotStarted EXCEPT !.local = version]
            \in [syncing : BOOLEAN, local : 0..MaxVersion, awake : BOOLEAN,
                 last_known : 0..MaxVersion]
      BY <3>4 DEF NotStarted
    <3>6. TypeOK'
      BY <3>2, <3>5 DEF TypeOK, NewState
    <3>7. ActiveHoldsLock' /\ RunningWorkerOwnsState'
      BY <3>2, <3>3 DEF ActiveHoldsLock, RunningWorkerOwnsState, NewState, Active
    <3>8. HintHasOneUser'
      BY <3>2 DEF HintHasOneUser, NewState, TypeOK
    <3>. QED
      BY <3>6, <3>7, <3>8
  <2>2. CASE lock # NoWorker
    <3>1. /\ worker' = [worker EXCEPT ![w] = "none"]
          /\ UNCHANGED <<version, enabled, lock, state, reset, loop, reused, failures>>
          /\ worker[w] = "launched"
      BY <1>1, <2>2 DEF LaunchWorker, CanTakeBgwLockForDatabase
    <3>2. \A v \in Workers : worker'[v] \in Active <=> worker[v] \in Active
      BY <3>1 DEF TypeOK, Active
    <3>3. \A v \in Workers : worker'[v] = "running" => worker[v] = "running"
      BY <3>1 DEF TypeOK
    <3>4. TypeOK'
      BY <3>1, <3>2 DEF TypeOK, Active
    <3>. QED
      BY <3>1, <3>2, <3>3, <3>4 DEF ActiveHoldsLock, RunningWorkerOwnsState, HintHasOneUser
  <2>. QED
    BY <2>1, <2>2
<1>2. CASE RunOneCheck(w)
  <2>1. CASE ~enabled \/ ~state.found
    <3>1. PICK next \in {"exiting", "erroring"} : LeaveMainLoop(w, next)
      BY <1>2, <2>1 DEF RunOneCheck
    <3>. QED
      BY <1>2, <3>1, LeaveOK, SMT DEF RunOneCheck, TypeOK
  <2>2. CASE ~(~enabled \/ ~state.found)
    <3>1. /\ state' = [state EXCEPT !.activity = FALSE]
          /\ loop' = [loop EXCEPT
                       ![w].awake = @ \/ state.activity,
                       ![w].syncing = loop[w].local # loop[w].last_known,
                       ![w].last_known = loop[w].local]
          /\ UNCHANGED <<version, enabled, worker, lock, reused, reset, failures>>
      BY <1>2, <2>2 DEF RunOneCheck
    <3>2. loop' \in [Workers -> [syncing : BOOLEAN, local : 0..MaxVersion, awake : BOOLEAN,
                                 last_known : 0..MaxVersion]]
      <4>. DEFINE awake == loop[w].awake \/ state.activity
                  stale == loop[w].local # loop[w].last_known
      <4>1. awake \in BOOLEAN /\ stale \in BOOLEAN
        OBVIOUS
      <4>2. loop' = [loop EXCEPT ![w] = [loop[w] EXCEPT !.awake = awake, !.syncing = stale,
                                                        !.last_known = loop[w].local]]
        BY <3>1
      <4>. HIDE DEF awake, stale
      <4>. QED
        BY <4>1, <4>2, ZenonT(30) DEF TypeOK
    <3>. QED
      BY <3>1, <3>2 DEF TypeOK, ActiveHoldsLock, RunningWorkerOwnsState, HintHasOneUser
  <2>. QED
    BY <2>1, <2>2
<1>3. CASE SyncErrors(w)
  <2>1. failures' \in 0..MaxFailures
    BY <1>3, MotherDuckWorkerConstants, SMT DEF SyncErrors, TypeOK
  <2>. QED
    BY <1>3, <2>1, LeaveOK DEF SyncErrors
<1>4. ASSUME worker[w] \in Active, NEW next \in {"none", "failed"},
             worker' = [worker EXCEPT ![w] = next], lock' = NoWorker,
             loop' \in [Workers -> [syncing : BOOLEAN, local : 0..MaxVersion,
                                    awake : BOOLEAN, last_known : 0..MaxVersion]],
             UNCHANGED <<version, enabled, state, reused, reset>>,
             failures' \in 0..MaxFailures
      PROVE  IInv'
  <2>1. \A v \in Workers : worker'[v] \notin Active
    BY <1>4 DEF ActiveHoldsLock, TypeOK, Active
  <2>2. TypeOK'
    BY <1>4 DEF TypeOK
  <2>. QED
    BY <1>4, <2>1, <2>2 DEF ActiveHoldsLock, RunningWorkerOwnsState, HintHasOneUser, Active
<1>5. CASE TerminateWorker(w)
  <2>1. failures' \in 0..MaxFailures /\ 0 \in 0..MaxVersion
    BY <1>5, MotherDuckWorkerConstants, SMT DEF TerminateWorker, TypeOK
  <2>2. loop' \in [Workers -> [syncing : BOOLEAN, local : 0..MaxVersion,
                               awake : BOOLEAN, last_known : 0..MaxVersion]]
    BY <1>5, <2>1 DEF TerminateWorker, TypeOK, NotStarted
  <2>. QED
    BY <1>4, <1>5, <2>1, <2>2 DEF TerminateWorker, Active
<1>6. CASE ExitWorker(w)
  <2>1. PICK next \in {"none", "failed"} : worker' = [worker EXCEPT ![w] = next]
    BY <1>6 DEF ExitWorker, TypeOK
  <2>. QED
    BY <1>4, <1>6, <2>1 DEF ExitWorker, Active, TypeOK
<1>. QED
  BY <1>1, <1>2, <1>3, <1>5, <1>6

(* The inductive invariant holds in every reachable state.                 *)
THEOREM InvariantHolds == Spec => []IInv
<1>1. IInv /\ [Next]_vars => IInv'
  <2>1. CASE Next
    BY <2>1, OthersOK, HintOK, WorkerOK DEF Next, WorkerStep
  <2>2. CASE UNCHANGED vars
    BY <2>2
    DEF vars, IInv, TypeOK, ActiveHoldsLock, RunningWorkerOwnsState, HintHasOneUser
  <2>. QED
    BY <2>1, <2>2
<1>. QED
  BY <1>1, InitOK, PTL DEF Spec

(* GetState() never fails in the worker's loop: the running worker owns    *)
(* the lock file and the shared entry.                                     *)
THEOREM WorkerOwnsState == Spec => []RunningWorkerOwnsState
<1>1. IInv => RunningWorkerOwnsState
  BY DEF IInv
<1>. QED
  BY <1>1, InvariantHolds, PTL

(* Two sessions share the worker's session hint only if a worker started   *)
(* while one of them was using it.                                         *)
THEOREM HintIsSingle == Spec => []HintSharedOnlyAfterRestart
<1>1. ASSUME IInv
      PROVE  HintSharedOnlyAfterRestart
  <2>1. SUFFICES ASSUME ~reset PROVE ~(Cardinality(reused) > 1)
    BY DEF HintSharedOnlyAfterRestart
  <2>2. \A a, b \in reused : a = b
    BY <1>1, <2>1 DEF IInv, HintHasOneUser
  <2>3. CASE reused = {}
    BY <2>3, FS_EmptySet, SMT
  <2>4. CASE reused # {}
    <3>1. PICK a \in reused : TRUE
      BY <2>4
    <3>2. reused = {a}
      BY <2>2, <3>1
    <3>3. Cardinality({a}) = 1
      BY FS_Singleton
    <3>. QED
      BY <3>2, <3>3, SMT
  <2>. QED
    BY <2>3, <2>4
<1>. QED
  BY <1>1, InvariantHolds, PTL

=============================================================================
