------------------------ MODULE MaintenanceWorkerProofs ------------------------
(***************************************************************************)
(* Safety of the background maintenance, for any number of databases,      *)
(* slots, workers and tables.                                              *)
(*                                                                         *)
(* The argument: the launcher claims a slot only for a database that has   *)
(* none, so no two slots are of the same database; ReleaseSlot, which is   *)
(* given a database and not a slot, then releases the slot of the worker   *)
(* that calls it.  A worker that exists keeps its slot until its last      *)
(* statement, so there are never more workers than slots in use, and these *)
(* are counted before every claim.                                         *)
(***************************************************************************)
EXTENDS MaintenanceWorker, FiniteSetTheorems, FunctionTheorems,
        SequenceTheorems, WellFoundedInduction, TLAPS

(* Most leaves are first-order: Zenon is tried unless another is named.    *)
USE Zenon

(* A working worker is at an operation of its own pipeline.                *)
TaskOfPipeline ==
  \A db \in Databases :
    pc[db] = "working" => task[db] \in 1 .. 2 * tables[db] + 2

SlotsAreCounted ==
  IsFiniteSet(DOMAIN slots) /\ Cardinality(DOMAIN slots) <= MaxWorkers

IInv ==
  /\ TypeOK
  /\ TaskOfPipeline
  /\ WorkersOwnSlots
  /\ SlotsAreCounted
  /\ OperationsAreWhole

-----------------------------------------------------------------------------

(* A nonempty set of natural numbers has a least element: the slot that    *)
(* ClaimSlot chooses exists.                                               *)
LEMMA LeastNatural ==
  ASSUME NEW K \in SUBSET Nat, K # {}
  PROVE  \E i \in K : \A k \in K : i <= k
<1>. DEFINE R == OpToRel(<, Nat)
<1>1. IsWellFoundedOn(R, Nat)
  BY NatLessThanWellFounded
<1>2. \A i, k \in Nat : k < i => <<k, i>> \in R
  BY DEF OpToRel
<1>. HIDE DEF R
<1>3. PICK i \in K : \A k \in K : ~(<<k, i>> \in R)
  BY <1>1, WFMin
<1>4. ASSUME NEW k \in K
      PROVE  i <= k
  <2>1. k \in Nat /\ i \in Nat
    OBVIOUS
  <2>2. ~(k < i)
    BY <1>2, <1>3, <2>1
  <2>. QED
    BY <2>1, <2>2, SMT
<1>. QED
  BY <1>4

(* The bounds of the counters of a worker.                                 *)
LEMMA SmallCounts ==
  /\ 0 \in 0 .. MaxTables
  /\ 0 \in 0 .. 2 * MaxTables + 2 /\ 1 \in 0 .. 2 * MaxTables + 2
  /\ \A n \in 0 .. MaxTables : n \in Nat /\ 1 \in 1 .. 2 * n + 2
  BY MaintenanceConstants, SMT

(* The length of the pipeline.                                             *)
LEMMA PipelineLength ==
  ASSUME NEW n \in Nat
  PROVE  Len(Pipeline(n)) = 2 * n + 2
<1>1. DOMAIN Pipeline(n) = 1 .. 2 * n + 2
  BY DEF Pipeline
<1>2. Pipeline(n) \in Seq(Kinds)
  <2>1. \A i \in 1 .. 2 * n + 2 : Pipeline(n)[i] \in Kinds
    BY SMT DEF Pipeline, Kinds
  <2>2. Pipeline(n) \in [1 .. 2 * n + 2 -> Kinds]
    BY <2>1 DEF Pipeline
  <2>. QED
    BY <2>2, SMT
<1>. QED
  BY <1>1, <1>2, LenProperties, SMT

(* ClaimSlot adds one slot, for a database that had none, and keeps the    *)
(* others.                                                                 *)
LEMMA ClaimSlotOK ==
  ASSUME TypeOK, WorkersOwnSlots, SlotsAreCounted, NEW db \in Databases,
         MayLaunch(db), ClaimSlot(db)
  PROVE  /\ DOMAIN slots' \subseteq 1 .. TotalSlots
         /\ slots' \in [DOMAIN slots' -> Databases]
         /\ \A i, j \in DOMAIN slots' : slots'[i] = slots'[j] => i = j
         /\ \A i \in DOMAIN slots : i \in DOMAIN slots' /\ slots'[i] = slots[i]
         /\ HasWorkerForDatabase(db)'
         /\ SlotsAreCounted'
<1>. DEFINE i == CHOOSE j \in FreeSlots : \A k \in FreeSlots : j <= k
<1>1. i \in FreeSlots
  <2>1. FreeSlots \in SUBSET Nat /\ FreeSlots # {}
    BY MaintenanceConstants, SMT DEF FreeSlots, MayLaunch
  <2>2. \E j \in FreeSlots : \A k \in FreeSlots : j <= k
    BY <2>1, LeastNatural
  <2>. QED
    BY <2>2
<1>2. slots' = [j \in DOMAIN slots \cup {i} |-> IF j = i THEN db ELSE slots[j]]
  BY DEF ClaimSlot
<1>. HIDE DEF i
<1>3. i \in 1 .. TotalSlots /\ i \notin DOMAIN slots
  BY <1>1 DEF FreeSlots
<1>4. DOMAIN slots' = DOMAIN slots \cup {i} /\ slots'[i] = db
      /\ \A j \in DOMAIN slots : slots'[j] = slots[j]
  BY <1>2, <1>3
<1>5. \A j \in DOMAIN slots : slots[j] # db
  BY DEF MayLaunch, HasWorkerForDatabase
<1>6. SlotsAreCounted'
  <2>1. IsFiniteSet(DOMAIN slots) /\ Cardinality(DOMAIN slots) < MaxWorkers
    BY DEF SlotsAreCounted, MayLaunch, CountActiveWorkers
  <2>2. /\ IsFiniteSet(DOMAIN slots \cup {i})
        /\ Cardinality(DOMAIN slots \cup {i}) = Cardinality(DOMAIN slots) + 1
    BY <1>3, <2>1, FS_AddElement
  <2>3. Cardinality(DOMAIN slots) \in Nat
    BY <2>1, FS_CardinalityType
  <2>. QED
    BY <1>4, <2>1, <2>2, <2>3, MaintenanceConstants, SMT DEF SlotsAreCounted
<1>. QED
  BY <1>2, <1>3, <1>4, <1>5, <1>6, SMT DEF TypeOK, WorkersOwnSlots, HasWorkerForDatabase

(* ReleaseSlot of a database removes its only slot and keeps the others.   *)
LEMMA ReleaseSlotOK ==
  ASSUME TypeOK, WorkersOwnSlots, SlotsAreCounted, NEW db \in Databases,
         ReleaseSlot(db)
  PROVE  /\ DOMAIN slots' \subseteq 1 .. TotalSlots
         /\ slots' \in [DOMAIN slots' -> Databases]
         /\ \A i, j \in DOMAIN slots' : slots'[i] = slots'[j] => i = j
         /\ \A o \in Databases \ {db} :
              HasWorkerForDatabase(o) => HasWorkerForDatabase(o)'
         /\ SlotsAreCounted'
<1>. DEFINE K == {i \in DOMAIN slots : slots[i] = db}
            i == CHOOSE j \in K : \A k \in K : j <= k
<1>1. CASE K = {}
  <2>1. slots' = slots
    BY <1>1 DEF ReleaseSlot
  <2>. QED
    BY <2>1 DEF TypeOK, WorkersOwnSlots, SlotsAreCounted, HasWorkerForDatabase
<1>2. CASE K # {}
  <2>1. i \in K
    <3>1. K \in SUBSET Nat
      BY SMT DEF TypeOK
    <3>2. \E j \in K : \A k \in K : j <= k
      BY <1>2, <3>1, LeastNatural
    <3>. QED
      BY <3>2
  <2>2. slots' = [j \in DOMAIN slots \ {i} |-> slots[j]]
    BY <1>2 DEF ReleaseSlot
  <2>. HIDE DEF i
  <2>3. SlotsAreCounted'
    <3>1. DOMAIN slots' \in SUBSET DOMAIN slots
      BY <2>2
    <3>2. IsFiniteSet(DOMAIN slots)
      BY DEF SlotsAreCounted
    <3>3. /\ IsFiniteSet(DOMAIN slots')
          /\ Cardinality(DOMAIN slots') <= Cardinality(DOMAIN slots)
      BY <3>1, <3>2, FS_Subset
    <3>4. Cardinality(DOMAIN slots) \in Nat /\ Cardinality(DOMAIN slots') \in Nat
      BY <3>2, <3>3, FS_CardinalityType
    <3>. QED
      BY <3>3, <3>4, MaintenanceConstants, SMT DEF SlotsAreCounted
  <2>4. slots[i] = db
    BY <2>1
  <2>. QED
    BY <2>2, <2>3, <2>4 DEF TypeOK, WorkersOwnSlots, HasWorkerForDatabase
<1>. QED
  BY <1>1, <1>2

-----------------------------------------------------------------------------

(* The initial state.                                                      *)
LEMMA InitOK ==
  ASSUME Init
  PROVE  IInv
<1>1. TypeOK
  <2>1. DOMAIN <<>> = {}
    BY SMT
  <2>2. slots = [i \in {} |-> CHOOSE d \in Databases : TRUE]
    BY SMT DEF Init
  <2>. QED
    BY <2>1, <2>2, SmallCounts, EmptySeq DEF Init, TypeOK, Extent
<1>2. IsFiniteSet({}) /\ Cardinality({}) = 0
  BY FS_EmptySet
<1>3. SlotsAreCounted
  BY <1>2, MaintenanceConstants, SMT DEF Init, SlotsAreCounted
<1>4. WorkersOwnSlots
  BY SMT DEF Init, WorkersOwnSlots
<1>. QED
  BY <1>1, <1>3, <1>4 DEF Init, IInv, TaskOfPipeline, OperationsAreWhole

(* The launcher: a slot is claimed for a database without a worker, and    *)
(* given back when no worker can be registered.                            *)
LEMMA LauncherStepOK ==
  ASSUME IInv, LauncherStep
  PROVE  IInv'
<1>. USE DEF IInv
<1>1. CASE Wake
  BY <1>1, MaintenanceConstants
  DEF Wake, workerVars, TypeOK, TaskOfPipeline, WorkersOwnSlots,
      SlotsAreCounted, OperationsAreWhole, HasWorkerForDatabase
<1>2. ASSUME scan # <<>>
      PROVE  Head(scan) \in Databases /\ Tail(scan) \in Seq(Databases)
  BY <1>2, HeadTailProperties DEF TypeOK
<1>3. CASE LaunchWorker
  <2>1. CASE MayLaunch(Head(scan))
    <3>1. /\ scan # <<>> /\ Head(scan) \in Databases
          /\ ClaimSlot(Head(scan)) /\ claimed' = TRUE
          /\ UNCHANGED <<scan, workerVars, killed>>
      BY <1>2, <1>3, <2>1 DEF LaunchWorker
    <3>2. /\ DOMAIN slots' \subseteq 1 .. TotalSlots
          /\ slots' \in [DOMAIN slots' -> Databases]
          /\ \A i, j \in DOMAIN slots' : slots'[i] = slots'[j] => i = j
          /\ \A i \in DOMAIN slots : i \in DOMAIN slots' /\ slots'[i] = slots[i]
          /\ HasWorkerForDatabase(Head(scan))'
          /\ SlotsAreCounted'
      BY <2>1, <3>1, ClaimSlotOK
    <3>3. pc[Head(scan)] = "none"
      BY <2>1, <3>1 DEF MayLaunch, WorkersOwnSlots, TypeOK
    <3>4. TypeOK'
      BY <3>1, <3>2 DEF TypeOK, workerVars
    <3>5. WorkersOwnSlots'
      BY <3>1, <3>2, <3>3, SMT DEF WorkersOwnSlots, HasWorkerForDatabase, workerVars
    <3>. QED
      BY <3>1, <3>2, <3>4, <3>5 DEF TaskOfPipeline, OperationsAreWhole, workerVars
  <2>2. CASE ~MayLaunch(Head(scan))
    BY <1>2, <1>3, <2>2
    DEF LaunchWorker, workerVars, TypeOK, TaskOfPipeline, WorkersOwnSlots,
        SlotsAreCounted, OperationsAreWhole, HasWorkerForDatabase
  <2>. QED
    BY <2>1, <2>2
<1>4. CASE RegisterWorker
  <2>1. scan # <<>> /\ Head(scan) \in Databases /\ Tail(scan) \in Seq(Databases)
    BY <1>2, <1>4 DEF RegisterWorker, TypeOK
  <2>2. TypeOK'
    BY <1>4, <2>1 DEF RegisterWorker, TypeOK
  <2>3. WorkersOwnSlots'
    BY <1>4, <2>1 DEF RegisterWorker, TypeOK, WorkersOwnSlots, HasWorkerForDatabase
  <2>4. TaskOfPipeline'
    BY <1>4, <2>1 DEF RegisterWorker, TypeOK, TaskOfPipeline
  <2>. QED
    BY <1>4, <2>2, <2>3, <2>4
    DEF RegisterWorker, SlotsAreCounted, OperationsAreWhole
<1>5. CASE RegistrationFails
  <2>1. scan # <<>> /\ Head(scan) \in Databases /\ Tail(scan) \in Seq(Databases)
    BY <1>2, <1>5 DEF RegistrationFails, TypeOK
  <2>2. /\ DOMAIN slots' \subseteq 1 .. TotalSlots
        /\ slots' \in [DOMAIN slots' -> Databases]
        /\ \A i, j \in DOMAIN slots' : slots'[i] = slots'[j] => i = j
        /\ \A o \in Databases \ {Head(scan)} :
             HasWorkerForDatabase(o) => HasWorkerForDatabase(o)'
        /\ SlotsAreCounted'
    BY <1>5, <2>1, ReleaseSlotOK DEF RegistrationFails
  <2>3. TypeOK'
    BY <1>5, <2>1, <2>2 DEF RegistrationFails, TypeOK, workerVars
  <2>4. WorkersOwnSlots'
    BY <1>5, <2>1, <2>2 DEF RegistrationFails, WorkersOwnSlots, workerVars
  <2>. QED
    BY <1>5, <2>2, <2>3, <2>4
    DEF RegistrationFails, TaskOfPipeline, OperationsAreWhole, workerVars
<1>. QED
  BY <1>1, <1>3, <1>4, <1>5 DEF LauncherStep

(* The worker goes on to the next operation of its pipeline, or to its     *)
(* end, with a new transaction.                                            *)
LEMMA NextTaskOK ==
  ASSUME TypeOK, TaskOfPipeline, NEW db \in Databases, pc[db] = "working",
         NextTask(db)
  PROVE  /\ pc' \in [Databases -> {"none", "registered", "working", "cleanup"}]
         /\ tables' \in [Databases -> 0 .. MaxTables]
         /\ task' \in [Databases -> 0 .. 2 * MaxTables + 2]
         /\ tx' \in [Databases -> Extent]
         /\ TaskOfPipeline'
         /\ \A o \in Databases : (pc'[o] = "none") <=> (pc[o] = "none")
<1>1. /\ tables[db] \in 0 .. MaxTables /\ task[db] \in 1 .. 2 * tables[db] + 2
      /\ MaxTables \in Nat
  BY MaintenanceConstants DEF TypeOK, TaskOfPipeline
<1>2. Len(Pipeline(tables[db])) = 2 * tables[db] + 2
  BY <1>1, SmallCounts, PipelineLength
<1>3. CASE task[db] = 2 * tables[db] + 2
  BY <1>1, <1>2, <1>3, SMT DEF NextTask, TypeOK, TaskOfPipeline, Extent
<1>4. CASE task[db] # 2 * tables[db] + 2
  <2>1. task[db] + 1 \in 1 .. 2 * tables[db] + 2
        /\ task[db] + 1 \in 0 .. 2 * MaxTables + 2
    BY <1>1, <1>4, SMT
  <2>2. /\ pc' = pc /\ tables' = tables
        /\ task' = [task EXCEPT ![db] = task[db] + 1]
        /\ tx' = [tx EXCEPT ![db] = "nothing"]
    BY <1>2, <1>4 DEF NextTask, TypeOK
  <2>. QED
    BY <2>1, <2>2 DEF TypeOK, TaskOfPipeline, Extent
<1>. QED
  BY <1>3, <1>4

(* The steps of a worker, and its sudden end.                              *)
LEMMA WorkerStepOK ==
  ASSUME IInv, NEW db \in Databases, WorkerStep(db) \/ Terminate(db)
  PROVE  IInv'
<1>. USE DEF IInv
<1>1. CASE StartWorker(db)
  <2>1. TypeOK' /\ TaskOfPipeline'
    <3>1. CASE db \in Installed
      <4>1. PICK n \in 0 .. MaxTables :
              /\ pc' = [pc EXCEPT ![db] = "working"]
              /\ tables' = [tables EXCEPT ![db] = n]
              /\ task' = [task EXCEPT ![db] = 1]
        BY <1>1, <3>1 DEF StartWorker
      <4>. QED
        BY <1>1, <4>1, SmallCounts
        DEF StartWorker, launcherVars, TypeOK, TaskOfPipeline
    <3>2. CASE db \notin Installed
      BY <1>1, <3>2 DEF StartWorker, launcherVars, TypeOK, TaskOfPipeline
    <3>. QED
      BY <3>1, <3>2
  <2>2. \A o \in Databases : (pc'[o] = "none") <=> (pc[o] = "none")
    BY <1>1, SMT DEF StartWorker, TypeOK
  <2>3. WorkersOwnSlots'
    BY <1>1, <2>2, HeadTailProperties
    DEF StartWorker, launcherVars, TypeOK, WorkersOwnSlots, HasWorkerForDatabase
  <2>. QED
    BY <1>1, <2>1, <2>3 DEF StartWorker, SlotsAreCounted, OperationsAreWhole
<1>2. CASE WriteMetadata(db)
  BY <1>2
  DEF WriteMetadata, launcherVars, TypeOK, Extent, TaskOfPipeline, WorkersOwnSlots,
      SlotsAreCounted, OperationsAreWhole, HasWorkerForDatabase
<1>3. CASE CommitTask(db) \/ FailTask(db)
  <2>1. pc[db] = "working" /\ NextTask(db) /\ UNCHANGED <<slots, launcherVars, killed>>
    BY <1>3 DEF CommitTask, FailTask
  <2>2. torn' = torn
    <3>1. CASE FailTask(db)
      BY <3>1 DEF FailTask
    <3>2. CASE CommitTask(db)
      BY <3>2 DEF CommitTask, CommitTransactionCommand, TypeOK
    <3>. QED
      BY <1>3, <3>1, <3>2
  <2>3. /\ pc' \in [Databases -> {"none", "registered", "working", "cleanup"}]
        /\ tables' \in [Databases -> 0 .. MaxTables]
        /\ task' \in [Databases -> 0 .. 2 * MaxTables + 2]
        /\ tx' \in [Databases -> Extent]
        /\ TaskOfPipeline'
        /\ \A o \in Databases : (pc'[o] = "none") <=> (pc[o] = "none")
    BY <2>1, NextTaskOK
  <2>4. TypeOK'
    BY <2>1, <2>2, <2>3 DEF launcherVars, TypeOK
  <2>5. WorkersOwnSlots'
    BY <2>1, <2>3, HeadTailProperties
    DEF launcherVars, TypeOK, WorkersOwnSlots, HasWorkerForDatabase
  <2>. QED
    BY <2>1, <2>2, <2>3, <2>4, <2>5 DEF SlotsAreCounted, OperationsAreWhole
<1>4. CASE FinishWorker(db)
  <2>1. /\ DOMAIN slots' \subseteq 1 .. TotalSlots
        /\ slots' \in [DOMAIN slots' -> Databases]
        /\ \A i, j \in DOMAIN slots' : slots'[i] = slots'[j] => i = j
        /\ \A o \in Databases \ {db} :
             HasWorkerForDatabase(o) => HasWorkerForDatabase(o)'
        /\ SlotsAreCounted'
    BY <1>4, ReleaseSlotOK DEF FinishWorker
  <2>2. TypeOK' /\ TaskOfPipeline'
    BY <1>4, <2>1 DEF FinishWorker, launcherVars, TypeOK, TaskOfPipeline
  <2>3. claimed => Head(scan) \in Databases \ {db}
    BY <1>4, HeadTailProperties DEF FinishWorker, TypeOK, WorkersOwnSlots
  <2>4. WorkersOwnSlots'
    BY <1>4, <2>1, <2>3 DEF FinishWorker, launcherVars, TypeOK, WorkersOwnSlots
  <2>. QED
    BY <1>4, <2>1, <2>2, <2>4 DEF FinishWorker, OperationsAreWhole
<1>5. CASE Terminate(db)
  <2>1. TypeOK' /\ TaskOfPipeline'
    BY <1>5, SmallCounts
    DEF Terminate, launcherVars, TypeOK, Extent, TaskOfPipeline
  <2>2. WorkersOwnSlots'
    BY <1>5, HeadTailProperties
    DEF Terminate, launcherVars, TypeOK, WorkersOwnSlots, HasWorkerForDatabase
  <2>. QED
    BY <1>5, <2>1, <2>2 DEF Terminate, SlotsAreCounted, OperationsAreWhole
<1>. QED
  BY <1>1, <1>2, <1>3, <1>4, <1>5 DEF WorkerStep

(* The inductive invariant holds in every reachable state.                 *)
THEOREM InvariantHolds == Spec => []IInv
<1>1. Init => IInv
  BY InitOK
<1>2. IInv /\ [Next]_vars => IInv'
  <2>1. CASE Next
    BY <2>1, LauncherStepOK, WorkerStepOK DEF Next
  <2>2. CASE UNCHANGED vars
    BY <2>2
    DEF vars, launcherVars, workerVars, IInv, TypeOK, TaskOfPipeline, WorkersOwnSlots,
        SlotsAreCounted, OperationsAreWhole, HasWorkerForDatabase
  <2>. QED
    BY <2>1, <2>2
<1>. QED
  BY <1>1, <1>2, PTL DEF Spec

(* Every worker that exists, or is about to be registered, owns a slot of  *)
(* its own, however registrations fail and workers end.                    *)
THEOREM SlotsAreOwned == Spec => []WorkersOwnSlots
<1>1. IInv => WorkersOwnSlots
  BY DEF IInv
<1>. QED
  BY <1>1, InvariantHolds, PTL

(* No maintenance operation is committed by half.                          *)
THEOREM CommitsAreWhole == Spec => []OperationsAreWhole
<1>1. IInv => OperationsAreWhole
  BY DEF IInv
<1>. QED
  BY <1>1, InvariantHolds, PTL

-----------------------------------------------------------------------------

(* The databases that have a worker.                                       *)
Maintained == {db \in Databases : pc[db] # "none"}

(* maintenance_max_workers bounds the workers of the whole server: the     *)
(* launcher counts slots and not processes, but every process has one.     *)
WorkersAreBounded == IsFiniteSet(Maintained) /\ Cardinality(Maintained) <= MaxWorkers

(* The workers map one to one into the slots that are counted.             *)
THEOREM MaxWorkersIsKept == Spec => []WorkersAreBounded
<1>1. ASSUME IInv
      PROVE  WorkersAreBounded
  <2>. DEFINE f == [db \in Maintained |-> CHOOSE i \in DOMAIN slots : slots[i] = db]
  <2>1. \A db \in Maintained : f[db] \in DOMAIN slots /\ slots[f[db]] = db
    BY <1>1 DEF IInv, WorkersOwnSlots, HasWorkerForDatabase, Maintained
  <2>2. f \in [Maintained -> DOMAIN slots]
    BY <2>1
  <2>. HIDE DEF f
  <2>3. f \in Injection(Maintained, DOMAIN slots)
    <3>1. \A a, b \in DOMAIN f : f[a] = f[b] => a = b
      BY <2>1, <2>2, SMT
    <3>. QED
      BY <2>2, <3>1 DEF Injection, IsInjective
  <2>4. IsFiniteSet(DOMAIN slots) /\ Cardinality(DOMAIN slots) <= MaxWorkers
    BY <1>1 DEF IInv, SlotsAreCounted
  <2>5. IsFiniteSet(Maintained) /\ Cardinality(Maintained) <= Cardinality(DOMAIN slots)
    BY <2>3, <2>4, FS_Injection
  <2>6. Cardinality(Maintained) \in Nat /\ Cardinality(DOMAIN slots) \in Nat
    BY <2>4, <2>5, FS_CardinalityType
  <2>. QED
    BY <2>4, <2>5, <2>6, MaintenanceConstants, SMT DEF WorkersAreBounded
<1>. QED
  BY <1>1, InvariantHolds, PTL

=============================================================================
