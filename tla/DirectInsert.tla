---------------------------- MODULE DirectInsert ----------------------------
(***************************************************************************)
(* The native INSERT path of a session: direct_insert.cpp's planner, its   *)
(* plans and session caches, the ExecutorStart hook that may send a native *)
(* plan back to DuckDB, and COPY FROM STDIN, on top of DuckLakeSession.    *)
(*                                                                         *)
(* A plan binds two things it reads at different times from catalogs that  *)
(* other clients change meanwhile: the inlined schema version of the       *)
(* target and the types of its columns.  It may be used at once, explained *)
(* only, or kept as a prepared statement and executed anywhere later.      *)
(* What the write does with rows and snapshots is NativeInlineWriter's     *)
(* subject; here it succeeds or fails on what the plan bound.              *)
(***************************************************************************)
EXTENDS DuckLakeSession

VARIABLES
  schema,    \* the table's inlined schema version; its columns are of it too
  stage,     \* the native plan of the running statement
  prepared   \* a native plan kept by PREPARE

vars == <<sessionVars, schema, stage, prepared>>

(* v: the bound schema version, t: the version of the columns whose types  *)
(* were bound; 0 while not bound.                                          *)
NoPlan == [kind |-> "none", v |-> 0, t |-> 0]

Plans == [kind : {"none", "insert", "copy"}, v : 0 .. MaxVersion,
          t : 0 .. MaxVersion]

Complete(plan) == plan.t # 0

TypeOK ==
  /\ SessionTypeOK
  /\ schema \in 1 .. MaxVersion
  /\ stage \in Plans /\ prepared \in Plans
  /\ prepared = NoPlan \/ (prepared.kind = "insert" /\ Complete(prepared))
  /\ (stage.kind = "none") = (stage.v = 0)
  /\ stage # NoPlan => Running

Init ==
  /\ SessionInit
  /\ schema = 1
  /\ stage = NoPlan /\ prepared = NoPlan

(***************************************************************************)
(* Planning.                                                               *)
(***************************************************************************)

(* IsTransactionBlock is false only for a statement of its own and outside *)
(* EXCEPTION blocks.                                                       *)
MayPlanNatively == block = "statement" /\ ~sub

(* inlining_info_cache, or GetTableInliningState.                          *)
InliningInfo == IF cache.info # 0 THEN cache.info ELSE schema

(* CheckInsertPreconditions.  Its refusals (a relation or a query of       *)
(* another shape, no inlined data table) leave nothing behind and are      *)
(* DuckQuery.                                                              *)
CheckInsertPreconditions ==
  /\ stage = NoPlan /\ MayPlanNatively
  /\ cache' = [cache EXCEPT !.info = InliningInfo]
  /\ stage' = [kind |-> "insert", v |-> InliningInfo, t |-> 0]
  /\ UNCHANGED <<block, sub, pending, inner, published, duck, mgr, allow,
                 force, servers, mine, inbox, schema, prepared>>

(* GetCachedInlinedColumnTypes: an entry for the version v, or             *)
(* GetInlinedColumnTypes, which reads the columns that are live now.       *)
ColumnTypes(v) == IF cache.types[v] # 0 THEN cache.types[v] ELSE schema

(* TryMatchUnnest or TryMatchValues succeeds, down to the types.           *)
MatchInsert ==
  /\ stage.kind = "insert" /\ ~Complete(stage)
  /\ cache' = [cache EXCEPT !.types[stage.v] = ColumnTypes(stage.v)]
  /\ stage' = [stage EXCEPT !.t = ColumnTypes(stage.v)]
  /\ UNCHANGED <<block, sub, pending, inner, published, duck, mgr, allow,
                 force, servers, mine, inbox, schema, prepared>>

(* Neither pattern matches (the shape, more rows than row_limit, a column  *)
(* type without an inlined form), or the statement was an EXPLAIN: the     *)
(* caches keep what they learnt.                                           *)
LeavePlan ==
  /\ stage.kind = "insert"
  /\ stage' = NoPlan
  /\ UNCHANGED <<sessionVars, schema, prepared>>

(* PREPARE, or the plan cache of a PL/pgSQL function.                      *)
KeepPlan ==
  /\ stage.kind = "insert" /\ Complete(stage)
  /\ prepared' = stage
  /\ stage' = NoPlan
  /\ UNCHANGED <<sessionVars, schema>>

(* EXECUTE with the kept plan, wherever the session is.                    *)
ExecutePrepared ==
  /\ Running /\ stage = NoPlan
  /\ prepared # NoPlan
  /\ stage' = prepared
  /\ UNCHANGED <<sessionVars, schema, prepared>>

(* DucklakeCopyFromStdin up to OpenInlinedDataTable: the caches are not    *)
(* consulted, and the columns are those of the table of that version.      *)
CopyFromStdin ==
  /\ Running /\ stage = NoPlan
  /\ stage' = [kind |-> "copy", v |-> schema, t |-> schema]
  /\ UNCHANGED <<sessionVars, schema, prepared>>

(***************************************************************************)
(* Execution.                                                              *)
(***************************************************************************)

(* PrepareNativeInlineWrite's first checks.                                *)
WriterAccepts == block = "statement" /\ ~sub

(* Mutant: the version is not compared.                                    *)
ValidateBindingNothing(plan) == TRUE

(* ValidateBinding, at Prepare and before every publication attempt: the   *)
(* table is live and its newest inlined version is the one bound.          *)
ValidateBinding(plan) == plan.v = schema

(* The write succeeds.  DirectInsert_ExecCustomScan drops the caches at    *)
(* the end, COPY does not.                                                 *)
NativeWrite ==
  /\ Complete(stage)
  /\ WriterAccepts /\ ValidateBinding(stage)
  /\ pending' = pending \cup {"lake"}
  /\ cache' = IF stage.kind = "insert" THEN ResetDirectInsertCaches ELSE cache
  /\ stage' = NoPlan
  /\ UNCHANGED <<block, sub, inner, published, duck, mgr, allow, force,
                 servers, mine, inbox, schema, prepared>>

(* An UNNEST of empty arrays, or a COPY without rows.                      *)
NativeWriteOfNothing ==
  /\ Complete(stage) /\ WriterAccepts
  /\ stage.kind = "copy" => ValidateBinding(stage)
  /\ cache' = IF stage.kind = "insert" THEN ResetDirectInsertCaches ELSE cache
  /\ stage' = NoPlan
  /\ UNCHANGED <<block, sub, pending, inner, published, duck, mgr, allow,
                 force, servers, mine, inbox, schema, prepared>>

(* The write is refused or fails: the writer's place, a stale binding, a   *)
(* conflict or an error of the producer; the gate may be open.             *)
NativeWriteFails ==
  /\ stage # NoPlan
  /\ \E g \in {FALSE, WriterAccepts /\ ValidateBinding(stage)} :
       Fails([Now EXCEPT !.gate = allow \/ g])
  /\ stage' = NoPlan
  /\ UNCHANGED <<force, inbox, schema, prepared>>

(* DucklakeExecutorStartHook replaces a native INSERT plan by a DuckDB     *)
(* plan in a block, in an EXCEPTION block or once enable_direct_insert is  *)
(* off.                                                                    *)
Fallback ==
  /\ stage.kind = "insert" /\ Complete(stage)
  /\ stage' = NoPlan
  /\ DuckQuery \/ ConnectionRefused \/ AttachFails
  /\ UNCHANGED <<schema, prepared>>

(***************************************************************************)
(* The session and the others.                                             *)
(***************************************************************************)

(* Any step of the session that is not part of a native statement.         *)
SessionStep ==
  /\ \/ stage = NoPlan /\ SessionNext
     \/ OtherChangesServers
  /\ UNCHANGED <<schema, stage, prepared>>

(* A schema change commits: another client's, or this session's own in a   *)
(* statement that touched no cache.  An ALTER of this server invalidates   *)
(* the kept plan, one of an external DuckLake client does not.             *)
SchemaChanges ==
  /\ schema < MaxVersion
  /\ schema' = schema + 1
  /\ prepared' \in {prepared, NoPlan}
  /\ UNCHANGED <<sessionVars, stage>>

Next ==
  \/ SessionStep \/ SchemaChanges
  \/ CheckInsertPreconditions \/ MatchInsert \/ LeavePlan \/ KeepPlan
  \/ ExecutePrepared \/ CopyFromStdin
  \/ NativeWrite \/ NativeWriteOfNothing \/ NativeWriteFails \/ Fallback

Spec == Init /\ [][Next]_vars

-----------------------------------------------------------------------------
(***************************************************************************)
(* Properties.                                                             *)
(***************************************************************************)

(* Rows are written natively in the form of the columns the table has when *)
(* they are written: though version and types are read apart, cached for   *)
(* the session and kept in prepared statements, ValidateBinding on the     *)
(* version alone is enough to reject every stale combination of the two.   *)
NativeWritesFitTheSchema ==
  [][NativeWrite => stage.v = schema /\ stage.t = schema]_vars

(* The reason: whatever is cached, bound or kept, the types are at least   *)
(* as new as the version they go with and never newer than the table, so a *)
(* current version has current types.                                      *)
Ordered(v, t) == v <= schema /\ (t # 0 => v <= t /\ t <= schema)

BindingsAreOrdered ==
  /\ cache.info <= schema
  /\ \A v \in 1 .. MaxVersion :
       cache.types[v] # 0 => Ordered(v, cache.types[v])
  /\ Ordered(stage.v, stage.t) /\ Ordered(prepared.v, prepared.t)
=============================================================================
