---------------------- MODULE PgDuckdbTransactionProofs ----------------------
(***************************************************************************)
(* Safety of a pg_duckdb session, for any set of temporary tables and any  *)
(* number of statements and nested functions.                              *)
(*                                                                         *)
(* The argument has three parts.  LifeInv follows the DuckDB transaction   *)
(* through the life of the PostgreSQL transaction: it is never open in a   *)
(* subtransaction, and every end of the one ends the other.  RegistryInv   *)
(* follows the set of temporary tables with its copy: the set covers what  *)
(* DuckDB has now, the copy what it had at the last commit.  ClaimInv      *)
(* follows the command IDs: once a block has written to PostgreSQL, an ID  *)
(* was used that is not claimed, no later statement can claim it, and so   *)
(* the check at COMMIT sees the write.                                     *)
(***************************************************************************)
EXTENDS PgDuckdbTransaction, TLAPS

(* Most leaves are first-order: Zenon is tried unless another is named.    *)
USE Zenon

Ducks == [open : BOOLEAN, wrote : BOOLEAN, late : BOOLEAN]

TableSets == [pg : SUBSET Oids, pg_committed : SUBSET Oids,
              duck : SUBSET Oids, duck_committed : SUBSET Oids]

Over == {"idle", "aborted"}

(* The statics s are as the callback leaves them.                          *)
Ended(s) ==
  /\ s.top_level_statement
  /\ s.executor_nest_level = 0
  /\ s.top_level_duckdb_ddl_type = "NONE"

XactOK(x, s) ==
  /\ x \in Xacts
  /\ s \in Statics
  /\ x.kind \in Over => ~x.func /\ x.sub = "none" /\ x.cid = 0 /\ Ended(s)
  /\ x.sub # "none" => x.kind = "block"
  /\ x.func => s.executor_nest_level > 0

DuckOK(x, s, d, t) ==
  /\ d \in Ducks
  /\ t \in TableSets
  /\ d.open => s.initialized
  /\ x.sub # "none" => ~d.open
  /\ x.kind = "aborted" => ~d.open
  /\ x.kind = "idle" /\ d.open => d.late
  /\ t.duck # t.duck_committed => d.open /\ x.kind \notin Over
  /\ ~s.initialized => t.duck = {} /\ t.duck_committed = {}

LifeInv ==
  /\ XactOK(xact, statics)
  /\ DuckOK(xact, statics, duck, tables)
  /\ mixed \in Kinds

(* What an abort makes of temporary_duckdb_tables.                         *)
Old(s) == IF s.modified THEN s.temp_old ELSE s.temp

RegistryInv ==
  /\ TempTablesAreRegistered
  /\ tables.duck_committed \subseteq Old(statics)

ClaimInv ==
  /\ xact.kind = "block" /\ xact.fresh =>
       /\ statics.next_expected_command_id <= xact.cid
       /\ xact.pg \/ xact.pg_at_savepoint =>
            statics.next_expected_command_id < xact.cid
  /\ BlocksDoNotMixWrites

IInv ==
  /\ LifeInv
  /\ "duckdb" \notin LateFailures => RegistryInv
  /\ ~AllowMixed => ClaimInv

-----------------------------------------------------------------------------
(* The statics.                                                            *)

(* What the helpers make of the statics is of their type.                  *)
LEMMA StaticsTypes ==
  ASSUME NEW s \in Statics
  PROVE  /\ Initialize(s) \in Statics
         /\ EndStatics(s) \in Statics
         /\ Modify(s) \in Statics
         /\ CommitStatics(s) \in Statics
         /\ AbortStatics(s) \in Statics
<1>1. FirstCommandId \in 0..MaxCid /\ 0 \in 0..MaxNest
  BY FlagsAssumption, SMT DEF FirstCommandId
<1>2. Initialize(s) \in Statics /\ EndStatics(s) \in Statics
      /\ Modify(s) \in Statics
  BY <1>1 DEF Initialize, EndStatics, Modify, Statics, DdlTypes
<1>3. CommitStatics(s) \in Statics
  BY <1>1, <1>2 DEF CommitStatics, Statics
<1>4. AbortStatics(s) \in Statics
  BY <1>1, <1>2, <1>3 DEF AbortStatics, Statics
<1>. QED
  BY <1>2, <1>3, <1>4

(* The callback ends what it should, whatever the event.                   *)
LEMMA StaticsEnd ==
  ASSUME NEW s \in Statics
  PROVE  /\ Ended(EndStatics(s)) /\ EndStatics(s).initialized = s.initialized
         /\ Ended(CommitStatics(s))
         /\ CommitStatics(s).initialized = s.initialized
         /\ Ended(AbortStatics(s))
         /\ AbortStatics(s).initialized = s.initialized
<1>1. Ended(EndStatics(s)) /\ EndStatics(s).initialized = s.initialized
  BY DEF Ended, EndStatics, Statics
<1>2. Ended(CommitStatics(s)) /\ CommitStatics(s).initialized = s.initialized
  <2>1. CASE ~s.initialized
    BY <1>1, <2>1 DEF CommitStatics
  <2>2. CASE s.initialized
    <3>1. PICK e \in Statics : e = EndStatics(s)
      BY StaticsTypes
    <3>2. CommitStatics(s) = [e EXCEPT !.next_expected_command_id = FirstCommandId,
                                       !.modified = FALSE, !.temp_old = {}]
      BY <2>2, <3>1 DEF CommitStatics
    <3>3. /\ CommitStatics(s).initialized = e.initialized
          /\ CommitStatics(s).top_level_statement = e.top_level_statement
          /\ CommitStatics(s).executor_nest_level = e.executor_nest_level
          /\ CommitStatics(s).top_level_duckdb_ddl_type = e.top_level_duckdb_ddl_type
      BY <3>2 DEF Statics
    <3>. QED
      BY <1>1, <3>1, <3>3 DEF Ended
  <2>. QED
    BY <2>1, <2>2
<1>3. Ended(AbortStatics(s)) /\ AbortStatics(s).initialized = s.initialized
  BY <1>1, <1>2, StaticsTypes, SMT DEF Ended, AbortStatics, Statics
<1>. QED
  BY <1>1, <1>2, <1>3

(* A statement may turn the statics r into s, where n is the command ID    *)
(* that is expected next and T the set of temporary tables.                *)
Reached(s, r, n, T) ==
  /\ s \in Statics
  /\ r.initialized => s.initialized
  /\ s.executor_nest_level >= r.executor_nest_level
  /\ s.next_expected_command_id = n
  /\ s.temp = T
  /\ Old(s) = Old(r)

(* One change after another.                                               *)
LEMMA ReachedTransitive ==
  ASSUME NEW r \in Statics, NEW s \in Statics, NEW u, NEW n, NEW m, NEW T, NEW U,
         Reached(s, r, n, T), Reached(u, s, m, U)
  PROVE  Reached(u, r, m, U)
<1>1. /\ r.executor_nest_level \in Nat /\ s.executor_nest_level \in Nat
      /\ u.executor_nest_level \in Nat
  BY FlagsAssumption, SMT DEF Statics, Reached
<1>. QED
  BY <1>1, SMT DEF Reached

(* The changes that the hooks and triggers make.                           *)
LEMMA ReachedBySetting ==
  ASSUME NEW r \in Statics, NEW top \in BOOLEAN, NEW type \in DdlTypes
  PROVE  /\ Reached(r, r, r.next_expected_command_id, r.temp)
         /\ Reached([r EXCEPT !.top_level_statement = top], r,
                    r.next_expected_command_id, r.temp)
         /\ Reached([r EXCEPT !.top_level_duckdb_ddl_type = type], r,
                    r.next_expected_command_id, r.temp)
         /\ Reached(Initialize(r), r, r.next_expected_command_id, r.temp)
<1>. r.executor_nest_level \in Nat
  BY FlagsAssumption, SMT DEF Statics
<1>1. Reached(r, r, r.next_expected_command_id, r.temp)
  BY SMT DEF Reached
<1>2. Reached([r EXCEPT !.top_level_statement = top], r,
              r.next_expected_command_id, r.temp)
  BY SMT DEF Reached, Statics, Old
<1>3. Reached([r EXCEPT !.top_level_duckdb_ddl_type = type], r,
              r.next_expected_command_id, r.temp)
  BY SMT DEF Reached, Statics, Old
<1>4. Reached(Initialize(r), r, r.next_expected_command_id, r.temp)
  <2>. DEFINE s == Initialize(r)
  <2>1. s \in Statics /\ s.initialized /\ s.temp = r.temp
    BY StaticsTypes DEF Initialize, Statics
  <2>2. /\ s.next_expected_command_id = r.next_expected_command_id
        /\ s.executor_nest_level = r.executor_nest_level
    BY DEF Initialize, Statics
  <2>3. s.modified = r.modified /\ s.temp_old = r.temp_old
    BY DEF Initialize, Statics
  <2>. HIDE DEF s
  <2>. QED
    BY <2>1, <2>2, <2>3, SMT DEF Reached, Old, s
<1>. QED
  BY <1>1, <1>2, <1>3, <1>4

(* Entering an executor or a utility statement raises the nesting level    *)
(* alone.                                                                  *)
LEMMA ReachedByNesting ==
  ASSUME NEW r \in Statics, r.executor_nest_level < MaxNest
  PROVE  Reached([r EXCEPT !.executor_nest_level = @ + 1], r,
                 r.next_expected_command_id, r.temp)
<1>. /\ r.executor_nest_level \in Nat
     /\ r.executor_nest_level + 1 \in 0..MaxNest
  BY FlagsAssumption, SMT DEF Statics
<1>. QED
  BY SMT DEF Reached, Statics, Old

(* Claiming a command ID moves next_expected_command_id to the one after   *)
(* it.                                                                     *)
LEMMA ReachedByClaim ==
  ASSUME NEW r \in Statics, NEW cid \in Nat, cid + 1 <= MaxCid
  PROVE  Reached(Claim(r, cid), r, cid + 1, r.temp)
<1>. r.executor_nest_level \in Nat /\ cid + 1 \in 0..MaxCid
  BY FlagsAssumption, SMT DEF Statics
<1>. QED
  BY SMT DEF Reached, Statics, Claim, Old

(* Registering and unregistering keep what an abort would restore.         *)
LEMMA ReachedByRegistry ==
  ASSUME NEW r \in Statics, NEW relids \in SUBSET Oids
  PROVE  /\ \A relid \in Oids :
              Reached(RegisterDuckdbTempTable(r, relid), r,
                      r.next_expected_command_id, r.temp \cup {relid})
         /\ Reached(UnregisterDuckdbTempTables(r, relids), r,
                    r.next_expected_command_id, r.temp \ relids)
<1>1. Reached(Modify(r), r, r.next_expected_command_id, r.temp)
  <2>1. CASE r.modified
    BY <2>1, ReachedBySetting DEF Modify, DdlTypes
  <2>2. CASE ~r.modified
    <3>1. Modify(r) = [r EXCEPT !.modified = TRUE, !.temp_old = r.temp]
      BY <2>2 DEF Modify
    <3>2. r.executor_nest_level \in Nat
      BY FlagsAssumption, SMT DEF Statics
    <3>. QED
      BY <2>2, <3>1, <3>2, StaticsTypes, SMT DEF Reached, Statics, Old
  <2>. QED
    BY <2>1, <2>2
<1>2. PICK s \in Statics : /\ s = Modify(r) /\ s.modified
                           /\ Reached(s, r, r.next_expected_command_id, r.temp)
  BY <1>1, StaticsTypes DEF Modify, Statics
<1>3. ASSUME NEW T \in SUBSET Oids
      PROVE  Reached([s EXCEPT !.temp = T], s, s.next_expected_command_id, T)
  BY <1>2, FlagsAssumption, SMT DEF Reached, Statics, Old
<1>4. ASSUME NEW relid \in Oids
      PROVE  Reached(RegisterDuckdbTempTable(r, relid), r,
                     r.next_expected_command_id, r.temp \cup {relid})
  <2>1. RegisterDuckdbTempTable(r, relid) = [s EXCEPT !.temp = r.temp \cup {relid}]
    BY <1>2 DEF RegisterDuckdbTempTable, Reached
  <2>2. r.temp \cup {relid} \in SUBSET Oids
    BY DEF Statics
  <2>. QED
    BY <1>2, <1>3, <2>1, <2>2, ReachedTransitive, SMT DEF Reached
<1>5. CASE relids = {}
  BY <1>4, <1>5, ReachedBySetting, SMT DEF UnregisterDuckdbTempTables, Statics
<1>6. CASE relids # {}
  <2>1. UnregisterDuckdbTempTables(r, relids) = [s EXCEPT !.temp = r.temp \ relids]
    BY <1>2, <1>6 DEF UnregisterDuckdbTempTables, Reached
  <2>2. r.temp \ relids \in SUBSET Oids
    BY DEF Statics
  <2>3. Reached(UnregisterDuckdbTempTables(r, relids), s,
                s.next_expected_command_id, r.temp \ relids)
    BY <1>3, <2>1, <2>2
  <2>. QED
    BY <1>2, <1>4, <2>3, ReachedTransitive, SMT DEF Reached
<1>. QED
  BY <1>4, <1>5, <1>6

-----------------------------------------------------------------------------
(* The ends of a transaction, and failures.                                *)

(* A transaction that is rolled back leaves nothing open.                  *)
LEMMA RollsBackOK ==
  ASSUME LifeInv, NEW x, NEW s, x \in {NoXact, [NoXact EXCEPT !.kind = "aborted"]},
         s \in Statics, Ended(s), statics.initialized => s.initialized,
         RollsBackTo(x, s)
  PROVE  LifeInv'
<1>1. x \in Xacts /\ x.kind \in Over /\ ~x.func /\ x.sub = "none" /\ x.cid = 0
  <2>1. NoXact \in Xacts
    BY FlagsAssumption, SMT DEF NoXact, Xacts, FirstCommandId
  <2>2. CASE x = NoXact
    BY <2>1, <2>2 DEF NoXact, Over, FirstCommandId
  <2>3. CASE x = [NoXact EXCEPT !.kind = "aborted"]
    BY <2>1, <2>3 DEF NoXact, Xacts, Over, FirstCommandId
  <2>. QED
    BY <2>2, <2>3
<1>2. XactOK(xact', statics')
  BY <1>1 DEF RollsBackTo, XactOK
<1>3. /\ tables' \in TableSets
      /\ tables'.duck = tables.duck_committed
      /\ tables'.duck_committed = tables.duck_committed
  BY DEF LifeInv, DuckOK, TableSets, RollsBackTo
<1>4. duck' \in Ducks /\ ~duck'.open
  BY DEF RollsBackTo, NoDuck, Ducks
<1>5. ~s.initialized => tables.duck_committed = {}
  BY DEF LifeInv, DuckOK
<1>6. DuckOK(xact', statics', duck', tables')
  BY <1>1, <1>3, <1>4, <1>5 DEF RollsBackTo, DuckOK
<1>. QED
  BY <1>2, <1>6 DEF LifeInv, RollsBackTo

(* What a statement that fails with the statics s and after cids command   *)
(* IDs may have done: it has kept the registry, or rolls it back; if it    *)
(* claimed command IDs in a block, then all of them were free.             *)
Failure(s, cids) ==
  \E n, T :
    /\ Reached(s, statics, n, T)
    /\ cids \in 0..3 /\ xact.cid + cids <= MaxCid
    /\ xact.sub = "open" /\ TempTablesAreRegistered => tables.duck \subseteq T
    /\ \/ n = statics.next_expected_command_id
       \/ /\ n <= xact.cid + cids
          /\ xact.kind = "block" /\ ~AllowMixed =>
               xact.cid = statics.next_expected_command_id

(* The command ID of a transaction and the next one that is expected.      *)
LEMMA CommandIds ==
  ASSUME LifeInv
  PROVE  /\ xact.cid \in Nat /\ xact.cid <= MaxCid
         /\ statics.next_expected_command_id \in Nat
         /\ MaxCid \in Nat
         /\ statics \in Statics /\ xact \in Xacts
  BY FlagsAssumption, SMT DEF LifeInv, XactOK, Xacts, Statics

(* A failure in a savepoint, which leaves the statics.                     *)
LEMMA AbortSubTransactionOK ==
  ASSUME IInv, NEW s, NEW cids, Failure(s, cids),
         xact.sub = "open", AbortSubTransaction(s, cids)
  PROVE  IInv'
<1>. DEFINE x == [xact EXCEPT !.sub = "aborted", !.func = FALSE,
                       !.cid = @ + cids, !.pg = xact.pg_at_savepoint,
                       !.temp = @ \/ cids > 0]
<1>1. PICK n, T :
         /\ Reached(s, statics, n, T)
         /\ cids \in 0..3 /\ xact.cid + cids <= MaxCid
         /\ TempTablesAreRegistered => tables.duck \subseteq T
         /\ \/ n = statics.next_expected_command_id
            \/ /\ n <= xact.cid + cids
               /\ xact.kind = "block" /\ ~AllowMixed =>
                    xact.cid = statics.next_expected_command_id
  BY DEF Failure
<1>2. xact' = x /\ statics' = s /\ UNCHANGED <<duck, tables, mixed>>
  BY DEF AbortSubTransaction
<1>3. xact.kind = "block" /\ xact.cid + cids \in 0..MaxCid
  BY <1>1, CommandIds, SMT DEF IInv, LifeInv, XactOK
<1>4. (xact.temp \/ cids > 0) \in BOOLEAN
  OBVIOUS
<1>5. x \in Xacts
  BY <1>3, <1>4, CommandIds DEF IInv, Xacts
<1>6. /\ x.kind = "block" /\ x.sub = "aborted" /\ ~x.func
      /\ x.cid = xact.cid + cids /\ x.fresh = xact.fresh
      /\ x.pg = xact.pg_at_savepoint
      /\ x.pg_at_savepoint = xact.pg_at_savepoint
  BY <1>3, CommandIds DEF IInv, Xacts
<1>. HIDE DEF x
<1>7. XactOK(x, s)
  BY <1>1, <1>5, <1>6 DEF XactOK, Over, Reached
<1>8. DuckOK(x, s, duck, tables)
  BY <1>1, <1>6 DEF DuckOK, IInv, LifeInv, Over, Reached
<1>9. LifeInv'
  BY <1>2, <1>7, <1>8 DEF IInv, LifeInv
<1>10. ASSUME RegistryInv PROVE RegistryInv'
  BY <1>1, <1>2, <1>10 DEF RegistryInv, TempTablesAreRegistered, Reached
<1>11. ASSUME ClaimInv, ~AllowMixed PROVE ClaimInv'
  <2>1. /\ xact.fresh => /\ statics.next_expected_command_id <= xact.cid
                         /\ xact.pg \/ xact.pg_at_savepoint =>
                              statics.next_expected_command_id < xact.cid
        /\ BlocksDoNotMixWrites
    BY <1>3, <1>11 DEF ClaimInv
  <2>2. xact.fresh => n <= xact.cid + cids
                      /\ (xact.pg_at_savepoint => n < xact.cid + cids)
    BY <1>1, <1>3, <1>11, <2>1, CommandIds, SMT DEF IInv
  <2>. QED
    BY <1>1, <1>2, <1>6, <2>1, <2>2 DEF ClaimInv, BlocksDoNotMixWrites, Reached
<1>. QED
  BY <1>9, <1>10, <1>11 DEF IInv

(* XACT_EVENT_ABORT puts the registry back.                                *)
LEMMA AbortStaticsRestore ==
  ASSUME NEW s \in Statics, s.initialized
  PROVE  AbortStatics(s).temp = Old(s) /\ Old(AbortStatics(s)) = Old(s)
<1>1. PICK e \in Statics : e = EndStatics(s)
  BY StaticsTypes
<1>2. e.temp = s.temp
  BY <1>1 DEF EndStatics, Statics
<1>3. PICK c \in Statics : c = CommitStatics(s)
  BY StaticsTypes
<1>4. c.temp = s.temp /\ ~c.modified
  BY <1>1, <1>2, <1>3 DEF CommitStatics, Statics
<1>5. AbortStatics(s) = [c EXCEPT !.temp = Old(s)]
  BY <1>3, <1>4 DEF AbortStatics, Old
<1>6. Old(s) \in SUBSET Oids
  BY DEF Old, Statics
<1>7. AbortStatics(s).temp = Old(s) /\ AbortStatics(s).modified = c.modified
  BY <1>5, <1>6 DEF Statics
<1>. QED
  BY <1>4, <1>7 DEF Old

(* The whole transaction is rolled back, from the statics s.               *)
LEMMA AbortOK ==
  ASSUME IInv, NEW x, x \in {NoXact, [NoXact EXCEPT !.kind = "aborted"]},
         NEW s \in Statics, statics.initialized => s.initialized,
         "duckdb" \notin LateFailures => Old(s) = Old(statics),
         RollsBackTo(x, AbortStatics(s))
  PROVE  IInv'
<1>1. /\ AbortStatics(s) \in Statics /\ Ended(AbortStatics(s))
      /\ AbortStatics(s).initialized = s.initialized
  BY StaticsTypes, StaticsEnd
<1>2. LifeInv'
  BY <1>1, RollsBackOK, SMT DEF IInv
<1>3. /\ tables'.duck = tables.duck_committed
      /\ tables'.duck_committed = tables.duck_committed
      /\ statics' = AbortStatics(s) /\ mixed' = mixed
  BY DEF IInv, LifeInv, DuckOK, TableSets, RollsBackTo
<1>4. ASSUME RegistryInv, "duckdb" \notin LateFailures PROVE RegistryInv'
  <2>1. CASE s.initialized
    BY <1>3, <1>4, <2>1, AbortStaticsRestore
    DEF RegistryInv, TempTablesAreRegistered
  <2>2. CASE ~s.initialized
    <3>1. tables.duck_committed = {}
      BY <2>2 DEF IInv, LifeInv, DuckOK
    <3>. QED
      BY <1>3, <3>1 DEF RegistryInv, TempTablesAreRegistered
  <2>. QED
    BY <2>1, <2>2
<1>5. xact'.kind \in {"idle", "aborted"}
  BY SMT DEF RollsBackTo, NoXact
<1>6. ASSUME ClaimInv PROVE ClaimInv'
  BY <1>3, <1>5, <1>6 DEF ClaimInv, BlocksDoNotMixWrites
<1>. QED
  BY <1>2, <1>4, <1>6 DEF IInv

(* A statement that fails.                                                 *)
LEMMA FailsAfterOK ==
  ASSUME IInv, NEW s, NEW cids, Failure(s, cids), FailsAfter(s, cids)
  PROVE  IInv'
<1>1. CASE xact.sub = "open" /\ AbortSubTransaction(s, cids)
  BY <1>1, AbortSubTransactionOK
<1>2. CASE AbortTransaction(s)
  <2>1. PICK x \in {NoXact, [NoXact EXCEPT !.kind = "aborted"]} :
               RollsBackTo(x, AbortStatics(s))
    BY <1>2 DEF AbortTransaction
  <2>2. /\ s \in Statics /\ Old(s) = Old(statics)
        /\ statics.initialized => s.initialized
    BY DEF Failure, Reached
  <2>. QED
    BY <2>1, <2>2, AbortOK
<1>. QED
  BY <1>1, <1>2 DEF FailsAfter

-----------------------------------------------------------------------------
(* Statements that succeed.                                                *)

(* The transaction a statement runs in.                                    *)
LEMMA RunningOK ==
  ASSUME LifeInv, CanRun
  PROVE  /\ Running \in Xacts /\ Running.kind \in {"implicit", "block"}
         /\ Running.sub = xact.sub /\ Running.cid = xact.cid
         /\ Running.func = xact.func
         /\ Running.kind = "block" => Running = xact
<1>1. CASE xact.kind = "idle"
  <2>1. (statics.next_expected_command_id = FirstCommandId) \in BOOLEAN
    OBVIOUS
  <2>2. NoXact \in Xacts /\ NoXact.sub = "none" /\ NoXact.cid = 0
        /\ ~NoXact.func
    BY FlagsAssumption, SMT DEF NoXact, Xacts, FirstCommandId
  <2>3. /\ Running \in Xacts /\ Running.kind = "implicit"
        /\ Running.sub = NoXact.sub
        /\ Running.cid = NoXact.cid /\ Running.func = NoXact.func
    BY <1>1, <2>1, <2>2 DEF Running, Xacts
  <2>4. xact.sub = "none" /\ xact.cid = 0 /\ ~xact.func /\ xact \in Xacts
    BY <1>1 DEF LifeInv, XactOK, Over
  <2>5. xact.func = FALSE /\ NoXact.func = FALSE
    BY <2>2, <2>4 DEF Xacts
  <2>. QED
    BY <2>2, <2>3, <2>4, <2>5
<1>2. CASE xact.kind # "idle"
  BY <1>2 DEF LifeInv, XactOK, CanRun, Running
<1>. QED
  BY <1>1, <1>2

(* x is the transaction after a statement that used cids command IDs.      *)
Ran(x, cids) ==
  /\ x \in Xacts
  /\ x.kind = Running.kind /\ x.sub = Running.sub /\ x.fresh = Running.fresh
  /\ x.pg_at_savepoint = Running.pg_at_savepoint
  /\ x.cid = xact.cid + cids

(* A statement that succeeds, with the same meaning of n and T as above:   *)
(* it may change DuckDB's tables in an open transaction only, and registers *)
(* them.  In a block, it either claims nothing and uses a command ID if it *)
(* writes to PostgreSQL, or finds every command ID claimed, claims its own *)
(* and then, if it writes to PostgreSQL, one less.                         *)
Success(cids, n, T) ==
  /\ Ran(xact', cids) /\ cids \in 0..3
  /\ xact'.func => statics'.executor_nest_level > 0
  /\ Reached(statics', statics, n, T)
  /\ duck' \in Ducks /\ (duck.open => duck'.open)
  /\ duck'.open => statics'.initialized /\ ConnectionAllowed
  /\ tables' \in TableSets /\ tables'.duck_committed = tables.duck_committed
  /\ tables'.duck # tables.duck => duck'.open
  /\ TempTablesAreRegistered => tables'.duck \subseteq T
  /\ mixed' = mixed
  /\ \/ /\ n = statics.next_expected_command_id
        /\ xact'.pg => Running.pg \/ cids > 0
     \/ /\ n <= xact.cid + cids
        /\ xact.kind = "block" /\ ~AllowMixed =>
             /\ xact.cid = statics.next_expected_command_id
             /\ xact'.pg => Running.pg \/ n < xact.cid + cids

(* A statement that succeeds keeps the invariant.                          *)
LEMMA SuccessOK ==
  ASSUME IInv, CanRun, NEW cids, NEW n, NEW T, Success(cids, n, T)
  PROVE  IInv'
<1>. LifeInv
  BY DEF IInv
<1>1. /\ xact'.kind \in {"implicit", "block"} /\ xact'.sub = xact.sub
      /\ xact' \in Xacts /\ xact'.kind = Running.kind
  BY RunningOK DEF Success, Ran
<1>2. xact.sub # "none" => xact'.kind = "block" /\ ~duck'.open
  <2>1. xact.sub # "none" => xact.kind = "block" /\ ~duck.open
    BY DEF LifeInv, XactOK, DuckOK
  <2>2. xact.kind = "block" => Running = xact
    BY DEF Running
  <2>. QED
    BY <1>1, <2>1, <2>2 DEF Success, ConnectionAllowed
<1>3. XactOK(xact', statics')
  BY <1>1, <1>2 DEF XactOK, Success, Reached, Over
<1>4. DuckOK(xact', statics', duck', tables')
  <2>1. tables'.duck # tables'.duck_committed => duck'.open
    BY DEF LifeInv, DuckOK, Success
  <2>2. ~statics'.initialized => tables'.duck = {}
                                 /\ tables'.duck_committed = {}
    BY DEF LifeInv, DuckOK, Success, Reached
  <2>. QED
    BY <1>1, <1>2, <2>1, <2>2 DEF DuckOK, Success, Over
<1>5. LifeInv'
  BY <1>3, <1>4 DEF LifeInv, Success
<1>6. ASSUME RegistryInv PROVE RegistryInv'
  BY <1>6 DEF RegistryInv, TempTablesAreRegistered, Success, Reached
<1>7. ASSUME ClaimInv, ~AllowMixed PROVE ClaimInv'
  <2>1. SUFFICES ASSUME xact'.kind = "block", xact'.fresh
                 PROVE  /\ n <= xact.cid + cids
                        /\ xact'.pg \/ xact'.pg_at_savepoint => n < xact.cid + cids
    BY <1>7 DEF ClaimInv, BlocksDoNotMixWrites, Success, Reached, Ran
  <2>2. /\ xact.kind = "block" /\ Running = xact /\ xact.fresh
        /\ xact'.pg_at_savepoint = xact.pg_at_savepoint
    BY <1>1, <2>1, RunningOK DEF Success, Ran
  <2>3. /\ statics.next_expected_command_id <= xact.cid
        /\ xact.pg \/ xact.pg_at_savepoint =>
             statics.next_expected_command_id < xact.cid
    BY <1>7, <2>2 DEF ClaimInv
  <2>4. CASE /\ n = statics.next_expected_command_id
             /\ xact'.pg => Running.pg \/ cids > 0
    BY <2>2, <2>3, <2>4, CommandIds, SMT DEF Success
  <2>5. CASE /\ n <= xact.cid + cids
             /\ xact.cid = statics.next_expected_command_id
             /\ xact'.pg => Running.pg \/ n < xact.cid + cids
    BY <2>2, <2>3, <2>5, CommandIds, SMT DEF Success
  <2>. QED
    BY <1>7, <2>2, <2>4, <2>5 DEF Success
<1>. QED
  BY <1>5, <1>6, <1>7 DEF IInv

-----------------------------------------------------------------------------
(* The statements.                                                         *)

(* A statement that fails before it claims or registers anything.          *)
LEMMA FailsOK ==
  ASSUME IInv, NEW s, Fails(s),
         Reached(s, statics, statics.next_expected_command_id, statics.temp)
  PROVE  IInv'
<1>1. xact.cid \in Nat /\ xact.cid <= MaxCid
  BY CommandIds DEF IInv
<1>2. Failure(s, 0)
  BY <1>1, SMT DEF Failure, TempTablesAreRegistered
<1>. QED
  BY <1>2, FailsAfterOK DEF Fails

(* The parts of Success that hold of a statement that leaves DuckDB alone. *)
LEMMA DuckUnchanged ==
  ASSUME LifeInv, UNCHANGED <<duck, tables, mixed>>,
         statics.initialized => statics'.initialized
  PROVE  /\ duck' \in Ducks /\ (duck.open => duck'.open)
         /\ duck'.open => statics'.initialized /\ ConnectionAllowed
         /\ tables' \in TableSets
         /\ tables'.duck_committed = tables.duck_committed
         /\ tables'.duck # tables.duck => duck'.open
         /\ TempTablesAreRegistered => tables'.duck \subseteq statics.temp
         /\ mixed' = mixed
  BY DEF LifeInv, DuckOK, ConnectionAllowed, TempTablesAreRegistered

(* A statement does not change whether the session is in a function.       *)
LEMMA StaysInFunction ==
  ASSUME LifeInv, CanRun, xact'.func = Running.func,
         NEW n, NEW T, Reached(statics', statics, n, T)
  PROVE  xact'.func => statics'.executor_nest_level > 0
<1>1. xact.func => statics.executor_nest_level > 0
  BY DEF LifeInv, XactOK
<1>2. statics.executor_nest_level \in Nat
      /\ statics'.executor_nest_level \in Nat
  BY FlagsAssumption, CommandIds, SMT DEF Reached, Statics
<1>3. xact'.func = xact.func
  BY RunningOK
<1>4. statics'.executor_nest_level >= statics.executor_nest_level
  BY DEF Reached
<1>. QED
  BY <1>1, <1>2, <1>3, <1>4, SMT

(* The transaction after a statement.                                      *)
LEMMA RanBy ==
  ASSUME LifeInv, CanRun, NEW cids \in 0..3, xact.cid + cids <= MaxCid
  PROVE  /\ Ran(Running, 0)
         /\ Ran([Running EXCEPT !.cid = @ + cids], cids)
         /\ Ran([Running EXCEPT !.cid = @ + cids, !.pg = TRUE], cids)
         /\ Ran([Running EXCEPT !.cid = @ + cids, !.temp = TRUE], cids)
<1>1. PICK r \in Xacts : r = Running /\ r.cid = xact.cid
  BY RunningOK
<1>2. xact.cid \in Nat /\ r.cid + cids \in 0..MaxCid
  BY <1>1, CommandIds, SMT
<1>3. Ran(r, 0)
  BY <1>1, <1>2, SMT DEF Ran
<1>4. Ran([r EXCEPT !.cid = @ + cids], cids)
  BY <1>1, <1>2 DEF Ran, Xacts
<1>5. Ran([r EXCEPT !.cid = @ + cids, !.pg = TRUE], cids)
  BY <1>1, <1>2 DEF Ran, Xacts
<1>6. Ran([r EXCEPT !.cid = @ + cids, !.temp = TRUE], cids)
  BY <1>1, <1>2 DEF Ran, Xacts
<1>. QED
  BY <1>1, <1>3, <1>4, <1>5, <1>6

(* A write to a PostgreSQL table uses a command ID without claiming it.    *)
LEMMA PgWriteOK == IInv /\ PgWrite => IInv'
<1>. SUFFICES ASSUME IInv, PgWrite PROVE IInv'
  OBVIOUS
<1>. LifeInv /\ CanRun /\ xact.cid < MaxCid
  BY DEF IInv, PgWrite
<1>. DEFINE n == statics.next_expected_command_id
<1>1. CASE ~AllowWrites /\ Fails(statics)
  BY <1>1, FailsOK, ReachedBySetting, CommandIds DEF DdlTypes
<1>2. CASE /\ xact' = [Running EXCEPT !.cid = @ + 1, !.pg = TRUE]
           /\ statics' = [statics EXCEPT !.top_level_statement = FALSE]
           /\ UNCHANGED <<duck, tables, mixed>>
  <2>1. Reached(statics', statics, n, statics.temp)
    BY <1>2, ReachedBySetting, CommandIds DEF DdlTypes
  <2>2. Ran(xact', 1) /\ xact'.func = Running.func
    <3>1. xact.cid + 1 <= MaxCid /\ 1 \in 0..3
      BY CommandIds, SMT
    <3>2. Ran(xact', 1)
      BY <1>2, <3>1, RanBy
    <3>. QED
      BY <1>2, <3>2, RunningOK DEF Xacts
  <2>3. xact'.func => statics'.executor_nest_level > 0
    BY <2>1, <2>2, StaysInFunction
  <2>4. statics.initialized => statics'.initialized
    BY <2>1 DEF Reached
  <2>5. Success(1, n, statics.temp)
    BY <1>2, <2>1, <2>2, <2>3, <2>4, DuckUnchanged, SMT DEF Success
  <2>. QED
    BY <2>5, SuccessOK
<1>. QED
  BY <1>1, <1>2 DEF PgWrite

(* DDL of PostgreSQL is a write to PostgreSQL, with or without the pending *)
(* DDL type of REFRESH MATERIALIZED VIEW.                                  *)
LEMMA PgDdlOK ==
  ASSUME IInv, NEW type \in {"NONE", "REFRESH_MATERIALIZED_VIEW"}, PgDdl(type)
  PROVE  IInv'
<1>. LifeInv /\ CanRun /\ xact.cid < MaxCid
  BY DEF IInv, PgDdl
<1>. DEFINE n == statics.next_expected_command_id
<1>1. Reached(statics', statics, n, statics.temp)
  BY ReachedBySetting, CommandIds DEF DdlTypes, PgDdl
<1>2. Ran(xact', 1) /\ xact'.func = Running.func
  <2>1. xact.cid + 1 <= MaxCid /\ 1 \in 0..3
    BY CommandIds, SMT
  <2>2. Ran(xact', 1)
    BY <2>1, RanBy DEF PgDdl
  <2>. QED
    BY <2>2, RunningOK DEF Xacts, PgDdl
<1>3. xact'.func => statics'.executor_nest_level > 0
  BY <1>1, <1>2, StaysInFunction
<1>4. statics.initialized => statics'.initialized
  BY <1>1 DEF Reached
<1>5. Success(1, n, statics.temp)
  BY <1>1, <1>2, <1>3, <1>4, DuckUnchanged, SMT DEF Success, PgDdl
<1>. QED
  BY <1>5, SuccessOK

(* What a statement of DuckDB that leaves its tables alone makes of the    *)
(* DuckDB transaction.                                                     *)
LEMMA DuckOpened ==
  ASSUME LifeInv, ConnectionAllowed, statics'.initialized,
         duck' \in Ducks, duck.open => duck'.open, UNCHANGED <<tables, mixed>>
  PROVE  /\ duck'.open => statics'.initialized /\ ConnectionAllowed
         /\ tables' \in TableSets
         /\ tables'.duck_committed = tables.duck_committed
         /\ tables'.duck # tables.duck => duck'.open
         /\ TempTablesAreRegistered => tables'.duck \subseteq statics.temp
         /\ mixed' = mixed
  BY DEF LifeInv, DuckOK, TempTablesAreRegistered

(* In a block, ClaimCurrentCommandId finds every command ID claimed.       *)
LEMMA ClaimableInBlock ==
  ASSUME NEW top, Claimable(top), xact.kind = "block", ~AllowMixed
  PROVE  xact.cid = statics.next_expected_command_id
  BY DEF Claimable, MixedWritesAllowed, IsInTransactionBlock

(* Initialize in what the statements do to the statics.                    *)
LEMMA ReachedInitialized ==
  ASSUME LifeInv
  PROVE  /\ Initialize(statics) \in Statics /\ Initialize(statics).initialized
         /\ Reached(Initialize(statics), statics,
                    statics.next_expected_command_id, statics.temp)
  BY CommandIds, StaticsTypes, ReachedBySetting
  DEF DdlTypes, Initialize, Statics

(* A query that writes leaves the DuckDB transaction open.                 *)
LEMMA WrittenOK ==
  ASSUME LifeInv
  PROVE  Written \in Ducks /\ Written.open
  BY DEF LifeInv, DuckOK, Written, Ducks

(* A statement that uses the DuckDB connection, leaves DuckDB's temporary  *)
(* tables alone and does not write to PostgreSQL: it claims nothing, or    *)
(* claims after the check of ClaimCurrentCommandId.                        *)
LEMMA DuckStatementOK ==
  ASSUME IInv, CanRun, NEW cids, NEW n,
         Ran(xact', cids), cids \in 0..3,
         xact'.func = Running.func, xact'.pg = Running.pg,
         Reached(statics', statics, n, statics.temp),
         ConnectionAllowed, statics'.initialized,
         duck' \in Ducks, duck.open => duck'.open, UNCHANGED <<tables, mixed>>,
         \/ n = statics.next_expected_command_id
         \/ n <= xact.cid + cids /\ \E top : Claimable(top)
  PROVE  IInv'
<1>1. LifeInv
  BY DEF IInv
<1>2. xact'.func => statics'.executor_nest_level > 0
  BY <1>1, StaysInFunction
<1>3. xact'.pg => Running.pg
  OBVIOUS
<1>4. (\E top : Claimable(top)) /\ xact.kind = "block" /\ ~AllowMixed =>
        xact.cid = statics.next_expected_command_id
  BY ClaimableInBlock
<1>5. Success(cids, n, statics.temp)
  BY <1>1, <1>2, <1>3, <1>4, DuckOpened DEF Success
<1>. QED
  BY <1>5, SuccessOK

(* A SELECT in DuckDB claims its command ID if the DuckDB transaction      *)
(* wrote, or fails.                                                        *)
LEMMA DuckSelectOK == IInv /\ DuckSelect => IInv'
<1>. SUFFICES ASSUME IInv, DuckSelect PROVE IInv'
  OBVIOUS
<1>. DEFINE n == statics.next_expected_command_id
            s == Initialize(statics)
            top == statics.top_level_statement
<1>0. LifeInv /\ CanRun /\ xact.cid < MaxCid
  BY DEF IInv, DuckSelect
<1>1. CASE Fails(statics)
  BY <1>0, <1>1, FailsOK, ReachedBySetting, CommandIds DEF DdlTypes
<1>2. CASE Fails(s)
  BY <1>0, <1>2, FailsOK, ReachedInitialized
<1>3. CASE /\ ConnectionAllowed
           /\ DuckDidWrites => Claimable(top)
           /\ xact' = IF DuckDidWrites THEN [Running EXCEPT !.cid = @ + 1] ELSE Running
           /\ statics' = IF DuckDidWrites THEN Claim(s, xact.cid) ELSE s
           /\ duck' = [duck EXCEPT !.open = OpensTransaction(FALSE, top)]
           /\ UNCHANGED <<tables, mixed>>
  <2>1. xact.cid + 1 <= MaxCid /\ xact.cid \in Nat /\ n \in Nat
    BY <1>0, CommandIds, SMT
  <2>2. OpensTransaction(FALSE, top) \in BOOLEAN
        /\ (duck.open => OpensTransaction(FALSE, top))
    BY DEF OpensTransaction, IsInTransactionBlock
  <2>3. duck \in Ducks
    BY <1>0 DEF LifeInv, DuckOK
  <2>4. duck' \in Ducks /\ (duck.open => duck'.open)
    BY <1>3, <2>2, <2>3 DEF Ducks
  <2>5. CASE DuckDidWrites
    <3>1. statics' = Claim(s, xact.cid)
          /\ xact' = [Running EXCEPT !.cid = @ + 1]
      BY <1>3, <2>5
    <3>2. Reached(Claim(s, xact.cid), s, xact.cid + 1, s.temp)
          /\ s.temp = statics.temp
      BY <1>0, <2>1, ReachedByClaim, ReachedInitialized DEF Reached
    <3>3. Reached(statics', statics, xact.cid + 1, statics.temp)
      BY <1>0, <3>1, <3>2, ReachedInitialized, ReachedTransitive, CommandIds, SMT
    <3>4. Ran(xact', 1) /\ 1 \in 0..3
      BY <1>0, <2>1, <3>1, RanBy, SMT
    <3>5. xact'.func = Running.func /\ xact'.pg = Running.pg
      BY <1>0, <3>1, RunningOK DEF Xacts
    <3>6. statics'.initialized
      BY <1>0, <3>1, <3>2, ReachedInitialized DEF Reached
    <3>7. xact.cid + 1 <= xact.cid + 1 /\ \E t : Claimable(t)
      BY <1>3, <2>1, <2>5, SMT
    <3>. QED
      BY <1>0, <1>3, <2>4, <3>3, <3>4, <3>5, <3>6, <3>7, DuckStatementOK
  <2>6. CASE ~DuckDidWrites
    <3>1. statics' = s /\ xact' = Running
      BY <1>3, <2>6
    <3>2. Reached(statics', statics, n, statics.temp) /\ statics'.initialized
      BY <1>0, <3>1, ReachedInitialized
    <3>3. Ran(xact', 0) /\ 0 \in 0..3
      BY <1>0, <2>1, <3>1, RanBy, SMT
    <3>. QED
      BY <1>0, <1>3, <2>4, <3>1, <3>2, <3>3, DuckStatementOK
  <2>. QED
    BY <2>5, <2>6
<1>. QED
  BY <1>1, <1>2, <1>3 DEF DuckSelect

(* Claiming a command ID after the statics s were reached.                 *)
LEMMA ReachedThenClaimed ==
  ASSUME LifeInv, NEW s, NEW n, NEW T, Reached(s, statics, n, T),
         NEW cid \in Nat, cid + 1 <= MaxCid
  PROVE  /\ Reached(Claim(s, cid), statics, cid + 1, T)
         /\ s.initialized => Claim(s, cid).initialized
<1>1. s \in Statics /\ s.temp = T
  BY DEF Reached
<1>2. Reached(Claim(s, cid), s, cid + 1, s.temp)
  BY <1>1, ReachedByClaim
<1>. QED
  BY <1>1, <1>2, ReachedTransitive, CommandIds, SMT DEF Reached

(* Entering the executor after the statics s were reached.                 *)
LEMMA ReachedThenNested ==
  ASSUME LifeInv, NEW s, NEW n, NEW T, Reached(s, statics, n, T),
         s.executor_nest_level < MaxNest
  PROVE  Reached([s EXCEPT !.executor_nest_level = @ + 1], statics, n, T)
<1>1. s \in Statics /\ s.temp = T /\ s.next_expected_command_id = n
  BY DEF Reached
<1>2. Reached([s EXCEPT !.executor_nest_level = @ + 1], s, n, T)
  BY <1>1, ReachedByNesting
<1>. QED
  BY <1>1, <1>2, ReachedTransitive, CommandIds

(* The hooks' other changes after the statics s were reached.              *)
LEMMA ReachedThenSet ==
  ASSUME LifeInv, NEW s, NEW n, NEW T, Reached(s, statics, n, T),
         NEW top \in BOOLEAN, NEW type \in DdlTypes
  PROVE  /\ Reached([s EXCEPT !.top_level_statement = top], statics, n, T)
         /\ Reached([s EXCEPT !.top_level_duckdb_ddl_type = type], statics, n, T)
         /\ Reached(Initialize(s), statics, n, T) /\ Initialize(s).initialized
<1>1. s \in Statics /\ s.temp = T /\ s.next_expected_command_id = n
  BY DEF Reached
<1>2. Initialize(s).initialized
  BY <1>1 DEF Initialize, Statics
<1>3. Reached([s EXCEPT !.top_level_statement = top], statics, n, T)
  <2>1. Reached([s EXCEPT !.top_level_statement = top], s, n, T)
    BY <1>1, ReachedBySetting
  <2>. QED
    BY <1>1, <2>1, ReachedTransitive, CommandIds
<1>4. Reached([s EXCEPT !.top_level_duckdb_ddl_type = type], statics, n, T)
  <2>1. Reached([s EXCEPT !.top_level_duckdb_ddl_type = type], s, n, T)
    BY <1>1, ReachedBySetting
  <2>. QED
    BY <1>1, <2>1, ReachedTransitive, CommandIds
<1>5. Reached(Initialize(s), statics, n, T)
  <2>1. Reached(Initialize(s), s, n, T)
    BY <1>1, ReachedBySetting
  <2>. QED
    BY <1>1, <2>1, ReachedTransitive, CommandIds
<1>. QED
  BY <1>2, <1>3, <1>4, <1>5

(* A write to a DuckDB table claims its command ID or fails.               *)
LEMMA DuckWriteOK == IInv /\ DuckWrite => IInv'
<1>. SUFFICES ASSUME IInv, DuckWrite PROVE IInv'
  OBVIOUS
<1>. DEFINE s == Initialize(statics)
            top == statics.top_level_statement
            opens == OpensTransaction(FALSE, top)
<1>0. LifeInv /\ CanRun /\ xact.cid + 1 < MaxCid
  BY DEF IInv, DuckWrite
<1>1. CASE Fails(statics)
  BY <1>0, <1>1, FailsOK, ReachedBySetting, CommandIds DEF DdlTypes
<1>2. CASE Fails(s)
  BY <1>0, <1>2, FailsOK, ReachedInitialized
<1>3. CASE /\ s.executor_nest_level < MaxNest
           /\ Fails([s EXCEPT !.executor_nest_level = @ + 1])
  BY <1>0, <1>3, ReachedInitialized, ReachedThenNested, FailsOK
<1>4. ASSUME NEW cids \in {1, 2}, ConnectionAllowed, Claimable(top),
             xact' = [Running EXCEPT !.cid = @ + cids],
             statics' = Claim(s, xact.cid + cids - 1),
             duck' = IF opens THEN Written ELSE duck,
             UNCHANGED <<tables, mixed>>
      PROVE  IInv'
  <2>. DEFINE c == xact.cid + cids - 1
  <2>1. /\ cids \in 0..3 /\ xact.cid + cids <= MaxCid
        /\ c \in Nat /\ c + 1 <= MaxCid /\ c + 1 <= xact.cid + cids
    BY <1>0, <1>4, CommandIds, SMT
  <2>2. statics' = Claim(s, c)
    BY <1>4
  <2>. HIDE DEF c
  <2>3. Reached(statics', statics, c + 1, statics.temp) /\ statics'.initialized
    BY <1>0, <2>1, <2>2, ReachedThenClaimed, ReachedInitialized
  <2>4. Ran(xact', cids)
    BY <1>0, <1>4, <2>1, RanBy
  <2>5. xact'.func = Running.func /\ xact'.pg = Running.pg
    BY <1>0, <1>4, RunningOK DEF Xacts
  <2>6. duck' \in Ducks /\ (duck.open => duck'.open)
    BY <1>0, <1>4, WrittenOK DEF LifeInv, DuckOK
  <2>. QED
    BY <1>0, <1>4, <2>1, <2>3, <2>4, <2>5, <2>6, DuckStatementOK
<1>. QED
  BY <1>1, <1>2, <1>3, <1>4 DEF DuckWrite

(* COPY in DuckDB, to a file or from one, claims nothing.                  *)
LEMMA CopyOK ==
  ASSUME IInv, NEW from \in BOOLEAN, Copy(from)
  PROVE  IInv'
<1>. DEFINE s == Initialize(statics)
            opens == OpensTransaction(FALSE, statics.top_level_statement)
<1>0. LifeInv /\ CanRun /\ xact.cid + 0 <= MaxCid /\ 0 \in 0..3
  BY CommandIds, SMT DEF IInv, Copy
<1>1. CASE Fails(s)
  BY <1>0, <1>1, FailsOK, ReachedInitialized
<1>2. CASE /\ ConnectionAllowed
           /\ xact' = Running
           /\ statics' = s
           /\ duck' = [duck EXCEPT !.open = opens, !.wrote = @ \/ (from /\ opens)]
           /\ UNCHANGED <<tables, mixed>>
  <2>1. opens \in BOOLEAN /\ (duck.open => opens)
    BY DEF OpensTransaction, IsInTransactionBlock
  <2>2. (duck.wrote \/ (from /\ opens)) \in BOOLEAN /\ duck \in Ducks
    BY <1>0 DEF LifeInv, DuckOK
  <2>3. duck' \in Ducks /\ (duck.open => duck'.open)
    BY <1>2, <2>1, <2>2 DEF Ducks
  <2>4. Ran(xact', 0)
    BY <1>0, <1>2, RanBy
  <2>5. Reached(statics', statics, statics.next_expected_command_id, statics.temp)
        /\ statics'.initialized
    BY <1>0, <1>2, ReachedInitialized
  <2>. QED
    BY <1>0, <1>2, <2>3, <2>4, <2>5, DuckStatementOK
<1>. QED
  BY <1>1, <1>2 DEF Copy

(* TRUNCATE of a temporary table, with the command ID it does not claim.   *)
LEMMA DuckdbTruncateTableOK ==
  ASSUME IInv, NEW relid, DuckdbTruncateTable(relid)
  PROVE  IInv'
<1>. DEFINE i == Initialize(statics)
            s == [i EXCEPT !.top_level_statement = ~xact.func]
            n == statics.next_expected_command_id
<1>0. LifeInv /\ CanRun /\ xact.cid + 1 <= MaxCid /\ 1 \in 0..3
  BY CommandIds, SMT DEF IInv, DuckdbTruncateTable
<1>1. (~xact.func) \in BOOLEAN /\ statics.top_level_statement \in BOOLEAN
  BY <1>0, CommandIds DEF Statics
<1>2. Reached(s, statics, n, statics.temp) /\ s.initialized
  <2>1. s.initialized
    BY <1>0, ReachedInitialized DEF Statics
  <2>. QED
    BY <1>0, <1>1, <2>1, ReachedInitialized, ReachedThenSet DEF DdlTypes
<1>3. CASE Fails(s)
  BY <1>2, <1>3, FailsOK
<1>4. CASE /\ ConnectionAllowed
           /\ xact' = [Running EXCEPT !.cid = @ + 1, !.temp = TRUE]
           /\ statics' = [s EXCEPT !.top_level_statement =
                                  statics.top_level_statement]
           /\ duck' = duck \/ duck' = Written
           /\ UNCHANGED <<tables, mixed>>
  <2>1. s \in Statics
    BY <1>2 DEF Reached
  <2>. HIDE DEF s
  <2>2. Reached(statics', statics, n, statics.temp) /\ statics'.initialized
    <3>1. statics'.initialized
      BY <1>2, <1>4, <2>1 DEF Statics
    <3>. QED
      BY <1>0, <1>1, <1>2, <1>4, <3>1, ReachedThenSet DEF DdlTypes
  <2>3. Ran(xact', 1)
    BY <1>0, <1>4, RanBy
  <2>4. xact'.func = Running.func /\ xact'.pg = Running.pg
    BY <1>0, <1>4, RunningOK DEF Xacts
  <2>5. duck' \in Ducks /\ (duck.open => duck'.open)
    BY <1>0, <1>4, WrittenOK DEF LifeInv, DuckOK
  <2>. QED
    BY <1>0, <1>4, <2>2, <2>3, <2>4, <2>5, DuckStatementOK
<1>. QED
  BY <1>3, <1>4 DEF DuckdbTruncateTable

(* raw_query writes to DuckDB without a claim.                             *)
LEMMA RawQueryOK == IInv /\ RawQuery => IInv'
<1>. SUFFICES ASSUME IInv, RawQuery PROVE IInv'
  OBVIOUS
<1>. DEFINE i == Initialize(statics)
            s == [i EXCEPT !.top_level_statement = FALSE]
            n == statics.next_expected_command_id
<1>0. LifeInv /\ CanRun /\ xact.cid + 0 <= MaxCid /\ 0 \in 0..3
  BY CommandIds, SMT DEF IInv, RawQuery
<1>1. Reached(s, statics, n, statics.temp) /\ s.initialized
  <2>1. s.initialized
    BY <1>0, ReachedInitialized DEF Statics
  <2>. QED
    BY <1>0, <2>1, ReachedInitialized, ReachedThenSet DEF DdlTypes
<1>2. CASE /\ s.executor_nest_level < MaxNest
           /\ Fails([s EXCEPT !.executor_nest_level = @ + 1])
  <2>. HIDE DEF s
  <2>. QED
    BY <1>0, <1>1, <1>2, ReachedThenNested, FailsOK
<1>3. CASE /\ ConnectionAllowed
           /\ xact' = Running
           /\ statics' = s
           /\ duck' = Written
           /\ UNCHANGED <<tables, mixed>>
  <2>1. Ran(xact', 0)
    BY <1>0, <1>3, RanBy
  <2>. HIDE DEF s
  <2>. QED
    BY <1>0, <1>1, <1>3, <2>1, WrittenOK, DuckStatementOK
<1>. QED
  BY <1>2, <1>3 DEF RawQuery

-----------------------------------------------------------------------------
(* DDL on temporary tables.                                                *)

(* A statement that fails after a claim.                                   *)
LEMMA FailsClaimedOK ==
  ASSUME IInv, NEW s, NEW cids, FailsAfter(s, cids),
         NEW n, NEW T, Reached(s, statics, n, T),
         cids \in 0..3, xact.cid + cids <= MaxCid,
         xact.sub = "open" => statics.temp \subseteq T,
         \/ n = statics.next_expected_command_id
         \/ n <= xact.cid + cids /\ \E top : Claimable(top)
  PROVE  IInv'
<1>1. (\E top : Claimable(top)) /\ xact.kind = "block" /\ ~AllowMixed =>
        xact.cid = statics.next_expected_command_id
  BY ClaimableInBlock
<1>2. xact.sub = "open" /\ TempTablesAreRegistered => tables.duck \subseteq T
  BY DEF TempTablesAreRegistered
<1>3. Failure(s, cids)
  BY <1>1, <1>2 DEF Failure
<1>. QED
  BY <1>3, FailsAfterOK

(* The utility hook.                                                       *)
LEMMA EnterUtilityOK ==
  ASSUME LifeInv
  PROVE  Reached(EnterUtility, statics, statics.next_expected_command_id, statics.temp)
<1>1. (~xact.func) \in BOOLEAN
  OBVIOUS
<1>. QED
  BY <1>1, ReachedBySetting, CommandIds DEF EnterUtility, DdlTypes

(* Leaving a utility statement puts back top_level_statement alone.        *)
LEMMA LeaveUtilityOK ==
  ASSUME LifeInv, NEW s, NEW n, NEW T, Reached(s, statics, n, T)
  PROVE  /\ Reached(LeaveUtility(s), statics, n, T)
         /\ s.initialized => LeaveUtility(s).initialized
<1>1. statics.top_level_statement \in BOOLEAN /\ s \in Statics
  BY CommandIds DEF Statics, Reached
<1>2. Reached(LeaveUtility(s), statics, n, T)
  BY <1>1, ReachedThenSet DEF LeaveUtility, DdlTypes
<1>. QED
  BY <1>1, <1>2 DEF LeaveUtility, Statics

(* The event triggers that claim with force.                               *)
LEMMA TriggerOK ==
  ASSUME LifeInv, NEW s, NEW n, NEW T, Reached(s, statics, n, T),
         NEW c \in Nat, c <= MaxCid
  PROVE  LET t == [s EXCEPT !.top_level_duckdb_ddl_type = "NONE",
                            !.top_level_statement = FALSE,
                            !.next_expected_command_id = c]
         IN Reached(t, statics, c, T) /\ (s.initialized => t.initialized)
<1>. DEFINE t == [s EXCEPT !.top_level_duckdb_ddl_type = "NONE",
                           !.top_level_statement = FALSE,
                           !.next_expected_command_id = c]
<1>1. s \in Statics /\ c \in 0..MaxCid /\ "NONE" \in DdlTypes
  BY CommandIds, SMT DEF Reached, DdlTypes
<1>2. t \in Statics /\ t.next_expected_command_id = c
  BY <1>1 DEF Statics
<1>3. /\ t.initialized = s.initialized /\ t.temp = s.temp
      /\ t.executor_nest_level = s.executor_nest_level
  BY <1>1 DEF Statics
<1>4. t.modified = s.modified /\ t.temp_old = s.temp_old
  BY <1>1 DEF Statics
<1>. HIDE DEF t
<1>5. Old(t) = Old(s)
  BY <1>3, <1>4 DEF Old
<1>6. Reached(t, statics, c, T)
  BY <1>2, <1>3, <1>5 DEF Reached
<1>. QED
  BY <1>3, <1>6 DEF t

(* The registry after the statics s were reached.                          *)
LEMMA ReachedThenRegistered ==
  ASSUME LifeInv, NEW s, NEW n, NEW T, Reached(s, statics, n, T),
         NEW relids \in SUBSET Oids
  PROVE  /\ \A relid \in Oids :
              Reached(RegisterDuckdbTempTable(s, relid), statics, n, T \cup {relid})
         /\ Reached(UnregisterDuckdbTempTables(s, relids), statics, n, T \ relids)
<1>1. s \in Statics /\ s.temp = T /\ s.next_expected_command_id = n
  BY DEF Reached
<1>2. /\ \A relid \in Oids :
           Reached(RegisterDuckdbTempTable(s, relid), s, n, T \cup {relid})
      /\ Reached(UnregisterDuckdbTempTables(s, relids), s, n, T \ relids)
  BY <1>1, ReachedByRegistry
<1>. QED
  BY <1>1, <1>2, ReachedTransitive, CommandIds

(* CREATE TEMP TABLE, AS or not: the trigger registers the table in the    *)
(* step in which DuckDB gets it.                                           *)
LEMMA CreateTempOK ==
  ASSUME IInv, NEW relid \in Oids, NEW as \in BOOLEAN, CreateTemp(relid, as)
  PROVE  IInv'
<1>. DEFINE n == statics.next_expected_command_id
            c == xact.cid
            planned == CreatePlanned(as)
            T == statics.temp \cup {relid}
            triggered == CreateTableTrigger(planned, relid)
            connected == Initialize(triggered)
<1>0. /\ LifeInv /\ CanRun
      /\ c \in Nat /\ c + 1 <= MaxCid /\ c + 3 <= MaxCid /\ c + 3 \in Nat
      /\ 1 \in 0..3 /\ 3 \in 0..3
      /\ statics.temp \subseteq statics.temp /\ statics.temp \subseteq T
  BY CommandIds, SMT DEF IInv, CreateTemp
<1>1. Reached(EnterUtility, statics, n, statics.temp)
  BY <1>0, EnterUtilityOK
<1>2. Reached(CreatePre, statics, n, statics.temp)
  BY <1>0, <1>1, ReachedThenSet DEF CreatePre, DdlTypes
<1>3. Reached(planned, statics, c + 1, statics.temp)
  <2>1. Reached(Claim(CreatePre, c), statics, c + 1, statics.temp)
    BY <1>0, <1>2, ReachedThenClaimed
  <2>. QED
    BY <1>0, <2>1, ReachedThenSet DEF CreatePlanned, DdlTypes
<1>4. Reached(triggered, statics, c + 3, T)
  <2>. HIDE DEF planned
  <2>1. PICK r : /\ r = RegisterDuckdbTempTable(planned, relid)
                 /\ Reached(r, statics, c + 1, T)
    BY <1>0, <1>3, ReachedThenRegistered
  <2>2. triggered = [r EXCEPT !.top_level_duckdb_ddl_type = "NONE",
                              !.top_level_statement = FALSE,
                              !.next_expected_command_id = c + 3]
    BY <2>1 DEF CreateTableTrigger
  <2>. HIDE DEF T, triggered
  <2>3. Reached([r EXCEPT !.top_level_duckdb_ddl_type = "NONE",
                          !.top_level_statement = FALSE,
                          !.next_expected_command_id = c + 3], statics, c + 3, T)
    BY <1>0, <2>1, TriggerOK
  <2>. QED
    BY <2>2, <2>3
<1>5. Reached(connected, statics, c + 3, T) /\ connected.initialized
  BY <1>0, <1>4, ReachedThenSet DEF DdlTypes
<1>. HIDE DEF planned, triggered, connected
<1>6. CASE Fails(EnterUtility)
  BY <1>1, <1>6, FailsOK
<1>7. CASE Fails(CreatePre)
  BY <1>2, <1>7, FailsOK
<1>8. CASE Claimable(~xact.func) /\ FailsAfter(planned, 1)
  <2>1. c + 1 <= c + 1 /\ \E top : Claimable(top)
    BY <1>0, <1>8, SMT
  <2>. QED
    BY <1>0, <1>3, <1>8, <2>1, FailsClaimedOK
<1>9. CASE /\ Claimable(~xact.func)
           /\ FailsAfter(triggered, 3) \/ FailsAfter(connected, 3)
  <2>1. c + 3 <= c + 3 /\ \E top : Claimable(top)
    BY <1>0, <1>9, SMT
  <2>. QED
    BY <1>0, <1>4, <1>5, <1>9, <2>1, FailsClaimedOK
<1>10. CASE /\ Claimable(~xact.func) /\ ConnectionAllowed
            /\ xact' = [Running EXCEPT !.cid = @ + 3, !.temp = TRUE]
            /\ statics' = LeaveUtility(connected)
            /\ duck' = Written
            /\ tables' = [tables EXCEPT !.pg = @ \cup {relid},
                                        !.duck = @ \cup {relid}]
            /\ UNCHANGED mixed
  <2>1. Reached(statics', statics, c + 3, T) /\ statics'.initialized
    BY <1>0, <1>5, <1>10, LeaveUtilityOK
  <2>2. Ran(xact', 3)
    BY <1>0, <1>10, RanBy
  <2>3. xact'.func = Running.func /\ xact'.pg = Running.pg
    BY <1>0, <1>10, RunningOK DEF Xacts
  <2>4. xact'.func => statics'.executor_nest_level > 0
    BY <1>0, <2>1, <2>3, StaysInFunction
  <2>5. xact'.pg => Running.pg
    BY <2>3
  <2>6. duck' \in Ducks /\ duck'.open
    BY <1>0, <1>10, WrittenOK
  <2>7. tables \in TableSets
    BY <1>0 DEF LifeInv, DuckOK
  <2>8. /\ tables' \in TableSets
        /\ tables'.duck_committed = tables.duck_committed
        /\ tables'.duck = tables.duck \cup {relid}
    BY <1>10, <2>7 DEF TableSets
  <2>9. TempTablesAreRegistered => tables'.duck \subseteq T
    BY <2>8 DEF TempTablesAreRegistered
  <2>10. xact.kind = "block" /\ ~AllowMixed =>
           xact.cid = statics.next_expected_command_id
    BY <1>10, ClaimableInBlock
  <2>11. c + 3 <= c + 3
    BY <1>0, SMT
  <2>. HIDE DEF T
  <2>12. Success(3, c + 3, T)
    BY <1>0, <1>10, <2>1, <2>2, <2>4, <2>5, <2>6, <2>8, <2>9, <2>10, <2>11
    DEF Success
  <2>. QED
    BY <1>0, <2>12, SuccessOK
<1>. QED
  BY <1>6, <1>7, <1>8, <1>9, <1>10
  DEF CreateTemp, planned, triggered, connected

(* ALTER of a temporary table, which leaves the registry as it is.         *)
LEMMA AlterTempOK ==
  ASSUME IInv, NEW relid, NEW rename \in BOOLEAN, AlterTemp(relid, rename)
  PROVE  IInv'
<1>. DEFINE n == statics.next_expected_command_id
            c == xact.cid
            pre == [EnterUtility EXCEPT !.top_level_duckdb_ddl_type = "ALTER_TABLE"]
            reset == [EnterUtility EXCEPT !.top_level_duckdb_ddl_type = "NONE"]
            altered == AlterTableTrigger(Claim(pre, c))
<1>0. /\ LifeInv /\ CanRun
      /\ c \in Nat /\ c + 1 <= MaxCid /\ c + 3 <= MaxCid /\ c + 3 \in Nat
      /\ 1 \in 0..3 /\ 3 \in 0..3
      /\ statics.temp \subseteq statics.temp
  BY CommandIds, SMT DEF IInv, AlterTemp
<1>1. Reached(EnterUtility, statics, n, statics.temp)
  BY <1>0, EnterUtilityOK
<1>2. /\ Reached(pre, statics, n, statics.temp)
      /\ Reached(reset, statics, n, statics.temp)
  BY <1>0, <1>1, ReachedThenSet DEF DdlTypes
<1>. HIDE DEF pre, reset
<1>3. Reached(altered, statics, c + 3, statics.temp) /\ altered.initialized
  <2>1. Reached(Claim(pre, c), statics, c + 1, statics.temp)
    BY <1>0, <1>2, ReachedThenClaimed
  <2>2. PICK i : /\ i = Initialize(Claim(pre, c)) /\ i.initialized
                 /\ Reached(i, statics, c + 1, statics.temp)
    BY <1>0, <2>1, ReachedThenSet DEF DdlTypes
  <2>3. altered = [i EXCEPT !.top_level_duckdb_ddl_type = "NONE",
                            !.top_level_statement = FALSE,
                            !.next_expected_command_id = c + 3]
    BY <2>2 DEF AlterTableTrigger
  <2>. HIDE DEF altered
  <2>4. LET a == [i EXCEPT !.top_level_duckdb_ddl_type = "NONE",
                           !.top_level_statement = FALSE,
                           !.next_expected_command_id = c + 3]
        IN Reached(a, statics, c + 3, statics.temp) /\ a.initialized
    BY <1>0, <2>2, TriggerOK
  <2>. QED
    BY <2>3, <2>4
<1>. HIDE DEF altered
<1>4. CASE Fails(EnterUtility)
  BY <1>1, <1>4, FailsOK
<1>5. CASE FailsAfter(reset, 1)
  BY <1>0, <1>2, <1>5, FailsClaimedOK
<1>6. CASE Fails(pre)
  BY <1>2, <1>6, FailsOK
<1>7. ASSUME Claimable(~xact.func) PROVE c + 3 <= c + 3 /\ \E top : Claimable(top)
  BY <1>0, <1>7, SMT
<1>8. CASE Claimable(~xact.func) /\ FailsAfter(altered, 3)
  BY <1>0, <1>3, <1>7, <1>8, FailsClaimedOK
<1>9. CASE /\ Claimable(~xact.func) /\ ConnectionAllowed
           /\ xact' = [Running EXCEPT !.cid = @ + 3, !.temp = TRUE]
           /\ statics' = LeaveUtility(altered)
           /\ duck' = Written
           /\ UNCHANGED <<tables, mixed>>
  <2>1. Reached(statics', statics, c + 3, statics.temp) /\ statics'.initialized
    BY <1>0, <1>3, <1>9, LeaveUtilityOK
  <2>2. Ran(xact', 3)
    BY <1>0, <1>9, RanBy
  <2>3. xact'.func = Running.func /\ xact'.pg = Running.pg
    BY <1>0, <1>9, RunningOK DEF Xacts
  <2>. QED
    BY <1>0, <1>7, <1>9, <2>1, <2>2, <2>3, WrittenOK, DuckStatementOK
<1>. QED
  BY <1>4, <1>5, <1>6, <1>8, <1>9 DEF AlterTemp, pre, reset, altered

(* The transaction after a DROP.                                           *)
LEMMA RanDrop ==
  ASSUME LifeInv, CanRun, NEW cids \in 0..3, xact.cid + cids <= MaxCid,
         NEW pg \in BOOLEAN, NEW temp \in BOOLEAN, NEW x,
         x = [Running EXCEPT !.cid = @ + cids, !.pg = pg, !.temp = temp]
  PROVE  /\ Ran(x, cids) /\ x.func = Running.func /\ x.pg = pg
<1>1. PICK r \in Xacts : r = Running /\ r.cid = xact.cid
  BY RunningOK
<1>2. xact.cid \in Nat /\ r.cid + cids \in 0..MaxCid
  BY <1>1, CommandIds, SMT
<1>3. x = [r EXCEPT !.cid = r.cid + cids, !.pg = pg, !.temp = temp]
  BY <1>1
<1>4. x \in Xacts /\ x.cid = r.cid + cids /\ x.pg = pg /\ x.func = r.func
  BY <1>2, <1>3, ZenonT(30) DEF Xacts
<1>5. /\ x.kind = r.kind /\ x.sub = r.sub /\ x.fresh = r.fresh
      /\ x.pg_at_savepoint = r.pg_at_savepoint
  BY <1>3 DEF Xacts
<1>. QED
  BY <1>1, <1>4, <1>5 DEF Ran

(* A DROP that succeeds: it used cids command IDs, n is expected next.     *)
Drops(cids, pg, temp, n, relids, forwarded) ==
  /\ cids \in 0..3 /\ xact.cid + cids <= MaxCid
  /\ pg \in BOOLEAN /\ temp \in BOOLEAN
  /\ xact' = [Running EXCEPT !.cid = @ + cids, !.pg = pg, !.temp = temp]
  /\ Reached(statics', statics, n, statics.temp \ forwarded)
  /\ forwarded # {} => statics'.initialized /\ ConnectionAllowed
  /\ duck' = IF forwarded = {} THEN duck ELSE Written
  /\ tables' = [tables EXCEPT !.pg = @ \ relids, !.duck = @ \ forwarded]
  /\ UNCHANGED mixed
  /\ \/ n = statics.next_expected_command_id /\ cids > 0
     \/ /\ n <= xact.cid + cids
        /\ xact.kind = "block" /\ ~AllowMixed =>
             /\ xact.cid = statics.next_expected_command_id
             /\ pg => Running.pg \/ n < xact.cid + cids

(* A DROP that goes through takes from the registry just the tables that   *)
(* DuckDB drops.                                                           *)
LEMMA DropSucceedsOK ==
  ASSUME IInv, CanRun, NEW cids, NEW pg, NEW temp, NEW n, NEW relids,
         NEW forwarded, Drops(cids, pg, temp, n, relids, forwarded)
  PROVE  IInv'
<1>1. LifeInv
  BY DEF IInv
<1>2. Ran(xact', cids) /\ xact'.func = Running.func /\ xact'.pg = pg
  BY <1>1, RanDrop, ZenonT(30) DEF Drops
<1>3. xact'.func => statics'.executor_nest_level > 0
  BY <1>1, <1>2, StaysInFunction DEF Drops
<1>4. /\ duck' \in Ducks /\ (duck.open => duck'.open)
      /\ forwarded # {} => duck'.open
  BY <1>1, WrittenOK DEF LifeInv, DuckOK, Drops
<1>5. duck'.open => statics'.initialized /\ ConnectionAllowed
  BY <1>1 DEF LifeInv, DuckOK, Reached, ConnectionAllowed, Drops
<1>6. tables \in TableSets
  BY <1>1 DEF LifeInv, DuckOK
<1>7. /\ tables' \in TableSets
      /\ tables'.duck_committed = tables.duck_committed
      /\ tables'.duck = tables.duck \ forwarded
  BY <1>6 DEF TableSets, Drops
<1>8. tables'.duck # tables.duck => duck'.open
  BY <1>4, <1>7
<1>9. TempTablesAreRegistered => tables'.duck \subseteq statics.temp \ forwarded
  BY <1>7 DEF TempTablesAreRegistered
<1>10. xact'.pg => pg
  BY <1>2
<1>. DEFINE T == statics.temp \ forwarded
<1>11. Reached(statics', statics, n, T)
       /\ (TempTablesAreRegistered => tables'.duck \subseteq T)
  BY <1>9 DEF Drops
<1>. HIDE DEF T
<1>12. Success(cids, n, T)
  BY <1>2, <1>3, <1>4, <1>5, <1>7, <1>8, <1>10, <1>11 DEF Success, Drops
<1>. QED
  BY <1>12, SuccessOK

(* DROP TABLE of any set of temporary tables, with or without a heap table *)
(* named or reached by CASCADE.                                            *)
LEMMA DropTablesOK ==
  ASSUME IInv, NEW relids \in SUBSET tables.pg,
         NEW heap \in {"no", "named", "cascade"}, DropTables(relids, heap)
  PROVE  IInv'
<1>. DEFINE c == xact.cid
            claimed == DropTablePreCheck(relids)
            forwarded == relids \cap statics.temp
            dropped == DropTrigger(claimed, forwarded)
            n == IF relids = {} THEN statics.next_expected_command_id ELSE c + 1
            cids == IF relids = {} THEN 1 ELSE IF forwarded = {} THEN 2 ELSE 3
            possible == /\ forwarded # {} => ConnectionAllowed
                        /\ forwarded \subseteq tables.duck
<1>0. /\ LifeInv /\ CanRun /\ c \in Nat
      /\ c + 1 <= MaxCid /\ c + 2 <= MaxCid /\ c + 3 <= MaxCid
      /\ c + 2 \in Nat /\ 1 \in 0..3 /\ 2 \in 0..3 /\ 3 \in 0..3
      /\ statics.temp \subseteq statics.temp
  BY CommandIds, SMT DEF IInv, DropTables
<1>1. forwarded \in SUBSET Oids
  <2>1. statics.temp \in SUBSET Oids
    BY <1>0, CommandIds DEF Statics
  <2>. QED
    BY <2>1
<1>2. Reached(EnterUtility, statics, statics.next_expected_command_id, statics.temp)
  BY <1>0, EnterUtilityOK
<1>3. Reached(claimed, statics, n, statics.temp)
  <2>1. CASE relids = {}
    BY <1>2, <2>1 DEF DropTablePreCheck
  <2>2. CASE relids # {}
    <3>1. Reached(Claim(EnterUtility, c), statics, c + 1, statics.temp)
      BY <1>0, <1>2, ReachedThenClaimed
    <3>. QED
      BY <2>2, <3>1 DEF DropTablePreCheck
  <2>. QED
    BY <2>1, <2>2
<1>. HIDE DEF claimed, n
<1>4. Reached(Initialize(claimed), statics, n, statics.temp)
      /\ Initialize(claimed).initialized
  BY <1>0, <1>3, ReachedThenSet DEF DdlTypes
<1>5. /\ Reached(dropped, statics, n, statics.temp \ forwarded)
      /\ forwarded # {} => dropped.initialized
  <2>1. CASE forwarded = {}
    BY <1>3, <2>1 DEF DropTrigger
  <2>2. CASE forwarded # {}
    <3>. HIDE DEF forwarded
    <3>1. dropped = UnregisterDuckdbTempTables(Initialize(claimed), forwarded)
      BY <2>2 DEF DropTrigger
    <3>2. PICK i : i = Initialize(claimed) /\ i.initialized
                   /\ Reached(i, statics, n, statics.temp)
      BY <1>4
    <3>. HIDE DEF dropped
    <3>3. Reached(dropped, statics, n, statics.temp \ forwarded)
      BY <1>0, <1>1, <3>1, <3>2, ReachedThenRegistered
    <3>4. Reached(dropped, i, n, statics.temp \ forwarded)
      <4>1. /\ i \in Statics /\ i.temp = statics.temp
            /\ i.next_expected_command_id = n
        BY <3>2 DEF Reached
      <4>. QED
        BY <1>1, <3>1, <3>2, <4>1, ReachedByRegistry
    <3>. QED
      BY <3>2, <3>3, <3>4 DEF Reached
  <2>. QED
    BY <2>1, <2>2
<1>. HIDE DEF dropped
<1>6. ASSUME relids # {} => Claimable(~xact.func), NEW k \in {1, 2, 3}
      PROVE  \/ n = statics.next_expected_command_id
             \/ n <= c + k /\ \E top : Claimable(top)
  BY <1>0, <1>6, SMT DEF n
<1>7. CASE Fails(EnterUtility)
  BY <1>2, <1>7, FailsOK
<1>8. CASE (relids # {} => Claimable(~xact.func)) /\ FailsAfter(claimed, 1)
  BY <1>0, <1>3, <1>6, <1>8, FailsClaimedOK
<1>9. CASE (relids # {} => Claimable(~xact.func))
           /\ FailsAfter(Initialize(claimed), 2)
  BY <1>0, <1>4, <1>6, <1>9, FailsClaimedOK
<1>10. possible => (xact.sub = "open" => forwarded = {})
  BY <1>0 DEF ConnectionAllowed, LifeInv, DuckOK
<1>11. CASE /\ relids # {} => Claimable(~xact.func)
            /\ possible /\ FailsAfter(dropped, 2)
  <2>1. xact.sub = "open" => statics.temp \subseteq statics.temp \ forwarded
    BY <1>10, <1>11
  <2>. HIDE DEF forwarded, possible
  <2>. QED
    BY <1>0, <1>5, <1>6, <1>11, <2>1, FailsClaimedOK
<1>12. CASE /\ relids # {} => Claimable(~xact.func)
            /\ possible /\ ~DropsMore(relids, forwarded, heap)
            /\ relids # {} \/ heap = "named"
            /\ xact' = [Running EXCEPT !.cid = @ + cids, !.pg = @ \/ heap # "no",
                                       !.temp = @ \/ relids # {}]
            /\ statics' = IF forwarded = {} THEN LeaveUtility(dropped)
                          ELSE LeaveUtility(Claim(dropped, c + 2))
            /\ duck' = IF forwarded = {} THEN duck ELSE Written
            /\ tables' = [tables EXCEPT !.pg = @ \ relids, !.duck = @ \ forwarded]
            /\ UNCHANGED mixed
  <2>. DEFINE m == IF forwarded = {} THEN n ELSE c + 3
  <2>1. PICK pg \in BOOLEAN : pg = (Running.pg \/ heap # "no")
    OBVIOUS
  <2>2. PICK temp \in BOOLEAN : temp = (Running.temp \/ relids # {})
    OBVIOUS
  <2>3. Running \in Xacts
    BY <1>0, RunningOK
  <2>4. xact' = [Running EXCEPT !.cid = @ + cids, !.pg = pg, !.temp = temp]
    BY <1>12, <2>1, <2>2, <2>3 DEF Xacts
  <2>5. cids \in 0..3 /\ xact.cid + cids <= MaxCid /\ cids > 0
    BY <1>0, SMT
  <2>6. /\ Reached(statics', statics, m, statics.temp \ forwarded)
        /\ forwarded # {} => statics'.initialized
    <3>1. CASE forwarded = {}
      <4>1. statics' = LeaveUtility(dropped) /\ m = n
        BY <1>12, <3>1
      <4>. HIDE DEF m, forwarded
      <4>. QED
        BY <1>0, <1>5, <3>1, <4>1, LeaveUtilityOK
    <3>2. CASE forwarded # {}
      <4>1. statics' = LeaveUtility(Claim(dropped, c + 2)) /\ m = c + 3
            /\ c + 3 = c + 2 + 1
        BY <1>0, <1>12, <3>2, SMT
      <4>. HIDE DEF m, forwarded
      <4>2. /\ Reached(Claim(dropped, c + 2), statics, c + 2 + 1, statics.temp \ forwarded)
            /\ Claim(dropped, c + 2).initialized
        BY <1>0, <1>5, <3>2, ReachedThenClaimed, SMT
      <4>. QED
        BY <1>0, <4>1, <4>2, LeaveUtilityOK
    <3>. QED
      BY <3>1, <3>2
  <2>7. forwarded # {} => ConnectionAllowed
    BY <1>12
  <2>8. xact.kind = "block" /\ ~AllowMixed => ~MixedWritesAllowed(~xact.func)
    BY DEF MixedWritesAllowed, IsInTransactionBlock
  <2>9. CASE relids = {}
    <3>1. m = statics.next_expected_command_id
      BY <2>9 DEF n
    <3>. HIDE DEF m, forwarded, cids
    <3>2. Drops(cids, pg, temp, m, relids, forwarded)
      BY <1>12, <2>4, <2>5, <2>6, <2>7, <3>1 DEF Drops
    <3>. QED
      BY <1>0, <3>2, DropSucceedsOK
  <2>10. CASE relids # {}
    <3>1. m <= xact.cid + cids
      BY <1>0, <2>10, SMT DEF n
    <3>2. xact.kind = "block" /\ ~AllowMixed =>
            xact.cid = statics.next_expected_command_id
      BY <1>12, <2>10, ClaimableInBlock
    <3>3. ASSUME xact.kind = "block", ~AllowMixed, pg
          PROVE  Running.pg \/ m < xact.cid + cids
      <4>1. CASE forwarded = {}
        BY <1>0, <2>10, <4>1, SMT DEF n
      <4>2. CASE forwarded # {}
        <5>1. heap = "no"
          BY <1>12, <2>8, <3>3, <4>2 DEF DropsMore
        <5>. QED
          BY <2>1, <3>3, <5>1
      <4>. QED
        BY <4>1, <4>2
    <3>. HIDE DEF m, forwarded, cids
    <3>4. Drops(cids, pg, temp, m, relids, forwarded)
      BY <1>12, <2>4, <2>5, <2>6, <2>7, <3>1, <3>2, <3>3 DEF Drops
    <3>. QED
      BY <1>0, <3>4, DropSucceedsOK
  <2>. QED
    BY <2>9, <2>10
<1>. QED
  BY <1>7, <1>8, <1>9, <1>11, <1>12 DEF DropTables, claimed, dropped

-----------------------------------------------------------------------------
(* Functions and the events of the transaction.                            *)

(* A step that leaves DuckDB and its registry alone.                       *)
LEMMA ControlOK ==
  ASSUME IInv, UNCHANGED <<duck, tables, mixed>>, XactOK(xact', statics'),
         statics'.initialized = statics.initialized,
         statics'.temp = statics.temp, Old(statics') = Old(statics),
         xact'.sub # "none" \/ xact'.kind \in Over => ~duck.open,
         ~AllowMixed /\ xact'.kind = "block" /\ xact'.fresh =>
           /\ statics'.next_expected_command_id <= xact'.cid
           /\ xact'.pg \/ xact'.pg_at_savepoint =>
                statics'.next_expected_command_id < xact'.cid
  PROVE  IInv'
<1>1. DuckOK(xact', statics', duck', tables')
  BY DEF IInv, LifeInv, DuckOK, Over
<1>2. LifeInv'
  BY <1>1 DEF IInv, LifeInv
<1>3. ASSUME RegistryInv PROVE RegistryInv'
  BY <1>3 DEF RegistryInv, TempTablesAreRegistered
<1>4. ASSUME ClaimInv, ~AllowMixed PROVE ClaimInv'
  BY <1>4 DEF ClaimInv, BlocksDoNotMixWrites
<1>. QED
  BY <1>2, <1>3, <1>4 DEF IInv

(* A function call nests statements, which then count as part of one.      *)
LEMMA CallFunctionOK == IInv /\ CallFunction => IInv'
<1>. SUFFICES ASSUME IInv, CallFunction PROVE IInv'
  OBVIOUS
<1>. DEFINE n == statics.next_expected_command_id
<1>0. LifeInv /\ CanRun /\ statics.executor_nest_level < MaxNest /\ 0 \in 0..3
  BY SMT DEF IInv, CallFunction
<1>1. statics \in Statics /\ statics.executor_nest_level \in Nat
  BY <1>0, FlagsAssumption, CommandIds, SMT DEF Statics
<1>2. PICK t : /\ t = [statics EXCEPT !.top_level_statement = FALSE]
               /\ Reached(t, statics, n, statics.temp)
  BY <1>0, <1>1, ReachedBySetting DEF DdlTypes
<1>3. t \in Statics /\ t.executor_nest_level = statics.executor_nest_level
  BY <1>1, <1>2 DEF Statics, Reached
<1>4. statics' = [t EXCEPT !.executor_nest_level = @ + 1]
  BY <1>1, <1>2, <1>3 DEF CallFunction, Statics
<1>5. Reached(statics', statics, n, statics.temp)
  BY <1>0, <1>2, <1>3, <1>4, ReachedThenNested
<1>6. statics'.executor_nest_level > 0
  BY <1>1, <1>3, <1>4, SMT DEF Statics
<1>7. PICK r \in Xacts : r = Running /\ r.cid = xact.cid /\ r.cid = xact.cid + 0
  BY <1>0, RunningOK, CommandIds, SMT
<1>8. xact' = [r EXCEPT !.func = TRUE, !.called = TRUE]
  BY <1>7 DEF CallFunction
<1>9. Ran(xact', 0) /\ xact'.pg = r.pg
  BY <1>7, <1>8 DEF Ran, Xacts
<1>10. xact'.pg => Running.pg
  BY <1>7, <1>9
<1>11. statics.initialized => statics'.initialized
  BY <1>5 DEF Reached
<1>12. Success(0, n, statics.temp)
  BY <1>0, <1>5, <1>6, <1>9, <1>10, <1>11, DuckUnchanged
  DEF Success, CallFunction
<1>. QED
  BY <1>0, <1>12, SuccessOK

(* The return of a function unwinds the nesting level.                     *)
LEMMA ReturnFunctionOK == IInv /\ ReturnFunction => IInv'
<1>. SUFFICES ASSUME IInv, ReturnFunction PROVE IInv'
  OBVIOUS
<1>1. /\ xact \in Xacts /\ statics \in Statics /\ xact.kind \notin Over
      /\ statics.executor_nest_level \in 0..MaxNest
      /\ statics.executor_nest_level > 0
  BY DEF IInv, LifeInv, XactOK, ReturnFunction, Statics
<1>2. statics.executor_nest_level - 1 \in 0..MaxNest
  BY <1>1, FlagsAssumption, SMT
<1>3. /\ xact' \in Xacts /\ ~xact'.func /\ xact'.kind = xact.kind
      /\ xact'.sub = xact.sub /\ xact'.cid = xact.cid
      /\ xact'.fresh = xact.fresh
      /\ xact'.pg = xact.pg /\ xact'.pg_at_savepoint = xact.pg_at_savepoint
  BY <1>1 DEF ReturnFunction, Xacts
<1>4. /\ statics' \in Statics /\ statics'.initialized = statics.initialized
      /\ statics'.temp = statics.temp /\ statics'.modified = statics.modified
      /\ statics'.temp_old = statics.temp_old
      /\ statics'.next_expected_command_id = statics.next_expected_command_id
  BY <1>1, <1>2 DEF ReturnFunction, Statics
<1>5. Old(statics') = Old(statics)
  BY <1>4 DEF Old
<1>6. XactOK(xact', statics')
  BY <1>1, <1>3, <1>4 DEF IInv, LifeInv, XactOK
<1>7. xact'.sub # "none" \/ xact'.kind \in Over => ~duck.open
  BY <1>1, <1>3 DEF IInv, LifeInv, DuckOK
<1>8. ~AllowMixed /\ xact'.kind = "block" /\ xact'.fresh =>
        /\ statics'.next_expected_command_id <= xact'.cid
        /\ xact'.pg \/ xact'.pg_at_savepoint =>
             statics'.next_expected_command_id < xact'.cid
  BY <1>3, <1>4 DEF IInv, ClaimInv
<1>. QED
  BY <1>4, <1>5, <1>6, <1>7, <1>8, ControlOK DEF ReturnFunction

(* An error for a reason of its own aborts the transaction, or the         *)
(* subtransaction.                                                         *)
LEMMA StatementErrorOK == IInv /\ StatementError => IInv'
  BY FailsOK, ReachedBySetting, CommandIds DEF DdlTypes, StatementError, IInv

(* BEGIN opens a block and changes nothing else.                           *)
LEMMA BeginOK == IInv /\ Begin => IInv'
<1>. SUFFICES ASSUME IInv, Begin PROVE IInv'
  OBVIOUS
<1>1. xact.kind = "idle" /\ LifeInv /\ statics \in Statics
  BY CommandIds DEF IInv, Begin
<1>2. (statics.next_expected_command_id = FirstCommandId) \in BOOLEAN
  OBVIOUS
<1>3. PICK r \in Xacts : r = Running /\ r.cid = 0 /\ r.sub = "none" /\ ~r.func
  <2>1. CanRun /\ xact.cid = 0 /\ xact.sub = "none" /\ ~xact.func
    BY <1>1 DEF CanRun, LifeInv, XactOK, Over
  <2>. QED
    BY <1>1, <2>1, RunningOK
<1>4. NoXact \in Xacts /\ ~NoXact.pg /\ ~NoXact.pg_at_savepoint
  BY FlagsAssumption, SMT DEF NoXact, Xacts, FirstCommandId
<1>5. /\ ~r.pg /\ ~r.pg_at_savepoint
      /\ r.fresh => statics.next_expected_command_id = 0
  <2>1. r = [NoXact EXCEPT !.kind = "implicit",
                           !.fresh = statics.next_expected_command_id = FirstCommandId]
    BY <1>1, <1>3 DEF Running
  <2>2. /\ r.pg = NoXact.pg /\ r.pg_at_savepoint = NoXact.pg_at_savepoint
        /\ r.fresh = (statics.next_expected_command_id = FirstCommandId)
    BY <1>2, <1>4, <2>1 DEF Xacts
  <2>. QED
    BY <1>4, <2>2 DEF FirstCommandId
<1>6. xact' = [r EXCEPT !.kind = "block"]
  BY <1>3 DEF Begin
<1>7. /\ xact' \in Xacts /\ xact'.kind = "block" /\ xact'.cid = r.cid
      /\ xact'.sub = r.sub /\ xact'.func = r.func /\ xact'.fresh = r.fresh
      /\ xact'.pg = r.pg /\ xact'.pg_at_savepoint = r.pg_at_savepoint
  BY <1>6 DEF Xacts
<1>8. UNCHANGED <<statics, duck, tables, mixed>>
  BY DEF Begin
<1>9. XactOK(xact', statics')
  BY <1>1, <1>3, <1>7, <1>8 DEF XactOK, Over
<1>. QED
  BY <1>3, <1>5, <1>7, <1>8, <1>9, ControlOK, SMT DEF Over

(* SAVEPOINT is refused while a DuckDB transaction is open.                *)
LEMMA SavepointOK == IInv /\ Savepoint => IInv'
<1>. SUFFICES ASSUME IInv, Savepoint PROVE IInv'
  OBVIOUS
<1>1. LifeInv /\ xact \in Xacts /\ statics \in Statics /\ xact.kind = "block"
      /\ ~xact.func
  BY CommandIds DEF IInv, Savepoint
<1>2. CASE AbortTransaction(statics)
  <2>1. PICK x \in {NoXact, [NoXact EXCEPT !.kind = "aborted"]} :
               RollsBackTo(x, AbortStatics(statics))
    BY <1>2 DEF AbortTransaction
  <2>. QED
    BY <1>1, <2>1, AbortOK
<1>3. CASE /\ ~HasActiveTransaction
           /\ xact' = [xact EXCEPT !.sub = "open", !.pg_at_savepoint = xact.pg]
           /\ UNCHANGED <<statics, duck, tables, mixed>>
  <2>1. /\ xact' \in Xacts /\ xact'.kind = "block" /\ xact'.cid = xact.cid
        /\ xact'.func = xact.func /\ xact'.fresh = xact.fresh
        /\ xact'.pg = xact.pg /\ xact'.pg_at_savepoint = xact.pg
    BY <1>1, <1>3 DEF Xacts
  <2>2. ~duck.open
    BY <1>1, <1>3 DEF HasActiveTransaction, LifeInv, DuckOK
  <2>3. XactOK(xact', statics')
    BY <1>1, <1>3, <2>1 DEF XactOK, Over
  <2>4. ~AllowMixed /\ xact'.fresh =>
          /\ statics.next_expected_command_id <= xact'.cid
          /\ xact'.pg \/ xact'.pg_at_savepoint =>
               statics.next_expected_command_id < xact'.cid
    BY <1>1, <2>1 DEF IInv, ClaimInv
  <2>. QED
    BY <1>3, <2>2, <2>3, <2>4, ControlOK
<1>. QED
  BY <1>2, <1>3 DEF Savepoint

(* RELEASE keeps what the subtransaction has written.                      *)
LEMMA ReleaseSavepointOK == IInv /\ ReleaseSavepoint => IInv'
<1>. SUFFICES ASSUME IInv, ReleaseSavepoint PROVE IInv'
  OBVIOUS
<1>1. /\ LifeInv /\ xact \in Xacts /\ statics \in Statics
      /\ xact.kind = "block"
      /\ ~xact.func /\ ~duck.open
  BY CommandIds DEF IInv, ReleaseSavepoint, LifeInv, XactOK, DuckOK
<1>2. /\ xact' \in Xacts /\ xact'.kind = "block" /\ xact'.cid = xact.cid
      /\ xact'.sub = "none" /\ xact'.func = xact.func
      /\ xact'.fresh = xact.fresh
      /\ xact'.pg = xact.pg /\ xact'.pg_at_savepoint = xact.pg_at_savepoint
  BY <1>1 DEF Xacts, ReleaseSavepoint
<1>3. UNCHANGED <<statics, duck, tables, mixed>>
  BY DEF ReleaseSavepoint
<1>4. XactOK(xact', statics')
  BY <1>1, <1>2, <1>3 DEF XactOK, Over
<1>5. ~AllowMixed /\ xact'.fresh =>
        /\ statics.next_expected_command_id <= xact'.cid
        /\ xact'.pg \/ xact'.pg_at_savepoint =>
             statics.next_expected_command_id < xact'.cid
  BY <1>1, <1>2 DEF IInv, ClaimInv
<1>. QED
  BY <1>1, <1>3, <1>4, <1>5, ControlOK

(* ROLLBACK TO takes back the writes to PostgreSQL and leaves the command  *)
(* counter where it is.                                                    *)
LEMMA RollbackToSavepointOK == IInv /\ RollbackToSavepoint => IInv'
<1>. SUFFICES ASSUME IInv, RollbackToSavepoint PROVE IInv'
  OBVIOUS
<1>1. /\ LifeInv /\ xact \in Xacts /\ statics \in Statics
      /\ xact.kind = "block"
      /\ ~xact.func /\ ~duck.open
  BY CommandIds DEF IInv, RollbackToSavepoint, LifeInv, XactOK, DuckOK
<1>2. /\ xact' \in Xacts /\ xact'.kind = "block" /\ xact'.cid = xact.cid
      /\ xact'.func = xact.func /\ xact'.fresh = xact.fresh
      /\ xact'.pg = xact.pg_at_savepoint
      /\ xact'.pg_at_savepoint = xact.pg_at_savepoint
  BY <1>1 DEF Xacts, RollbackToSavepoint
<1>3. UNCHANGED <<statics, duck, tables, mixed>>
  BY DEF RollbackToSavepoint
<1>4. XactOK(xact', statics')
  BY <1>1, <1>2, <1>3 DEF XactOK, Over
<1>5. ~AllowMixed /\ xact'.fresh =>
        /\ statics.next_expected_command_id <= xact'.cid
        /\ xact'.pg \/ xact'.pg_at_savepoint =>
             statics.next_expected_command_id < xact'.cid
  BY <1>1, <1>2 DEF IInv, ClaimInv
<1>. QED
  BY <1>1, <1>3, <1>4, <1>5, ControlOK

(* XACT_EVENT_PRE_COMMIT keeps the registry and gives up its copy.         *)
LEMMA CommitStaticsKeep ==
  ASSUME NEW s \in Statics
  PROVE  /\ CommitStatics(s).temp = s.temp
         /\ s.initialized => Old(CommitStatics(s)) = s.temp
<1>1. PICK e \in Statics : e = EndStatics(s)
  BY StaticsTypes
<1>2. e.temp = s.temp
  BY <1>1 DEF EndStatics, Statics
<1>3. CASE ~s.initialized
  BY <1>1, <1>2, <1>3 DEF CommitStatics
<1>4. CASE s.initialized
  <2>1. PICK c \in Statics : c = CommitStatics(s)
    BY StaticsTypes
  <2>2. c.temp = s.temp /\ ~c.modified
    BY <1>1, <1>2, <1>4, <2>1 DEF CommitStatics, Statics
  <2>. QED
    BY <2>1, <2>2 DEF Old
<1>. QED
  BY <1>3, <1>4

(* What is left of a transaction that is over.                             *)
LEMMA NoXactOK == NoXact \in Xacts /\ NoXact.kind = "idle" /\ ~NoXact.func
                  /\ NoXact.sub = "none" /\ NoXact.cid = 0
  BY FlagsAssumption, SMT DEF NoXact, Xacts, FirstCommandId

(* A COMMIT that pre-commit refuses is an abort.                           *)
LEMMA CommitRefusedOK == IInv /\ CommitRefused => IInv'
  BY AbortOK, CommandIds DEF CommitRefused, RollsBack, IInv

(* COMMIT ends the DuckDB transaction in pre-commit, and gives up the copy *)
(* of the registry.                                                        *)
LEMMA CommitTransactionOK == IInv /\ CommitTransaction => IInv'
<1>. SUFFICES ASSUME IInv, CommitTransaction PROVE IInv'
  OBVIOUS
<1>1. /\ LifeInv /\ xact \in Xacts /\ statics \in Statics
      /\ duck \in Ducks /\ tables \in TableSets
  BY CommandIds DEF IInv, LifeInv, DuckOK
<1>2. /\ statics' = CommitStatics(statics) /\ statics' \in Statics
      /\ Ended(statics')
      /\ statics'.initialized = statics.initialized
  BY <1>1, StaticsTypes, StaticsEnd DEF CommitTransaction
<1>3. /\ xact' = NoXact /\ tables' \in TableSets
      /\ tables'.duck = tables.duck /\ tables'.duck_committed = tables.duck
  BY <1>1 DEF CommitTransaction, TableSets
<1>4. XactOK(xact', statics')
  BY <1>2, <1>3, NoXactOK DEF XactOK
<1>5. /\ duck' \in Ducks /\ (duck'.open => duck'.late)
      /\ duck'.open => statics.initialized
  <2>1. LateTruncation => statics.initialized
    BY <1>1 DEF LateTruncation, LifeInv, DuckOK
  <2>. QED
    BY <2>1 DEF CommitTransaction, NoDuck, Ducks
<1>6. ~statics.initialized => tables.duck = {}
  BY <1>1 DEF LifeInv, DuckOK
<1>7. DuckOK(xact', statics', duck', tables')
  BY <1>2, <1>3, <1>5, <1>6, NoXactOK DEF DuckOK
<1>8. mixed' \in Kinds
  <2>1. xact.kind \in {"implicit", "block"} /\ xact.fresh \in BOOLEAN
        /\ xact.called \in BOOLEAN
    BY <1>1 DEF CommitTransaction, CommitPoint, Xacts
  <2>2. KindOfCommit \in Kinds
    BY <2>1 DEF KindOfCommit, Kinds
  <2>. QED
    BY <2>2 DEF CommitTransaction, Kinds
<1>9. LifeInv'
  BY <1>4, <1>7, <1>8 DEF LifeInv
<1>10. ASSUME RegistryInv PROVE RegistryInv'
  BY <1>1, <1>2, <1>3, <1>6, <1>10, CommitStaticsKeep
  DEF RegistryInv, TempTablesAreRegistered
<1>11. ASSUME ClaimInv, ~AllowMixed PROVE ClaimInv'
  <2>1. SUFFICES mixed' # "block"
    BY <1>3, NoXactOK DEF ClaimInv, BlocksDoNotMixWrites
  <2>2. SUFFICES ASSUME xact.pg, DuckDidWrites PROVE KindOfCommit # "block"
    BY DEF CommitTransaction
  <2>3. SUFFICES ASSUME xact.kind = "block", xact.fresh PROVE FALSE
    <3>1. xact.kind \in {"implicit", "block"} /\ xact.fresh \in BOOLEAN
          /\ xact.called \in BOOLEAN
      BY <1>1 DEF CommitTransaction, CommitPoint, Xacts
    <3>. QED
      BY <3>1 DEF KindOfCommit
  <2>4. PgDidWrites
    BY <1>1, <1>11, <2>2, <2>3, CommandIds DEF ClaimInv, PgDidWrites
  <2>5. ~MixedWritesAllowed(TRUE)
    BY <1>11, <2>3 DEF MixedWritesAllowed, IsInTransactionBlock
  <2>. QED
    BY <2>2, <2>4, <2>5 DEF CommitTransaction, DidDisallowedMixedWrites
<1>. QED
  BY <1>9, <1>10, <1>11 DEF IInv

(* A COMMIT that fails after pre-commit, in DuckDB or in PostgreSQL. Only  *)
(* a failure in DuckDB breaks the registry.                                *)
LEMMA CommitFailsLateOK ==
  ASSUME IInv, NEW who \in LateFailures, CommitFailsLate(who)
  PROVE  IInv'
<1>. DEFINE c == CommitStatics(statics)
<1>1. /\ LifeInv /\ statics \in Statics /\ tables \in TableSets
  BY CommandIds DEF IInv, LifeInv, DuckOK
<1>2. c \in Statics /\ c.initialized = statics.initialized
  BY <1>1, StaticsTypes, StaticsEnd
<1>3. CASE who = "duckdb" /\ RollsBack(AbortStatics(c))
  <2>. HIDE DEF c
  <2>. QED
    BY <1>2, <1>3, AbortOK DEF RollsBack
<1>4. CASE /\ xact' = NoXact
           /\ statics' = AbortStatics(c)
           /\ duck' = NoDuck
           /\ tables' = [tables EXCEPT !.pg = tables.pg_committed,
                                       !.duck_committed = tables.duck]
           /\ UNCHANGED mixed
  <2>1. /\ statics' \in Statics /\ Ended(statics')
        /\ statics'.initialized = statics.initialized
    BY <1>2, <1>4, StaticsTypes, StaticsEnd
  <2>2. /\ tables' \in TableSets
        /\ tables'.duck = tables.duck /\ tables'.duck_committed = tables.duck
    BY <1>1, <1>4 DEF TableSets
  <2>3. XactOK(xact', statics')
    BY <1>4, <2>1, NoXactOK DEF XactOK
  <2>4. duck' \in Ducks /\ ~duck'.open
    BY <1>4 DEF NoDuck, Ducks
  <2>5. ~statics.initialized => tables.duck = {}
    BY <1>1 DEF LifeInv, DuckOK
  <2>6. DuckOK(xact', statics', duck', tables')
    BY <1>4, <2>1, <2>2, <2>4, <2>5, NoXactOK DEF DuckOK
  <2>7. LifeInv'
    BY <1>1, <1>4, <2>3, <2>6 DEF LifeInv
  <2>8. ASSUME RegistryInv PROVE RegistryInv'
    <3>1. statics.initialized => statics'.temp = statics.temp
                                 /\ Old(statics') = statics.temp
      BY <1>1, <1>2, <1>4, CommitStaticsKeep, AbortStaticsRestore
    <3>. QED
      BY <2>2, <2>5, <2>8, <3>1 DEF RegistryInv, TempTablesAreRegistered
  <2>9. ASSUME ClaimInv PROVE ClaimInv'
    BY <1>4, <2>9, NoXactOK DEF ClaimInv, BlocksDoNotMixWrites
  <2>. QED
    BY <2>7, <2>8, <2>9 DEF IInv
<1>. QED
  BY <1>3, <1>4 DEF CommitFailsLate

(* PREPARE TRANSACTION is refused while DuckDB or a temporary table is in  *)
(* use, and otherwise leaves both alone.                                   *)
LEMMA PrepareTransactionOK == IInv /\ PrepareTransaction => IInv'
<1>. SUFFICES ASSUME IInv, PrepareTransaction PROVE IInv'
  OBVIOUS
<1>1. LifeInv /\ statics \in Statics
  BY CommandIds DEF IInv
<1>2. CASE RollsBack(AbortStatics(statics))
  BY <1>1, <1>2, AbortOK DEF RollsBack
<1>3. CASE /\ ~HasActiveTransaction
           /\ xact' = NoXact
           /\ statics' = EndStatics(statics)
           /\ UNCHANGED <<duck, tables, mixed>>
  <2>1. /\ statics' \in Statics /\ Ended(statics')
        /\ statics'.initialized = statics.initialized
    BY <1>1, <1>3, StaticsTypes, StaticsEnd
  <2>2. /\ statics'.temp = statics.temp /\ statics'.modified = statics.modified
        /\ statics'.temp_old = statics.temp_old
    BY <1>1, <1>3 DEF EndStatics, Statics
  <2>3. Old(statics') = Old(statics)
    BY <2>2 DEF Old
  <2>4. ~duck.open
    BY <1>1, <1>3 DEF HasActiveTransaction, LifeInv, DuckOK
  <2>5. XactOK(xact', statics')
    BY <1>3, <2>1, NoXactOK DEF XactOK
  <2>6. xact'.kind # "block"
    BY <1>3, NoXactOK
  <2>. QED
    BY <1>3, <2>1, <2>2, <2>3, <2>4, <2>5, <2>6, ControlOK
<1>. QED
  BY <1>2, <1>3 DEF PrepareTransaction

(* ROLLBACK restores the registry from its copy.                           *)
LEMMA RollbackOK == IInv /\ Rollback => IInv'
<1>. SUFFICES ASSUME IInv, Rollback PROVE IInv'
  OBVIOUS
<1>1. LifeInv /\ statics \in Statics
  BY CommandIds DEF IInv
<1>2. CASE RollsBack(AbortStatics(statics))
  BY <1>1, <1>2, AbortOK DEF RollsBack
<1>3. CASE /\ xact.kind = "aborted" /\ xact' = NoXact
           /\ UNCHANGED <<statics, duck, tables, mixed>>
  <2>1. ~duck.open /\ Ended(statics)
    BY <1>1, <1>3 DEF LifeInv, XactOK, DuckOK, Over
  <2>2. XactOK(xact', statics')
    BY <1>1, <1>3, <2>1, NoXactOK DEF XactOK
  <2>3. xact'.kind # "block"
    BY <1>3, NoXactOK
  <2>. QED
    BY <1>3, <2>1, <2>2, <2>3, ControlOK
<1>. QED
  BY <1>2, <1>3 DEF Rollback

(* recycle_ddb throws the instance away with all its temporary tables.     *)
LEMMA RecycleDdbOK == IInv /\ RecycleDdb => IInv'
<1>. SUFFICES ASSUME IInv, RecycleDdb PROVE IInv'
  OBVIOUS
<1>1. /\ LifeInv /\ statics \in Statics /\ tables \in TableSets
      /\ xact.kind = "idle"
  BY CommandIds DEF IInv, LifeInv, DuckOK, RecycleDdb
<1>2. /\ statics' \in Statics /\ ~statics'.initialized
      /\ statics'.top_level_statement = statics.top_level_statement
      /\ statics'.executor_nest_level = statics.executor_nest_level
      /\ statics'.top_level_duckdb_ddl_type = statics.top_level_duckdb_ddl_type
  BY <1>1 DEF RecycleDdb, Statics
<1>3. tables' \in TableSets /\ tables'.duck = {} /\ tables'.duck_committed = {}
  BY <1>1 DEF RecycleDdb, TableSets
<1>4. duck' \in Ducks /\ ~duck'.open /\ UNCHANGED <<xact, mixed>>
  BY DEF RecycleDdb, NoDuck, Ducks
<1>5. XactOK(xact', statics')
  <2>1. XactOK(xact, statics) /\ xact.kind \in Over
    BY <1>1 DEF LifeInv, Over
  <2>2. Ended(statics) /\ ~xact.func
    BY <2>1 DEF XactOK
  <2>3. Ended(statics')
    BY <1>2, <2>2 DEF Ended
  <2>. QED
    BY <1>2, <1>4, <2>1, <2>2, <2>3 DEF XactOK
<1>6. DuckOK(xact', statics', duck', tables')
  BY <1>2, <1>3, <1>4 DEF DuckOK
<1>7. LifeInv'
  BY <1>1, <1>4, <1>5, <1>6 DEF LifeInv
<1>8. RegistryInv'
  BY <1>3 DEF RegistryInv, TempTablesAreRegistered
<1>9. ASSUME ClaimInv PROVE ClaimInv'
  BY <1>1, <1>4, <1>9 DEF ClaimInv, BlocksDoNotMixWrites
<1>. QED
  BY <1>7, <1>8, <1>9 DEF IInv

-----------------------------------------------------------------------------
(* The theorems.                                                           *)

(* Initially there is no transaction, no table and no instance.            *)
LEMMA InitOK == Init => IInv
<1>. SUFFICES ASSUME Init PROVE IInv
  OBVIOUS
<1>1. 0 \in 0..MaxCid /\ 0 \in 0..MaxNest
  BY FlagsAssumption, SMT
<1>2. /\ statics \in Statics /\ Ended(statics) /\ ~statics.modified
  BY <1>1, SMT DEF Init, Statics, Ended, FirstCommandId, DdlTypes
<1>3. XactOK(xact, statics)
  BY <1>2, NoXactOK DEF Init, XactOK
<1>4. /\ duck \in Ducks /\ ~duck.open
      /\ tables \in TableSets /\ tables.duck = {} /\ tables.duck_committed = {}
  BY DEF Init, NoDuck, Ducks, TableSets
<1>5. DuckOK(xact, statics, duck, tables)
  BY <1>4 DEF DuckOK
<1>6. xact.kind # "block" /\ mixed = "none"
  BY NoXactOK DEF Init
<1>7. LifeInv
  BY <1>3, <1>5, <1>6 DEF LifeInv, Kinds
<1>8. RegistryInv
  BY <1>4 DEF RegistryInv, TempTablesAreRegistered
<1>9. ClaimInv
  BY <1>6 DEF ClaimInv, BlocksDoNotMixWrites
<1>. QED
  BY <1>7, <1>8, <1>9 DEF IInv

(* Every step keeps the invariant.                                         *)
LEMMA StepOK == IInv /\ [Next]_vars => IInv'
<1>. SUFFICES ASSUME IInv, [Next]_vars PROVE IInv'
  OBVIOUS
<1>1. CASE UNCHANGED vars
  BY <1>1 DEF vars, IInv, LifeInv, RegistryInv, ClaimInv, XactOK, DuckOK,
              TempTablesAreRegistered, BlocksDoNotMixWrites, Old, Ended
<1>2. CASE Next
  BY <1>2, PgWriteOK, PgDdlOK, DuckSelectOK, DuckWriteOK, RawQueryOK, CopyOK,
     DuckdbTruncateTableOK, CreateTempOK, AlterTempOK, DropTablesOK,
     CallFunctionOK, ReturnFunctionOK, StatementErrorOK, BeginOK, SavepointOK,
     ReleaseSavepointOK, RollbackToSavepointOK, CommitRefusedOK,
     CommitTransactionOK, CommitFailsLateOK, PrepareTransactionOK, RollbackOK,
     RecycleDdbOK
  DEF Next
<1>. QED
  BY <1>1, <1>2

(* The three parts of the argument hold together in every reachable state. *)
THEOREM InvariantHolds == Spec => []IInv
  BY InitOK, StepOK, PTL DEF Spec

(* Command IDs, nesting levels, DDL types and sets of tables have their    *)
(* types in every session, however its statements fail.                    *)
THEOREM TypeCorrect == Spec => []TypeOK
<1>1. IInv => TypeOK
  BY DEF IInv, LifeInv, XactOK, DuckOK, Ducks, TableSets, TypeOK
<1>. QED
  BY <1>1, InvariantHolds, PTL

(* However a transaction ends - commit, refused commit, late failure,      *)
(* error, PREPARE, ROLLBACK - DuckdbXactCallback ends the DuckDB           *)
(* transaction and resets the statics: the next one starts clean.          *)
THEOREM NothingOutlives == Spec => []NothingOutlivesTheTransaction
<1>1. IInv => NothingOutlivesTheTransaction
  BY DEF IInv, LifeInv, XactOK, DuckOK, Over, Ended,
         NothingOutlivesTheTransaction
<1>. QED
  BY <1>1, InvariantHolds, PTL

(* GetConnection and DuckdbSubXactCallback between them keep the DuckDB    *)
(* transaction and savepoints apart, whichever comes first.                *)
THEOREM SavepointsExcludeDuckdb == Spec => []NoDuckdbInSubtransactions
<1>1. IInv => NoDuckdbInSubtransactions
  BY DEF IInv, LifeInv, DuckOK, NoDuckdbInSubtransactions
<1>. QED
  BY <1>1, InvariantHolds, PTL

(* If DuckDB's own commit does not fail, then temporary_duckdb_tables      *)
(* covers DuckDB's temporary tables, and its copy those that an abort      *)
(* brings back.  (If it fails, the callback has already given up the       *)
(* copy.)                                                                  *)
THEOREM TempTablesStayRegistered ==
  ASSUME "duckdb" \notin LateFailures
  PROVE  Spec => []TempTablesAreRegistered
<1>1. IInv => TempTablesAreRegistered
  BY DEF IInv, RegistryInv
<1>. QED
  BY <1>1, InvariantHolds, PTL

(* With duckdb.unsafe_allow_mixed_transactions off, no order of writes,    *)
(* DDL, failed statements, savepoints and function calls lets a block that *)
(* began with a fresh next_expected_command_id commit writes to both       *)
(* databases.                                                              *)
THEOREM BlocksNeverMix ==
  ASSUME ~AllowMixed
  PROVE  Spec => []BlocksDoNotMixWrites
<1>1. IInv => BlocksDoNotMixWrites
  BY DEF IInv, ClaimInv
<1>. QED
  BY <1>1, InvariantHolds, PTL

=============================================================================
