-------------------------- MODULE NativeInlineWriter --------------------------
(***************************************************************************)
(* The publication protocol of the native inline writer                    *)
(* (pg_ducklake/src/direct_insert/native_inline_writer.cpp).               *)
(*                                                                         *)
(* A native INSERT or COPY is one implicit PostgreSQL transaction.  It     *)
(* writes its rows once, tagged with candidate IDs, and then tries to      *)
(* publish them: read the state of the catalog, merge the column           *)
(* statistics, claim the next snapshot_id by inserting it into             *)
(* ducklake_snapshot, retag its rows if the candidates were wrong, write   *)
(* the statistics and the change record, and commit.  A claim that finds   *)
(* its key taken starts the attempt again, at most MaxRetry times.         *)
(*                                                                         *)
(* Every SPI statement of READ COMMITTED has a snapshot of its own, so     *)
(* every statement here is a step of its own: the catalog may change       *)
(* between any two of them.  What a transaction has written becomes        *)
(* visible at once, when it commits.  The exception is the key of a claim: *)
(* a second transaction that inserts the same snapshot_id waits until the  *)
(* first one has committed or aborted.                                     *)
(*                                                                         *)
(* The reservation queue only proposes candidate IDs.  Here it may propose *)
(* any IDs up to MaxSkew ahead of the state it was given; the module       *)
(* NativeWriterQueue models the queue itself.                              *)
(***************************************************************************)
EXTENDS DuckLakeCatalog

CONSTANTS
  Writers,   \* native INSERT and COPY statements
  Clients,   \* transactions of the DuckLake library
  MaxRetry,  \* ducklake.native_writer_max_retry_count
  MaxSkew,   \* bound: how far ahead a reservation may be
  None       \* what a variable holds before the code initializes it

ASSUME MaxRetryAssumption == MaxRetry \in Nat
ASSUME MaxSkewAssumption == MaxSkew \in Nat

(* The values of every transaction are a class of their own.               *)
ASSUME ValuesAssumption == Writers \cup Clients \subseteq Values

VARIABLES
  pc,       \* where each statement is
  batch,    \* its NativeInlineWriteBatch
  tags,     \* the IDs its uncommitted rows carry in the inline table
  state,    \* its PublicationState of the current attempt
  merged,   \* its PreparedColumnStats
  attempt,  \* its failed attempts
  client    \* the DuckLake transactions

writerVars == <<pc, batch, tags, state, merged, attempt>>
vars == <<catalogVars, writerVars, client>>

Ended == {"committed", "failed"}

Tags == [begin_snapshot : Nat, row_id : Nat]

NativeInlineWriteBatch ==
  [table_id : Tables, schema_version : Nat, start_snapshot_id : Nat,
   candidate : Tags, rows_inserted : Nat]

PublicationState ==
  [snapshot_id : Nat, schema_version : Nat, next_catalog_id : Nat,
   next_file_id : Nat, table_is_live : BOOLEAN, inline_schema_version : Nat,
   has_table_stats : BOOLEAN, record_count : Nat, next_row_id : Nat,
   history_complete : BOOLEAN, changes_made : SUBSET Change]

PreparedColumnStats == [values : SUBSET Values, changed : BOOLEAN]

(* The statements that have read the catalog and not yet claimed.          *)
Attempting(w) == pc[w] \in {"derive", "read", "merged"}

-----------------------------------------------------------------------------

(* The uncommitted key of ducklake_snapshot that a transaction holds.      *)
ClaimedBy(w, s) == pc[w] = "claimed" /\ state[w].snapshot_id + 1 = s
ClaimedByClient(x, s) == client[x].pc = "claimed" /\ client[x].id = s

KeyIsHeld(s) ==
  \/ \E w \in Writers : ClaimedBy(w, s)
  \/ \E x \in Clients : ClaimedByClient(x, s)

(* The single SELECT of ReadPublicationState.  It counts the change        *)
(* records after start_snapshot_id; their number equals the distance from  *)
(* start_snapshot_id exactly when no snapshot in between has expired.      *)
CurrentState(t, start) ==
  LET last == snapshot[Latest]
  IN [snapshot_id |-> Latest,
      schema_version |-> last.schema_version,
      next_catalog_id |-> last.next_catalog_id,
      next_file_id |-> last.next_file_id,
      table_is_live |-> t \in live,
      inline_schema_version |-> inline_schema[t],
      has_table_stats |-> table_stats[t].exists,
      record_count |-> table_stats[t].record_count,
      next_row_id |-> table_stats[t].next_row_id,
      history_complete |->
        start <= Latest /\ \A s \in start + 1 .. Latest : s \in DOMAIN snapshot,
      changes_made |->
        {snapshot[s].change : s \in {r \in DOMAIN snapshot : r > start}}]

(* The second SELECT, for a table without statistics: MAX(row_id) + 1 over *)
(* the committed rows.  Its WHERE clause leaves out the writer's own rows. *)
DerivedNextRowId(t) ==
  LET ends == {b.row_id + b.count : b \in {r \in rows : r.table = t}}
  IN IF ends = {} THEN 0
     ELSE CHOOSE e \in ends : \A f \in ends : f <= e

(* The checks of PublishNativeInlineWrite.  The inlined table that the plan *)
(* named is the current one of a live table.                               *)
ValidateBinding(b, st) ==
  st.table_is_live /\ st.inline_schema_version = b.schema_version

(* Mutant: deletes of inlined rows are not in the list of conflicts.       *)
CheckInterveningChangesButDeletes(b, st) ==
  \A c \in st.changes_made :
    c.table = b.table_id => c.kind \notin ConflictingKinds \ {"inlined_delete"}

CheckInterveningChanges(b, st) ==
  \A c \in st.changes_made : c.table = b.table_id => c.kind \notin ConflictingKinds

WithinIdLimits(b, st) ==
  /\ st.snapshot_id < MaxId
  /\ st.next_file_id < MaxId
  /\ st.next_row_id + b.rows_inserted <= MaxId
  /\ st.record_count + b.rows_inserted <= MaxId

Publishable(b, st) ==
  /\ ValidateBinding(b, st)
  /\ st.history_complete
  /\ CheckInterveningChanges(b, st)
  /\ WithinIdLimits(b, st)

FinalTags(st) ==
  [begin_snapshot |-> st.snapshot_id + 1, row_id |-> st.next_row_id]

(* Mutant: the new snapshot keeps the schema version of the plan.          *)
ClaimedRowOfBatchSchema(b, st) ==
  [change |-> [kind |-> "inlined_insert", table |-> b.table_id],
   schema_version |-> b.schema_version,
   next_catalog_id |-> st.next_catalog_id,
   next_file_id |-> st.next_file_id + 1]

(* The snapshot row of the claim, with its change record.                  *)
ClaimedRow(b, st) ==
  [change |-> [kind |-> "inlined_insert", table |-> b.table_id],
   schema_version |-> st.schema_version,
   next_catalog_id |-> st.next_catalog_id,
   next_file_id |-> st.next_file_id + 1]

(* Mutant: next_row_id continues the candidate IDs, not the final ones.    *)
StatsFromCandidate(b, st) ==
  [exists |-> TRUE, record_count |-> st.record_count + b.rows_inserted,
   next_row_id |-> b.candidate.row_id + b.rows_inserted]

(* The new row of ducklake_table_stats.                                    *)
StatsWithBatch(b, st) ==
  [exists |-> TRUE, record_count |-> st.record_count + b.rows_inserted,
   next_row_id |-> st.next_row_id + b.rows_inserted]

-----------------------------------------------------------------------------

Init ==
  /\ CatalogInit
  /\ pc = [w \in Writers |-> "start"]
  /\ batch = [w \in Writers |-> None]
  /\ tags = [w \in Writers |-> None]
  /\ state = [w \in Writers |-> None]
  /\ merged = [w \in Writers |-> None]
  /\ attempt = [w \in Writers |-> 0]
  /\ client = [x \in Clients |-> [pc |-> "start", op |-> None, id |-> 0]]

Goto(w, from, to) == pc[w] = from /\ pc' = [pc EXCEPT ![w] = to]

(* The statement has ended; its memory is freed.                           *)
End(w, how) ==
  /\ pc' = [pc EXCEPT ![w] = how]
  /\ batch' = [batch EXCEPT ![w] = None]
  /\ tags' = [tags EXCEPT ![w] = None]
  /\ state' = [state EXCEPT ![w] = None]
  /\ merged' = [merged EXCEPT ![w] = None]
  /\ attempt' = [attempt EXCEPT ![w] = 0]

(* The planner finds the inlined data table and remembers its version.     *)
PlanDirectInsert(w) ==
  /\ Goto(w, "start", "planned")
  /\ \E t \in live :
       batch' = [batch EXCEPT ![w] =
         [table_id |-> t, schema_version |-> inline_schema[t],
          start_snapshot_id |-> 0, rows_inserted |-> 0,
          candidate |-> [begin_snapshot |-> 0, row_id |-> 0]]]
  /\ UNCHANGED <<catalogVars, tags, state, merged, attempt, client>>

(* Bind the statement to the current state and take candidate IDs: the     *)
(* next ones, or the ones the queue reserved.  The second SELECT, for a    *)
(* table without statistics, is part of this step: it only decides a       *)
(* candidate, which may be wrong in any case.                              *)
PrepareNativeInlineWrite(w) ==
  LET t  == batch[w].table_id
      st == CurrentState(t, MaxId)
      first == IF st.has_table_stats THEN st.next_row_id ELSE DerivedNextRowId(t)
  IN /\ Goto(w, "planned", "prepared")
     /\ ValidateBinding(batch[w], st)
     /\ st.snapshot_id < MaxId
     /\ first <= MaxId
     /\ \E skew \in 0 .. MaxSkew, rowSkew \in 0 .. MaxSkew :
          batch' = [batch EXCEPT ![w] =
            [@ EXCEPT !.start_snapshot_id = st.snapshot_id,
                      !.candidate = [begin_snapshot |-> st.snapshot_id + 1 + skew,
                                     row_id |-> first + rowSkew]]]
     /\ UNCHANGED <<catalogVars, tags, state, merged, attempt, client>>

(* Consume the producer once and write its rows with the candidate IDs.    *)
InsertRows(w) ==
  /\ Goto(w, "prepared", "publish")
  /\ \E n \in 1 .. MaxRows :
       /\ batch[w].candidate.row_id + n <= MaxId
       /\ batch' = [batch EXCEPT ![w] = [@ EXCEPT !.rows_inserted = n]]
  /\ tags' = [tags EXCEPT ![w] = batch[w].candidate]
  /\ UNCHANGED <<catalogVars, state, merged, attempt, client>>

(* An empty batch publishes nothing.                                       *)
InsertNothing(w) ==
  /\ pc[w] = "prepared"
  /\ End(w, "committed")
  /\ UNCHANGED <<catalogVars, client>>

ReadPublicationState(w) ==
  LET st == CurrentState(batch[w].table_id, batch[w].start_snapshot_id)
  IN /\ Goto(w, "publish", IF st.has_table_stats THEN "read" ELSE "derive")
     /\ state' = [state EXCEPT ![w] = st]
     /\ UNCHANGED <<catalogVars, batch, tags, merged, attempt, client>>

DeriveNextRowId(w) ==
  /\ Goto(w, "derive", "read")
  /\ state' = [state EXCEPT ![w] =
       [@ EXCEPT !.next_row_id = DerivedNextRowId(batch[w].table_id),
                 !.record_count = 0]]
  /\ UNCHANGED <<catalogVars, batch, tags, merged, attempt, client>>

(* Mutant: a batch that starts the statistics does not write its bounds.   *)
PrepareMergedColumnStatsUnlessFirst(w) ==
  LET b    == batch[w]
      old  == IF state[w].has_table_stats THEN column_stats[b.table_id] ELSE {}
      new  == old \cup {w}
  IN /\ Goto(w, "read", "merged")
     /\ Publishable(b, state[w])
     /\ merged' = [merged EXCEPT ![w] =
          [values |-> new, changed |-> state[w].has_table_stats /\ new # old]]
     /\ UNCHANGED <<catalogVars, batch, tags, state, attempt, client>>

(* The checks of an attempt, and the column statistics as a later SPI      *)
(* statement reads them.  Without a statistics row the batch starts them.  *)
PrepareMergedColumnStats(w) ==
  LET b    == batch[w]
      old  == IF state[w].has_table_stats THEN column_stats[b.table_id] ELSE {}
      new  == old \cup {w}
  IN /\ Goto(w, "read", "merged")
     /\ Publishable(b, state[w])
     /\ merged' = [merged EXCEPT ![w] =
          [values |-> new,
           changed |-> ~state[w].has_table_stats \/ new # old]]
     /\ UNCHANGED <<catalogVars, batch, tags, state, attempt, client>>

(* Mutant: the rows are retagged only if their row IDs are wrong.          *)
ClaimSnapshotRetagRowIds(w) ==
  LET final == FinalTags(state[w])
  IN /\ Goto(w, "merged", "claimed")
     /\ final.begin_snapshot \notin DOMAIN snapshot
     /\ ~KeyIsHeld(final.begin_snapshot)
     /\ tags' = [tags EXCEPT ![w] =
                   IF final.row_id = batch[w].candidate.row_id THEN @ ELSE final]
     /\ UNCHANGED <<catalogVars, batch, state, merged, attempt, client>>

(* INSERT ... ON CONFLICT DO NOTHING obtained the key.  The rows and the   *)
(* metadata are written in the same subtransaction.                        *)
ClaimSnapshot(w) ==
  LET final == FinalTags(state[w])
  IN /\ Goto(w, "merged", "claimed")
     /\ final.begin_snapshot \notin DOMAIN snapshot
     /\ ~KeyIsHeld(final.begin_snapshot)
     /\ tags' = [tags EXCEPT ![w] =
                   IF final = batch[w].candidate THEN @ ELSE final]
     /\ UNCHANGED <<catalogVars, batch, state, merged, attempt, client>>

(* The key is taken by a committed snapshot: back off and try again.       *)
ClaimConflict(w) ==
  /\ Goto(w, "merged", "publish")
  /\ state[w].snapshot_id + 1 \in DOMAIN snapshot
  /\ attempt[w] < MaxRetry
  /\ attempt' = [attempt EXCEPT ![w] = @ + 1]
  /\ UNCHANGED <<catalogVars, batch, tags, state, merged, client>>

(* The implicit transaction commits: the snapshot, its change record, the  *)
(* statistics and the rows appear together.                                *)
CommitBatch(w) ==
  LET b  == batch[w]
      st == state[w]
      t  == b.table_id
  IN /\ pc[w] = "claimed"
     /\ End(w, "committed")
     /\ snapshot' = WithSnapshot(st.snapshot_id + 1, ClaimedRow(b, st))
     /\ table_stats' = [table_stats EXCEPT ![t] = StatsWithBatch(b, st)]
     /\ column_stats' =
          [column_stats EXCEPT ![t] =
            IF merged[w].changed THEN merged[w].values ELSE @]
     /\ rows' = rows \cup
          {[table |-> t, begin_snapshot |-> tags[w].begin_snapshot,
            row_id |-> tags[w].row_id, count |-> b.rows_inserted, value |-> w]}
     /\ UNCHANGED <<live, inline_schema, client>>

(* Mutant: a failed check is retried, and not counted as an attempt.       *)
FailStatementRetried(w) ==
  /\ Goto(w, "read", "publish")
  /\ ~Publishable(batch[w], state[w])
  /\ UNCHANGED <<catalogVars, batch, tags, state, merged, attempt, client>>

(* A check raises an error, or the retries are exhausted.  PostgreSQL      *)
(* rolls the whole transaction back.                                       *)
FailStatement(w) ==
  LET b == batch[w]
  IN /\ \/ /\ pc[w] = "planned"
           /\ LET st == CurrentState(b.table_id, MaxId)
              IN ~(ValidateBinding(b, st) /\ st.snapshot_id < MaxId)
        \/ pc[w] = "prepared" /\ b.candidate.row_id + MaxRows > MaxId
        \/ pc[w] = "read" /\ ~Publishable(b, state[w])
        \/ /\ pc[w] = "merged"
           /\ state[w].snapshot_id + 1 \in DOMAIN snapshot
           /\ attempt[w] = MaxRetry
     /\ End(w, "failed")
     /\ UNCHANGED <<catalogVars, client>>

(* The statement is cancelled, a step raises an error of its own, or the   *)
(* backend dies.                                                           *)
AbortStatement(w) ==
  /\ pc[w] \notin Ended \cup {"start"}
  /\ End(w, "failed")
  /\ UNCHANGED <<catalogVars, client>>

-----------------------------------------------------------------------------

(* A DuckLake transaction starts its commit with the same claim.  It       *)
(* resolves conflicts with the commits before it and then holds the key.   *)
DuckLakeClaim(x) ==
  /\ client[x].pc = "start"
  /\ ~KeyIsHeld(Latest + 1)
  /\ \E op \in Operation :
       /\ OperationIsPossible(op)
       /\ client' = [client EXCEPT ![x] =
                       [pc |-> "claimed", op |-> op, id |-> Latest + 1]]
  /\ UNCHANGED <<catalogVars, writerVars>>

EndClient(x, how) ==
  /\ client[x].pc = "claimed"
  /\ client' = [client EXCEPT ![x] = [pc |-> how, op |-> None, id |-> 0]]
  /\ UNCHANGED writerVars

DuckLakeFinish(x) ==
  EndClient(x, "committed") /\ DuckLakeCommit(client[x].op, x)

DuckLakeAbort(x) ==
  EndClient(x, "failed") /\ UNCHANGED catalogVars

(* ducklake_expire_snapshots, from SQL or from the maintenance worker.     *)
Expire(s) == ExpireSnapshot(s) /\ UNCHANGED <<writerVars, client>>

(* The retention window is longer than an attempt takes: no snapshot       *)
(* expires that was committed after a running attempt read the catalog.    *)
RetentionCoversAttempts(s) ==
  \A w \in Writers : Attempting(w) => s <= state[w].snapshot_id

WriterStep(w) ==
  \/ PlanDirectInsert(w)
  \/ PrepareNativeInlineWrite(w)
  \/ InsertRows(w)
  \/ InsertNothing(w)
  \/ ReadPublicationState(w)
  \/ DeriveNextRowId(w)
  \/ PrepareMergedColumnStats(w)
  \/ ClaimSnapshot(w)
  \/ ClaimConflict(w)
  \/ CommitBatch(w)
  \/ FailStatement(w)

ClientStep(x) == DuckLakeClaim(x) \/ DuckLakeFinish(x) \/ DuckLakeAbort(x)

(* Every statement has ended.  Without this step TLC would report the end  *)
(* as a deadlock.                                                          *)
Terminated ==
  /\ \A w \in Writers : pc[w] \in Ended \cup {"start"}
  /\ \A x \in Clients : client[x].pc # "claimed"
  /\ UNCHANGED vars

Next ==
  \/ \E w \in Writers : WriterStep(w)
  \/ \E w \in Writers : AbortStatement(w)
  \/ \E x \in Clients : ClientStep(x)
  \/ \E s \in DOMAIN snapshot : RetentionCoversAttempts(s) /\ Expire(s)
  \/ Terminated

Spec == Init /\ [][Next]_vars

(* A statement that can take a step takes one.  PostgreSQL ends every      *)
(* transaction that has claimed: a native statement and a DuckLake commit  *)
(* claim at their end, with no wait for a user in between.                 *)
Fairness ==
  /\ \A w \in Writers : WF_vars(WriterStep(w) /\ pc[w] # "start")
  /\ \A x \in Clients : WF_vars(DuckLakeFinish(x) \/ DuckLakeAbort(x))

FairSpec == Spec /\ Fairness

-----------------------------------------------------------------------------

(* When a statement is where, and which of its variables are set there.    *)
TypeOK ==
  /\ CatalogTypeOK
  /\ pc \in [Writers -> {"start", "planned", "prepared", "publish", "derive",
                         "read", "merged", "claimed"} \cup Ended]
  /\ batch \in [Writers -> NativeInlineWriteBatch \cup {None}]
  /\ tags \in [Writers -> Tags \cup {None}]
  /\ state \in [Writers -> PublicationState \cup {None}]
  /\ merged \in [Writers -> PreparedColumnStats \cup {None}]
  /\ attempt \in [Writers -> 0 .. MaxRetry]
  /\ client \in [Clients -> [pc : {"start", "claimed"} \cup Ended,
                             op : Operation \cup {None}, id : Nat]]

(* A native append that commits was not overtaken by a change it must not  *)
(* cross: its table is live, its inlined data table is still the current   *)
(* one, and no snapshot since its preparation dropped, altered or deleted  *)
(* from its table (ValidateBinding and CheckInterveningChanges run before  *)
(* the claim; the claim makes them hold until the commit).                 *)
NoAppendAcrossConflict ==
  [][\A w \in Writers :
       pc[w] = "claimed" /\ pc'[w] = "committed" =>
         /\ batch[w].table_id \in live
         /\ inline_schema[batch[w].table_id] = batch[w].schema_version
         /\ \A s \in DOMAIN snapshot :
              s > batch[w].start_snapshot_id =>
                \/ snapshot[s].change.table # batch[w].table_id
                \/ snapshot[s].change.kind \notin ConflictingKinds]_vars

(* Every native statement that has been planned ends: it commits, or it    *)
(* fails within its retries.  It waits for the key of another transaction  *)
(* at most until that transaction ends.                                    *)
StatementsEnd ==
  \A w \in Writers : pc[w] = "planned" ~> pc[w] \in Ended

-----------------------------------------------------------------------------

(* The inductive invariant behind the refinement.                          *)

(* Which variables of a statement are set, and what they have passed.      *)
StatementOK(w) ==
  /\ pc[w] \notin Ended \cup {"start"} => batch[w] \in NativeInlineWriteBatch
  /\ pc[w] \in {"publish", "derive", "read", "merged", "claimed"} =>
       batch[w].rows_inserted \in 1 .. MaxRows
  /\ pc[w] \in {"publish", "derive", "read", "merged"} =>
       tags[w] = batch[w].candidate
  /\ pc[w] = "claimed" => tags[w] = FinalTags(state[w])
  /\ pc[w] \in {"derive", "read", "merged", "claimed"} =>
       state[w] \in PublicationState
  /\ pc[w] = "derive" => ~state[w].has_table_stats
  /\ pc[w] \in {"merged", "claimed"} =>
       /\ merged[w] \in PreparedColumnStats
       /\ Publishable(batch[w], state[w])

(* What a statement has read is what the catalog holds.                    *)
StateIsCurrent(w) ==
  LET st == state[w]
      t  == batch[w].table_id
  IN /\ st.schema_version = snapshot[Latest].schema_version
     /\ st.next_catalog_id = snapshot[Latest].next_catalog_id
     /\ st.next_file_id = snapshot[Latest].next_file_id
     /\ st.table_is_live <=> t \in live
     /\ st.inline_schema_version = inline_schema[t]
     /\ st.has_table_stats <=> table_stats[t].exists
     /\ st.record_count = table_stats[t].record_count
     /\ st.next_row_id = table_stats[t].next_row_id
     /\ \A s \in DOMAIN snapshot :
          s > batch[w].start_snapshot_id =>
            snapshot[s].change \in st.changes_made
     /\ pc[w] \in {"merged", "claimed"} =>
          column_stats[t] \cup {w} =
            IF merged[w].changed THEN merged[w].values ELSE column_stats[t]

(* The catalog changes only with a new snapshot, so what was read at the   *)
(* latest snapshot is current; and the snapshots after the one that was    *)
(* read are all there, so their first one makes the claim fail.            *)
AttemptOK(w) ==
  pc[w] \in {"derive", "read", "merged", "claimed"} =>
    /\ state[w].snapshot_id <= Latest
    /\ pc[w] = "claimed" => state[w].snapshot_id = Latest
    /\ state[w].snapshot_id + 1 .. Latest \subseteq DOMAIN snapshot
    /\ state[w].snapshot_id = Latest => StateIsCurrent(w)

ClientOK(x) ==
  client[x].pc = "claimed" =>
    /\ client[x].id = Latest + 1
    /\ client[x].op \in Operation

(* At most one transaction holds an uncommitted snapshot.                  *)
OneClaim ==
  /\ \A u, w \in Writers : pc[u] = "claimed" /\ pc[w] = "claimed" => u = w
  /\ \A x, y \in Clients :
       client[x].pc = "claimed" /\ client[y].pc = "claimed" => x = y
  /\ \A w \in Writers, x \in Clients :
       ~(pc[w] = "claimed" /\ client[x].pc = "claimed")

(* The publication claim makes a writer's reading of the catalog, which is *)
(* older than the claim and never repeated, current until it commits.      *)
WriterInv ==
  /\ \A w \in Writers : StatementOK(w) /\ AttemptOK(w)
  /\ \A x \in Clients : ClientOK(x)
  /\ OneClaim

=============================================================================
