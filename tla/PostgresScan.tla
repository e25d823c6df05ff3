---------------------------- MODULE PostgresScan ----------------------------
(***************************************************************************)
(* The scan of a Postgres heap table by DuckDB, as one query of a backend  *)
(* runs it: the main thread in the custom scan node, the DuckDB threads    *)
(* that run the tasks of the scan, the PostgreSQL parallel workers that    *)
(* feed it through bounded queues, and the process-wide lock that all      *)
(* calls into PostgreSQL share.  ScanPushdown says what the scan asks for. *)
(*                                                                         *)
(* A tuple is the sequence of the rows it stands for: one row, or all the  *)
(* rows that a worker has counted.  So what a count amounts to is compared *)
(* with the table in the same way as the rows themselves.                  *)
(***************************************************************************)
EXTENDS ScanPushdown, TypeConversion

CONSTANTS
  Queries,     \* the queries: see MCPostgresScan
  Workers,     \* the parallel workers PostgreSQL may launch for the scan
  Tasks,       \* the tasks of DuckDB's scan pipeline
  MainTask,    \* the task that the main thread runs in ExecuteTask
  NoOwner,     \* no thread holds GlobalProcessLock
  MaxWorkersPerScan,  \* duckdb_max_workers_per_postgres_scan
  QueueSize,   \* tuples a worker's queue holds
  BatchSize,   \* LOCAL_STATE_SLOT_BATCH_SIZE
  VectorSize   \* STANDARD_VECTOR_SIZE

VARIABLES
  q,          \* the query
  converted,  \* what the conversions make of the query's value
  scan_query, \* what the scan asks of PostgreSQL
  ops,        \* the operators that stay above the scan
  main,       \* what the main thread does
  reader,     \* the PostgresTableReader
  remaining,  \* rows of the scan that no process has claimed yet
  worker,     \* the state, the queue and the counted rows of each worker
  latch,      \* MyLatch is set
  lock,       \* the task that holds GlobalProcessLock, or NoOwner
  registered, \* registered_local_states
  task,       \* each task: what it does, its tuples, its chunk, its flags
  out,        \* rows handed to the pipeline above the scan
  node,       \* the DuckdbScanState: the result, its chunk, the rows given
  hold,       \* QueryCancelHoldoffCount
  cancel,     \* QueryCancelPending
  error       \* a task has failed

plan == <<q, converted, scan_query, ops>>
scan == <<reader, remaining, registered>>
executor == <<node, hold>>
vars == <<plan, main, scan, worker, latch, lock, task, out, executor, cancel,
          error>>

---------------------------------------------------------------------------
NoReader == [phase |-> "none", launched |-> 0, readers |-> <<>>, next |-> 1,
             parallel |-> FALSE]

NewTask == [pc |-> "new", batch |-> <<>>, chunk |-> <<>>, visited |-> 0,
            exhausted |-> FALSE]

(* The row q.row has the value q.value in a column whose other rows are    *)
(* null; the query casts it to the unit q.unit.                            *)
NoValue == [kind |-> "null"]
Conversions(query) ==
  LET duck == PgToDuck(query.value)
  IN [duck |-> duck, pg |-> DuckToPg(duck, query.unit)]

NewNode == [result |-> <<>>, current_data_chunk |-> <<>>, current_row |-> 0,
            fetch_next |-> TRUE, given |-> <<>>, value |-> NoValue,
            es_processed |-> 0]

(* Duckdb_BeginCustomScan has prepared the query and holds off cancelling. *)
Init ==
  /\ q \in Queries
  /\ converted = Conversions(q)
  /\ scan_query = NoQuery /\ ops = <<>>
  /\ main = "begin"
  /\ reader = NoReader
  /\ remaining = <<>>
  /\ worker = [w \in Workers |-> [state |-> "idle", queue |-> <<>>,
                                  counted |-> <<>>]]
  /\ latch = FALSE
  /\ lock = NoOwner
  /\ registered = 0
  /\ task = [t \in Tasks |-> NewTask]
  /\ out = <<>>
  /\ node = NewNode /\ hold = 1
  /\ cancel = FALSE
  /\ error = FALSE

---------------------------------------------------------------------------
(* The reader is opened while the query starts, on the main thread.        *)

(* The root of the plan that PostgreSQL makes for the query.               *)
PlanNodes(query) ==
  IF query.count THEN {"Agg"}
  ELSE IF query.bind.orders = <<>> THEN {"SeqScan"}
  ELSE IF query.bind.limit # 0 THEN {"Limit"}
  ELSE {"Sort"} \cup
       (IF \E i \in DOMAIN q.attrs :
             /\ q.attrs[i] = query.bind.orders[1].column
             /\ IndexOrders(q.indexes, i, query.bind.orders[1])
        THEN {"IndexScan"} ELSE {})

CanTableScanRunInParallel(root) == root \in {"SeqScan", "IndexScan", "Agg"}

(* large: PostgreSQL expects more than 2^16 rows.                          *)
ParallelWorkerNumber(large) ==
  IF large \/ MaxWorkersPerScan = 0 THEN MaxWorkersPerScan ELSE 1

InitRunWithParallelScan(ws) ==
  /\ reader' = [NoReader EXCEPT !.phase = "open", !.parallel = TRUE,
                                !.launched = Len(ws), !.readers = ws]
  /\ worker' = [w \in Workers |->
                  IF w \in ToSet(ws) THEN [worker[w] EXCEPT !.state = "runs"]
                  ELSE worker[w]]

(* DuckDB plans the query and opens the scan; PostgreSQL launches as many  *)
(* workers as it has slots for.  An unknown filter ends the query, as does *)
(* a type without a counterpart in DuckDB.                                 *)
Unsupported == q.value.kind = "numeric" /\ converted.duck = Refused

InitGlobalThrows ==
  /\ main = "begin"
  /\ QueryThrows(q) \/ Unsupported
  /\ main' = "failed"
  /\ error' = TRUE
  /\ task' = [t \in Tasks |-> [NewTask EXCEPT !.pc = "retired"]]
  /\ UNCHANGED <<plan, scan, worker, latch, lock, out, executor, cancel>>

InitGlobal ==
  /\ main = "begin"
  /\ ~QueryThrows(q) /\ ~Unsupported
  /\ LET pushed == PushdownRecursive(q, q.ops)
     IN /\ ops' = pushed.ops
        /\ scan_query' = ConstructTableScanQuery(q, pushed.bind)
  /\ remaining' = PgRows(scan_query')
  /\ \E root \in PlanNodes(scan_query'), large \in BOOLEAN :
       IF ~q.temp /\ MaxWorkersPerScan > 0 /\ CanTableScanRunInParallel(root)
       THEN \E n \in 0..ParallelWorkerNumber(large) :
              InitRunWithParallelScan(SubSeq(SetToSeq(Workers), 1, n))
       ELSE /\ reader' = [NoReader EXCEPT !.phase = "open"]
            /\ UNCHANGED worker
  /\ main' = "executes"
  /\ UNCHANGED <<q, converted, latch, lock, registered, task, out, executor,
                 cancel, error>>

---------------------------------------------------------------------------
(* Parallel workers.  Rows are dealt out one at a time, so that a worker's *)
(* rows are in the order of the plan and the workers' together are not.    *)
(* A send, and the end of a worker, set the latch of the backend.          *)

Claim(w) ==
  /\ worker[w].state = "runs"
  /\ remaining # <<>>
  /\ IF scan_query.count
     THEN /\ worker' = [worker EXCEPT ![w].counted =
                          Append(@, Head(remaining))]
          /\ UNCHANGED latch
     ELSE /\ Len(worker[w].queue) < QueueSize
          /\ worker' = [worker EXCEPT ![w].queue =
                          Append(@, <<Head(remaining)>>)]
          /\ latch' = TRUE
  /\ remaining' = Tail(remaining)
  /\ UNCHANGED <<plan, main, reader, registered, lock, task, out, executor,
                 cancel, error>>

Finish(w) ==
  /\ worker[w].state = "runs"
  /\ remaining = <<>>
  /\ worker' = [worker EXCEPT
       ![w].state = "done",
       ![w].queue = IF scan_query.count
                    THEN Append(@, worker[w].counted) ELSE @]
  /\ latch' = TRUE
  /\ UNCHANGED <<plan, main, scan, lock, task, out, executor, cancel, error>>

Fail(w) ==
  /\ worker[w].state = "runs"
  /\ worker' = [worker EXCEPT ![w].state = "failed"]
  /\ latch' = TRUE
  /\ UNCHANGED <<plan, main, scan, lock, task, out, executor, cancel, error>>

---------------------------------------------------------------------------
(* Cleanup: ExecParallelFinish stops the workers and reports the error of  *)
(* one that failed, before parallel mode is left.                          *)

CleanupThrows == \E w \in Workers : worker[w].state = "failed"

(* Mutant: the parallel context is dropped without ExecParallelFinish.     *)
CleanupWithoutFinish ==
  /\ reader' = [reader EXCEPT !.phase = "cleaned", !.parallel = FALSE]
  /\ UNCHANGED worker

Cleanup ==
  /\ reader' = [reader EXCEPT !.phase = "cleaned",
                              !.parallel = @ /\ CleanupThrows]
  /\ worker' = [w \in Workers |->
                  IF worker[w].state = "runs"
                  THEN [worker[w] EXCEPT !.state = "stopped"]
                  ELSE worker[w]]

---------------------------------------------------------------------------
(* Tasks.  DuckDB gives an order-preserving pipeline one task, and none    *)
(* more than MaxThreads.                                                   *)

MaxThreads == IF reader.launched > 0 /\ ~scan_query.count THEN 2 ELSE 1
Threads == IF q.sink = "collect" \/ MaxThreads = 1
           THEN {MainTask} ELSE Tasks

(* The executor asks nothing more of the scan.                             *)
Interrupted == main # "executes" \/ error
Enough == q.wants > 0 /\ Len(out) >= q.wants

(* RegisterLocalState fails once the reader has been cleaned up.           *)
InitLocal(t) ==
  /\ main = "executes" /\ ~error
  /\ t \in Threads /\ task[t].pc = "new"
  /\ lock = NoOwner
  /\ registered' = IF registered < 0 THEN registered ELSE registered + 1
  /\ task' = [task EXCEPT ![t].pc = "ready"]
  /\ UNCHANGED <<plan, main, reader, remaining, worker, latch, lock, out,
                 executor, cancel, error>>

(* PostgresScanFunction takes the lock for one batch; a count and a scan   *)
(* without workers keep it for the whole call.                             *)
BeginBatch(t) ==
  /\ task[t].pc = "ready"
  /\ ~Interrupted /\ ~Enough
  /\ lock = NoOwner
  /\ lock' = t
  /\ task' = [task EXCEPT ![t] = [@ EXCEPT !.pc = "fetch", !.batch = <<>>,
                                           !.visited = 0]]
  /\ UNCHANGED <<plan, main, scan, worker, latch, out, executor, cancel,
                 error>>

(* Tuples of workers are converted outside the lock.                       *)
FedByWorkers == reader.launched > 0 /\ ~scan_query.count
LockAfterFetch(t) == IF FedByWorkers THEN NoOwner ELSE t

(* The reader has returned the rows of a tuple, or no tuple.               *)
TakeTuple(t, tuple) ==
  LET batch == Append(task[t].batch, tuple)
      full == ~scan_query.count /\ Len(batch) = BatchSize
  IN /\ task' = [task EXCEPT ![t] = [@ EXCEPT !.batch = batch, !.visited = 0,
                   !.pc = IF full THEN "convert" ELSE "fetch"]]
     /\ lock' = IF full THEN LockAfterFetch(t) ELSE t

NoTuple(t) ==
  /\ task' = [task EXCEPT ![t] = [@ EXCEPT !.pc = "convert",
                                           !.exhausted = TRUE]]
  /\ lock' = LockAfterFetch(t)

Gone(w) == worker[w].state # "runs" /\ worker[w].queue = <<>>
Current == reader.readers[reader.next]

Wrapped(n, readers) == IF n > Len(readers) THEN 1 ELSE n

(* One turn of the loop of GetNextWorkerTuple, by what the reader whose    *)
(* turn it is has: a tuple, its end, or nothing yet.                       *)
Receive(t) ==
  /\ task[t].pc = "fetch" /\ reader.readers # <<>>
  /\ worker[Current].queue # <<>>
  /\ worker' = [worker EXCEPT ![Current].queue = Tail(@)]
  /\ TakeTuple(t, Head(worker[Current].queue))
  /\ UNCHANGED <<plan, main, scan, latch, out, executor, cancel, error>>

ReaderDone(t) ==
  /\ task[t].pc = "fetch" /\ reader.readers # <<>>
  /\ Gone(Current)
  /\ LET readers == RemoveAt(reader.readers, reader.next)
     IN /\ reader' = [reader EXCEPT !.readers = readers,
                                    !.next = Wrapped(@, readers)]
        /\ IF readers = <<>> /\ ~scan_query.count
           THEN NoTuple(t) ELSE UNCHANGED <<task, lock>>
  /\ UNCHANGED <<plan, main, remaining, registered, worker, latch, out,
                 executor, cancel, error>>

Visited(t) == task[t].visited + 1 >= Len(reader.readers)

NothingYet(t) ==
  /\ task[t].pc = "fetch" /\ reader.readers # <<>>
  /\ worker[Current].queue = <<>> /\ ~Gone(Current)
  /\ reader' = [reader EXCEPT !.next = Wrapped(@ + 1, reader.readers)]
  /\ task' = [task EXCEPT ![t] =
       [@ EXCEPT !.pc = IF Visited(t) THEN "wait" ELSE "fetch",
                 !.visited = IF Visited(t) THEN 0 ELSE @ + 1]]
  /\ UNCHANGED <<plan, main, remaining, registered, worker, latch, lock, out,
                 executor, cancel, error>>

(* Mutant: the latch is reset and waited for again without another look at *)
(* the queues, so that the wakeup is lost.                                 *)
WaitLatchLosing(t) ==
  /\ task[t].pc = "wait"
  /\ latch
  /\ latch' = FALSE
  /\ UNCHANGED <<plan, main, scan, worker, lock, task, out, executor, cancel,
                 error>>

WaitLatch(t) ==
  /\ task[t].pc = "wait"
  /\ latch
  /\ latch' = FALSE
  /\ task' = [task EXCEPT ![t].pc = "fetch"]
  /\ UNCHANGED <<plan, main, scan, worker, lock, out, executor, cancel, error>>

(* No reader is left, or there never was one.  The backend runs the plan   *)
(* itself when it counts or has no workers.                                *)
ExecNextTuple(t) ==
  /\ task[t].pc = "fetch" /\ reader.readers = <<>>
  /\ IF FedByWorkers \/ remaining = <<>>
     THEN NoTuple(t) /\ UNCHANGED remaining
     ELSE IF scan_query.count
     THEN /\ TakeTuple(t, remaining)
          /\ remaining' = <<>>
     ELSE /\ TakeTuple(t, <<Head(remaining)>>)
          /\ remaining' = Tail(remaining)
  /\ UNCHANGED <<plan, main, reader, registered, worker, latch, out, executor,
                 cancel, error>>

(* SetOutputCardinality: a chunk holds at most VectorSize rows.            *)
Hand(t, rows, pc) ==
  LET n == IF Len(rows) < VectorSize THEN Len(rows) ELSE VectorSize
  IN /\ out' = out \o SubSeq(rows, 1, n)
     /\ task' = [task EXCEPT ![t] =
          [@ EXCEPT !.pc = pc, !.batch = <<>>,
                    !.chunk = SubSeq(rows, n + 1, Len(rows))]]

Unlocked(t) == IF lock = t THEN NoOwner ELSE lock

(* A type whose conversion calls PostgreSQL is converted under the lock.   *)
IsThreadSafeType(type) == type \notin {"jsonb", "list", "bit"}

Safe(t) ==
  \/ task[t].batch = <<>> \/ scan_query.count
  \/ IsThreadSafeType(q.value.kind)

(* The batch holds the value, and DuckDB has none for it.                  *)
Unfit(t) ==
  /\ ~scan_query.count
  /\ q.row \in ToSet(FlattenSeq(task[t].batch))
  /\ converted.duck = Refused

LockConversion(t) ==
  /\ task[t].pc = "convert" /\ ~Safe(t)
  /\ lock = NoOwner
  /\ lock' = t
  /\ UNCHANGED <<plan, main, scan, worker, latch, task, out, executor, cancel,
                 error>>

(* InsertTuplesIntoChunk.                                                  *)
Convert(t) ==
  /\ task[t].pc = "convert"
  /\ Safe(t) \/ lock = t
  /\ ~Unfit(t)
  /\ IF task[t].exhausted
     THEN /\ task' = [task EXCEPT ![t].pc = "unregister"]
          /\ UNCHANGED out
     ELSE Hand(t, FlattenSeq(task[t].batch), "ready")
  /\ lock' = Unlocked(t)
  /\ UNCHANGED <<plan, main, scan, worker, latch, executor, cancel, error>>

(* A value that DuckDB cannot represent ends the query.                    *)
ConvertFails(t) ==
  /\ task[t].pc = "convert"
  /\ Safe(t) \/ lock = t
  /\ Unfit(t)
  /\ task' = [task EXCEPT ![t].pc = "retired"]
  /\ error' = TRUE
  /\ lock' = Unlocked(t)
  /\ UNCHANGED <<plan, main, scan, worker, latch, out, executor, cancel>>

(* n local states are left.                                                *)
LastGone(n) == n = 0

(* Mutant: the count stays at 0 after the clean-up.                        *)
AfterCleanupZero == 0

AfterCleanup == -1

UnregisterLocalState(t) ==
  /\ task[t].pc = "unregister"
  /\ lock = NoOwner
  /\ IF LastGone(registered - 1)
     THEN registered' = AfterCleanup /\ Cleanup
     ELSE registered' = registered - 1 /\ UNCHANGED <<reader, worker>>
  /\ IF LastGone(registered - 1) /\ CleanupThrows
     THEN /\ task' = [task EXCEPT ![t].pc = "retired"]
          /\ error' = TRUE
          /\ UNCHANGED out
     ELSE /\ Hand(t, FlattenSeq(task[t].batch), "drain")
          /\ UNCHANGED error
  /\ UNCHANGED <<plan, main, remaining, latch, lock, executor, cancel>>

(* The calls after the last batch hand over what is left of a count, until *)
(* an empty chunk ends the task.                                           *)
Drain(t) ==
  /\ task[t].pc = "drain"
  /\ Hand(t, task[t].chunk,
          IF task[t].chunk = <<>> THEN "retired" ELSE "drain")
  /\ UNCHANGED <<plan, main, scan, worker, latch, lock, executor, cancel,
                 error>>

(* The executor drops a task between two calls.                            *)
Drop(t) ==
  /\ task[t].pc \in {"new", "ready", "drain"}
  /\ main \in {"executes", "cancels"}
  /\ Interrupted \/ Enough \/ t \notin Threads
  /\ task' = [task EXCEPT ![t].pc = "retired"]
  /\ UNCHANGED <<plan, main, scan, worker, latch, lock, out, executor, cancel,
                 error>>

---------------------------------------------------------------------------
(* The main thread.                                                        *)

(* A cancel request is a signal, which sets the latch too.  Cancelling is  *)
(* held off in the node, so that only ExecuteQuery looks at the request.   *)
CancelRequest ==
  /\ main = "executes" /\ ~cancel
  /\ cancel' = TRUE
  /\ latch' = TRUE
  /\ UNCHANGED <<plan, main, scan, worker, lock, task, out, executor, error>>

(* ExecuteQuery looks at QueryCancelPending between two tasks, interrupts  *)
(* DuckDB, and runs the tasks that are left before it throws.              *)
Cancels ==
  /\ main = "executes" /\ cancel
  /\ task[MainTask].pc \in {"new", "ready", "drain", "retired"}
  /\ \E t \in Tasks : task[t].pc # "retired"
  /\ main' = "cancels"
  /\ UNCHANGED <<plan, scan, worker, latch, lock, task, out, executor, cancel,
                 error>>

AllRetired == \A t \in Tasks : task[t].pc = "retired"

(* Mutant: the result of a query over a Postgres table is streamed.        *)
AllowStreamResultAlways == TRUE

(* The query reads a Postgres table, so ContainsPostgresTable holds.       *)
AllowStreamResult == ~q.contains_postgres_table

(* The rows of the result; wants is a LIMIT that DuckDB applies.           *)
Result == Limited(RunOperators(ops, out), q.wants, 0)

(* ExecuteQuery is over.  A statement that writes ends the scan at once    *)
(* with the count of its rows; there are none to return.                   *)
ResultReady ==
  /\ main = "executes" /\ ~error
  /\ IF AllowStreamResult THEN out # <<>> ELSE AllRetired
  /\ \E result \in {Result} :
       IF q.command = "select"
       THEN /\ main' = "fetches"
            /\ node' = [node EXCEPT !.result = result]
       ELSE /\ main' = "fetched"
            /\ node' = [node EXCEPT !.es_processed = Len(result)]
  /\ UNCHANGED <<plan, scan, worker, latch, lock, task, out, hold, cancel,
                 error>>

(* The chunk that a call of Duckdb_ExecCustomScan reads, and its row.      *)
Chunk ==
  IF ~node.fetch_next THEN node.current_data_chunk
  ELSE IF Len(node.result) < VectorSize THEN node.result
  ELSE SubSeq(node.result, 1, VectorSize)
Row == IF node.fetch_next THEN 0 ELSE node.current_row
ChunkUsed == Row + 1 >= Len(Chunk)

(* The row to return has the value.                                        *)
HasValue == Chunk # <<>> /\ Chunk[Row + 1] = q.row

(* One call returns the next row, or none at the end of the result.        *)
ExecCustomScan ==
  /\ main = "fetches"
  /\ HasValue => converted.pg # Refused
  /\ node' = [node EXCEPT
       !.result = IF node.fetch_next
                  THEN SubSeq(@, Len(Chunk) + 1, Len(@)) ELSE @,
       !.current_data_chunk = IF ChunkUsed THEN <<>> ELSE Chunk,
       !.current_row = Row + 1,
       !.fetch_next = Chunk # <<>> /\ ChunkUsed,
       !.value = IF HasValue THEN converted.pg ELSE @,
       !.given = IF Chunk = <<>> THEN @ ELSE Append(@, Chunk[Row + 1])]
  /\ main' = IF Chunk = <<>> THEN "fetched" ELSE "fetches"
  /\ UNCHANGED <<plan, scan, worker, latch, lock, task, out, hold, cancel,
                 error>>

(* A value of the row that PostgreSQL cannot represent.                    *)
ExecCustomScanFails ==
  /\ main = "fetches"
  /\ HasValue /\ converted.pg = Refused
  /\ main' = "failed"
  /\ UNCHANGED <<plan, scan, worker, latch, lock, task, out, executor, cancel,
                 error>>

(* An error in the same transaction that a savepoint catches, while the    *)
(* portal of the query is open: it ends every hold.                        *)
ErrorElsewhere ==
  /\ main = "fetches"
  /\ hold' = 0
  /\ UNCHANGED <<plan, main, scan, worker, latch, lock, task, out, node,
                 cancel, error>>

(* An error of a task, or the cancellation, reaches the main thread.       *)
Throw ==
  /\ (main = "executes" /\ error) \/ main = "cancels"
  /\ AllRetired
  /\ main' = "failed"
  /\ UNCHANGED <<plan, scan, worker, latch, lock, task, out, executor, cancel,
                 error>>

(* CleanupDuckdbScanState: the query's objects go, and ~PostgresTableReader*)
(* cleans up a reader that no task did.  What a destructor throws ends the *)
(* process.                                                                *)
CleanupDuckdbScanState(outcome) ==
  /\ AllRetired /\ lock = NoOwner
  /\ IF reader.phase = "open"
     THEN Cleanup ELSE UNCHANGED <<reader, worker>>
  /\ main' = IF reader.phase = "open" /\ CleanupThrows
             THEN "crashed" ELSE outcome
  /\ UNCHANGED <<plan, remaining, registered, latch, lock, task, out, node,
                 cancel, error>>

ResumeCancelInterrupts(n) == IF n > 0 THEN n - 1 ELSE n

(* The executor ends the scan, after its end or before it (a LIMIT of      *)
(* PostgreSQL's, a cursor that is closed).                                 *)
EndCustomScan ==
  /\ main \in {"fetches", "fetched"}
  /\ CleanupDuckdbScanState(IF main = "fetched" THEN "done" ELSE "closed")
  /\ hold' = ResumeCancelInterrupts(hold)

(* The error leaves the node; errfinish ends every hold.                   *)
LeaveOnError ==
  /\ main = "failed"
  /\ CleanupDuckdbScanState("aborted")
  /\ hold' = 0

Ended == main \in {"done", "closed", "aborted", "crashed"}

---------------------------------------------------------------------------
WorkerStep(w) == Claim(w) \/ Finish(w)

TaskStep(t) ==
  \/ InitLocal(t) \/ BeginBatch(t)
  \/ Receive(t) \/ ReaderDone(t) \/ NothingYet(t) \/ WaitLatch(t)
  \/ ExecNextTuple(t) \/ LockConversion(t) \/ Convert(t) \/ ConvertFails(t)
  \/ UnregisterLocalState(t) \/ Drain(t) \/ Drop(t)

MainStep ==
  \/ InitGlobal \/ InitGlobalThrows
  \/ Cancels \/ ResultReady \/ Throw
  \/ ExecCustomScan \/ ExecCustomScanFails \/ EndCustomScan \/ LeaveOnError

Next ==
  \/ MainStep \/ CancelRequest \/ ErrorElsewhere
  \/ \E w \in Workers : WorkerStep(w) \/ Fail(w)
  \/ \E t \in Tasks : TaskStep(t)

Spec == Init /\ [][Next]_vars

(* Every process and every thread is scheduled.  Nothing fails and nobody  *)
(* cancels out of fairness.                                                *)
FairSpec ==
  /\ Spec
  /\ WF_vars(MainStep)
  /\ \A w \in Workers : WF_vars(WorkerStep(w))
  /\ \A t \in Tasks : WF_vars(TaskStep(t))

---------------------------------------------------------------------------
(* Type correctness.                                                       *)
TypeOK ==
  /\ main \in {"begin", "executes", "cancels", "fetches", "fetched",
               "failed", "done", "closed", "aborted", "crashed"}
  /\ hold \in 0..1
  /\ reader.phase \in {"none", "open", "cleaned"}
  /\ reader.launched \in 0..MaxWorkersPerScan
  /\ reader.readers = <<>> \/ reader.next \in DOMAIN reader.readers
  /\ \A w \in Workers :
       /\ worker[w].state \in {"idle", "runs", "done", "failed", "stopped"}
       /\ Len(worker[w].queue) <= QueueSize
  /\ registered \in -Len(SetToSeq(Tasks))..Len(SetToSeq(Tasks))
  /\ lock \in Tasks \cup {NoOwner}
  /\ \A t \in Tasks :
       /\ task[t].pc \in {"new", "ready", "fetch", "wait", "convert",
                          "unregister", "drain", "retired"}
       /\ scan_query.count \/ Len(task[t].batch) <= BatchSize
  /\ ToSet(out) \subseteq DOMAIN Rows

Unbounded(n) == n \in {DT_NOBEGIN, DT_NOEND}

(* A query that ends well has its answer: DuckDB's plan, over what the     *)
(* scan handed up, gives exactly the rows that the query asks for, each    *)
(* once and none more than the optional filters let DuckDB drop itself.    *)
(* Filters, columns, batches, workers, counts and the pushed LIMIT all     *)
(* take part (PostgresScanFunction and ConstructTableScanQuery).           *)
AnswersAreWhole ==
  main = "done" =>
    LET Wanted(lenient) == RunOperators(q.ops, RowsPassing(q, lenient))
        got == ToSet(node.given)
        all == ToSet(Wanted(FALSE))
    IN /\ IsInjective(node.given)
       /\ got \subseteq ToSet(Wanted(TRUE))
       /\ IF q.command # "select"
          THEN node.es_processed = Cardinality(all)
          ELSE IF q.wants = 0 THEN all \subseteq got
          ELSE Cardinality(got) = Min({q.wants, Cardinality(all)})
       /\ scan_query.columns = [i \in DOMAIN scan_query.columns |->
            Named(q, IF CanRemoveFilterColumns(q) THEN q.projection_ids[i]
                     ELSE i)]

(* A pushed ORDER BY holds in the answer as long as one process reads the  *)
(* table: the queue of the one worker and the batches keep its order.      *)
OneProcessKeepsOrder ==
  /\ main = "done" /\ reader.launched <= 1
  /\ \E i \in DOMAIN q.ops : q.ops[i].type # "filter"
  => node.given = RunOperators(q.ops, RowsPassing(q, TRUE))

(* A value is given back as it was stored, in the unit it was cast to, or  *)
(* the query refuses it: infinities, the first and the last day, the       *)
(* digits of a numeric, its sign and its scale.  ConvertNumeric overflows  *)
(* on some values with a scale of 9, and those are left out here.          *)
ValueIsGivenBack ==
  main = "done" /\ q.row \in ToSet(node.given) /\ node.value # Overflow =>
    IF q.unit = "coarse" /\ ~Unbounded(q.value.n)
    THEN /\ node.value.n <= q.value.n + Unit - 1
         /\ q.value.n <= node.value.n + Unit - 1
         /\ (node.value.n + DUCK_TIMESTAMP_OFFSET) % Unit = 0
    ELSE node.value = q.value

(* DuckDB compares two values of a type as PostgreSQL would have: what it  *)
(* filters, sorts or joins on in PostgreSQL's stead has the same order.    *)
OrderIsKept ==
  /\ main = "done"
  /\ q.value.kind \in {"numeric", "date", "timestamp", "uuid"}
  /\ converted.duck # Refused
  => \A other \in Queries :
       /\ other.value.kind = q.value.kind
       /\ q.value.kind = "numeric" =>
            /\ other.value.width = q.value.width
            /\ other.value.dscale = q.value.dscale
       /\ PgToDuck(other.value) # Refused
       => (PgLess(q.value, other.value)
             <=> DuckLess(converted.duck, PgToDuck(other.value)))

(* The conversions between PostgreSQL and DuckDB are faithful: a value of  *)
(* a table reaches the client as it was stored, and DuckDB works with one  *)
(* that compares as it did (GetPostgresToDuckValueFn and                   *)
(* ConvertDuckToPostgresValue).                                            *)
ValuesSurvive == ValueIsGivenBack /\ OrderIsKept

(* Nobody uses the reader, or a slot that lives in its executor state,     *)
(* once it has been cleaned up, and nobody cleans it up again.  A task may *)
(* start late and still ask for tuples: it finds no readers, and the count *)
(* of local states keeps it from being the last (RegisterLocalState and    *)
(* UnregisterLocalState).                                                  *)
NoUseAfterCleanup ==
  reader.phase = "cleaned" => \A t \in Tasks :
    CASE task[t].pc = "fetch" ->
           reader.launched > 0 /\ ~scan_query.count /\ reader.readers = <<>>
      [] task[t].pc = "wait" -> FALSE
      [] task[t].pc = "convert" -> task[t].batch = <<>>
      [] task[t].pc = "unregister" -> ~LastGone(registered - 1)
      [] OTHER -> TRUE

(* One thread at a time uses PostgreSQL: a task that fetches tuples, waits *)
(* for them or converts what needs PostgreSQL holds the lock, and while    *)
(* the main thread hands rows to PostgreSQL no task is in such a call (the *)
(* reason for allow_stream_result).                                        *)
OnePostgresThread ==
  \A t \in Tasks :
    /\ task[t].pc \in {"fetch", "wait"} => lock = t
    /\ main \in {"fetches", "fetched"} =>
         /\ lock = NoOwner
         /\ task[t].pc \notin {"fetch", "wait", "convert", "unregister"}

(* A query that ends, or is closed early, leaves nothing behind: parallel  *)
(* mode is left, no worker runs (CleanupUnsafe) and a cancel request is    *)
(* heeded again (Duckdb_EndCustomScan).                                    *)
NothingLeftRunning ==
  main \in {"done", "closed"} =>
    /\ ~reader.parallel /\ \A w \in Workers : worker[w].state # "runs"
    /\ hold = 0

(* Every query ends, whatever the workers do and whenever it is cancelled: *)
(* no wakeup is lost between the queues and WaitLatch, and a task that     *)
(* waits with GlobalProcessLock held starves nobody for ever.              *)
QueryEnds == <>Ended
=============================================================================
