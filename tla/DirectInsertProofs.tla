-------------------------- MODULE DirectInsertProofs --------------------------
(***************************************************************************)
(* A session of pg_ducklake, with its DuckDB transaction and its native    *)
(* writes, implements PgTransaction; its secrets are current and its       *)
(* native writes fit the table.  For any number of secret servers and      *)
(* schema versions.                                                        *)
(*                                                                         *)
(* The argument: GetConnection opens no DuckDB transaction after a         *)
(* savepoint, and the guard of subtransactions lets no savepoint begin     *)
(* while one is open, because the gate in it is shut whenever a user's     *)
(* command runs.  So whatever waits in DuckDB belongs to the outermost     *)
(* level of the PostgreSQL transaction, and every way to end that          *)
(* transaction also ends, in the same step, what waits in DuckDB.          *)
(***************************************************************************)
EXTENDS DirectInsert, FiniteSetTheorems, TLAPS

(* Most leaves are first-order: Zenon is tried unless another is named.    *)
USE Zenon

Managers == [db : {"none", "bare", "attached"}, valid : BOOLEAN,
             loaded : SUBSET Servers, raced : BOOLEAN]

Caches == [info : 0 .. MaxVersion, types : [1 .. MaxVersion -> 0 .. MaxVersion]]

(* A manager whose secrets are current, if a message (msg) is not under    *)
(* way: it has loaded the known servers.                                   *)
MgrOK(m, msg, known) ==
  /\ m \in Managers
  /\ m.db = "none" => ~m.valid
  /\ m.valid /\ ~msg /\ ~m.raced => m.loaded = known

(* A block that failed outside a savepoint has nothing left to end.        *)
FailedIsEmpty == block = "failed" /\ ~sub => pending = {} /\ inner = {} /\ mine = {}

SessionInv ==
  /\ SessionTypeOK
  /\ MgrOK(mgr, inbox, servers \cup mine)
  /\ FailedIsEmpty
  /\ NoDuckdbAcrossSavepoints
  /\ NothingIsCarriedOver

(* The caches' part of BindingsAreOrdered.                                 *)
CacheIsOrdered ==
  /\ cache.info <= schema
  /\ \A v \in 1 .. MaxVersion : cache.types[v] # 0 => Ordered(v, cache.types[v])

PreparedIsBound == prepared # NoPlan => prepared.v # 0

IInv == TypeOK /\ SessionInv /\ BindingsAreOrdered /\ PreparedIsBound

-----------------------------------------------------------------------------

(* The manager.                                                            *)

(* An invalidation makes any instance current: nothing is claimed of it.   *)
LEMMA InvalidateSecretsOK ==
  ASSUME NEW m, NEW msg, NEW known, MgrOK(m, msg, known)
  PROVE  \A i, k : MgrOK(InvalidateSecrets(m), i, k)
  BY DEF MgrOK, Managers, InvalidateSecrets

(* Accepting the messages at the start of a query.                         *)
LEMMA AcceptedOK ==
  ASSUME SessionInv
  PROVE  MgrOK(Accepted(mgr), FALSE, servers \cup mine)
<1>1. MgrOK(mgr, inbox, servers \cup mine)
  BY DEF SessionInv
<1>2. CASE inbox
  BY <1>1, <1>2, InvalidateSecretsOK DEF Accepted
<1>3. CASE ~inbox
  BY <1>1, <1>3 DEF Accepted, MgrOK
<1>. QED
  BY <1>2, <1>3

(* The instance a query finds.                                             *)
LEMMA GotOK ==
  ASSUME SessionInv
  PROVE  MgrOK(Got, FALSE, servers \cup mine)
<1>1. CASE mgr.db = "none"
  BY <1>1 DEF Got, Bare, NoInstance, MgrOK, Managers
<1>2. CASE mgr.db # "none"
  BY <1>2, AcceptedOK DEF Got
<1>. QED
  BY <1>1, <1>2

(* Loading the secrets makes them current, unless the load fails or a      *)
(* change races it.                                                        *)
LEMMA RefreshOK ==
  ASSUME NEW m, NEW seen \in SUBSET Servers, MgrOK(m, FALSE, seen)
  PROVE  /\ m.db # "none" => MgrOK(RefreshConnectionState(m, seen, FALSE), FALSE, seen)
         /\ m.db # "none" /\ ~m.valid =>
              \A known : MgrOK(RefreshConnectionState(m, seen, TRUE), FALSE, known)
         /\ ~m.valid => \A i, known : MgrOK(RefreshFailed(m), i, known)
  BY DEF MgrOK, Managers, RefreshConnectionState, RefreshFailed

-----------------------------------------------------------------------------

(* The ends of a transaction.  Each lemma has two halves: the invariant is *)
(* kept, and the step is a step of PgTransaction.                          *)

CacheKeptOrReset == cache' \in {cache, EmptyCache}

(* AbortTransaction ends what waits in DuckDB with the transaction.        *)
LEMMA AbortTransactionOK ==
  ASSUME SessionInv, cache \in Caches, NEW after \in {"none", "failed"}, NEW e,
         e.cache \in {cache, EmptyCache},
         MgrOK(e.mgr, inbox', servers \cup mine),
         AbortTransaction(after, e),
         inbox' \in BOOLEAN, force' \in BOOLEAN
  PROVE  SessionInv' /\ Pg!AAbort /\ CacheKeptOrReset
<1>1. CacheKeptOrReset
  BY DEF AbortTransaction, ResetDirectInsertCaches, CacheKeptOrReset
<1>2. EmptyCache \in Caches
  BY SessionConstants, SMT DEF EmptyCache, Caches
<1>3. MgrOK(mgr, inbox, servers \cup mine)'
  <2>1. mine' = {} /\ servers' = servers
    BY DEF AbortTransaction
  <2>2. CASE mine = {}
    BY <2>1, <2>2 DEF AbortTransaction
  <2>3. CASE mine # {}
    <3>1. mgr' = InvalidateSecrets(e.mgr)
      BY <2>3 DEF AbortTransaction
    <3>. QED
      BY <2>1, <3>1, InvalidateSecretsOK
  <2>. QED
    BY <2>2, <2>3
<1>4. SessionTypeOK'
  BY <1>1, <1>2, <1>3
  DEF SessionInv, SessionTypeOK, AbortTransaction, DuckAfterAbort, NoDuck,
      GateAfterAbort, MgrOK, Managers, Caches, CacheKeptOrReset
<1>5. FailedIsEmpty' /\ NoDuckdbAcrossSavepoints' /\ NothingIsCarriedOver'
  BY DEF FailedIsEmpty, NoDuckdbAcrossSavepoints, NothingIsCarriedOver,
         AbortTransaction, DuckAfterAbort, NoDuck, GateAfterAbort
<1>6. Pg!AAbort
  BY DEF Pg!AAbort, AbortTransaction, DuckAfterAbort, NoDuck
<1>. QED
  BY <1>1, <1>3, <1>4, <1>5, <1>6 DEF SessionInv

(* An error after a savepoint takes back what was written after it.        *)
LEMMA AbortSubTransactionOK ==
  ASSUME SessionInv, cache \in Caches, Running, sub, NEW e,
         e.cache \in {cache, EmptyCache}, e.gate \in BOOLEAN, ~e.gate, e.duck = duck,
         MgrOK(e.mgr, inbox', servers \cup mine),
         AbortSubTransaction(e),
         inbox' \in BOOLEAN, force' \in BOOLEAN
  PROVE  SessionInv' /\ Pg!ARollbackToSavepoint /\ CacheKeptOrReset
<1>1. CacheKeptOrReset
  BY DEF AbortSubTransaction, CacheKeptOrReset
<1>2. EmptyCache \in Caches
  BY SessionConstants, SMT DEF EmptyCache, Caches
<1>3. MgrOK(mgr, inbox, servers \cup mine)'
  BY DEF AbortSubTransaction
<1>4. /\ block' \in {"none", "statement", "open", "failed"} /\ sub' \in BOOLEAN
      /\ block' # "none" /\ (sub' \/ block' = "statement") /\ inner' = {}
      /\ duck' = duck /\ allow' \in BOOLEAN /\ ~allow'
      /\ UNCHANGED <<pending, published, servers, mine>>
  BY DEF AbortSubTransaction, Running
<1>5. duck.active = FALSE /\ duck.wrote = FALSE
  BY DEF SessionInv, SessionTypeOK, NoDuckdbAcrossSavepoints
<1>6. SessionTypeOK'
  BY <1>1, <1>2, <1>3, <1>4
  DEF SessionInv, SessionTypeOK, MgrOK, Managers, Caches, CacheKeptOrReset
<1>7. FailedIsEmpty' /\ NoDuckdbAcrossSavepoints' /\ NothingIsCarriedOver'
  BY <1>4, <1>5 DEF FailedIsEmpty, NoDuckdbAcrossSavepoints, NothingIsCarriedOver
<1>8. Pg!ARollbackToSavepoint
  BY <1>4 DEF Pg!ARollbackToSavepoint, Running
<1>. QED
  BY <1>1, <1>3, <1>6, <1>7, <1>8 DEF SessionInv

(* A commit publishes all the transaction wrote, what waited in DuckDB     *)
(* included.                                                               *)
LEMMA PublishOK ==
  ASSUME SessionInv, cache \in Caches, Running, NEW m, NEW c \in {cache, EmptyCache},
         MgrOK(m, inbox', servers \cup mine),
         Publish(Flushed(duck), m, NoDuck, c),
         inbox' \in BOOLEAN, force' \in BOOLEAN
  PROVE  SessionInv' /\ Pg!ACommit /\ CacheKeptOrReset
<1>1. EmptyCache \in Caches
  BY SessionConstants, SMT DEF EmptyCache, Caches
<1>2. MgrOK(mgr, inbox, servers \cup mine)'
  <2>1. servers' \cup mine' = servers \cup mine
    BY DEF Publish
  <2>. QED
    BY <2>1 DEF Publish
<1>3. Flushed(duck) \in SUBSET Stores
  BY DEF Flushed, SessionInv, SessionTypeOK, Stores
<1>4. SessionTypeOK'
  BY <1>1, <1>2, <1>3
  DEF SessionInv, SessionTypeOK, Publish, NoDuck, MgrOK, Managers, Caches
<1>5. FailedIsEmpty' /\ NoDuckdbAcrossSavepoints' /\ NothingIsCarriedOver'
  BY DEF FailedIsEmpty, NoDuckdbAcrossSavepoints, NothingIsCarriedOver, Publish, NoDuck
<1>6. Pg!ACommit
  BY DEF Pg!ACommit, Publish, Flushed, NoDuck, Running
<1>. QED
  BY <1>2, <1>4, <1>5, <1>6 DEF SessionInv, CacheKeptOrReset, Publish

(* Fails: one of the two kinds of abort.                                   *)
LEMMA FailsOK ==
  ASSUME SessionInv, cache \in Caches, Running, NEW e,
         e.cache \in {cache, EmptyCache}, e.gate \in BOOLEAN, sub => ~e.gate,
         e.duck = duck,
         MgrOK(e.mgr, inbox', servers \cup mine),
         Fails(e),
         inbox' \in BOOLEAN, force' \in BOOLEAN
  PROVE  SessionInv' /\ (Pg!AAbort \/ Pg!ARollbackToSavepoint) /\ CacheKeptOrReset
<1>1. CASE sub
  <2>1. AbortSubTransaction(e) /\ ~e.gate
    BY <1>1 DEF Fails
  <2>. QED
    BY <1>1, <2>1, AbortSubTransactionOK, SMT
<1>2. CASE ~sub
  <2>1. PICK after \in {"none", "failed"} : AbortTransaction(after, e)
    BY <1>2 DEF Fails, FailsOutside
  <2>. QED
    BY <2>1, AbortTransactionOK, SMT
<1>. QED
  BY <1>1, <1>2

-----------------------------------------------------------------------------

(* The steps of the session.                                               *)

PgStep == [Pg!ANext]_Pg!avars

Simulated == SessionInv' /\ PgStep /\ CacheKeptOrReset

(* Statements of PostgreSQL alone, and changes of servers.                 *)
LEMMA PlainStepOK ==
  ASSUME SessionInv, cache \in Caches,
         Begin \/ HeapWrite \/ PlanPlainQuery \/ OtherChangesServers \/ CreateServer
  PROVE  Simulated
<1>. USE DEF SessionInv
<1>1. CacheKeptOrReset
  BY DEF Begin, HeapWrite, PlanPlainQuery, OtherChangesServers, CreateServer, CacheKeptOrReset
<1>2. CASE Begin
  BY <1>1, <1>2
  DEF Begin, SessionTypeOK, MgrOK, FailedIsEmpty, NoDuckdbAcrossSavepoints,
      NothingIsCarriedOver, Running, Simulated, PgStep, Pg!avars
<1>3. CASE HeapWrite
  <2>1. SessionTypeOK'
    <3>1. pending' \in SUBSET Stores /\ inner' \in SUBSET Stores /\ (~sub => inner' = {})
      BY <1>3 DEF HeapWrite, SessionTypeOK, Stores
    <3>2. UNCHANGED <<block, sub, published, duck, mgr, allow, force, servers,
                      mine, inbox, cache>> /\ block # "none"
      BY <1>3 DEF HeapWrite, Running
    <3>. QED
      BY <3>1, <3>2, SMT DEF SessionTypeOK
  <2>2. Pg!AWrite
    <3>1. "heap" \in Stores
      BY DEF Stores
    <3>. QED
      BY <1>3, <3>1 DEF HeapWrite, Running, Pg!AWrite
  <2>. QED
    BY <1>1, <1>3, <2>1, <2>2
    DEF HeapWrite, MgrOK, FailedIsEmpty, NoDuckdbAcrossSavepoints,
        NothingIsCarriedOver, Running, Simulated, PgStep, Pg!ANext
<1>4. CASE PlanPlainQuery
  BY <1>1, <1>4
  DEF PlanPlainQuery, SessionTypeOK, MgrOK, FailedIsEmpty, NoDuckdbAcrossSavepoints,
      NothingIsCarriedOver, Running, Simulated, PgStep, Pg!avars
<1>5. CASE OtherChangesServers
  BY <1>1, <1>5, ZenonT(30)
  DEF OtherChangesServers, Toggled, SessionTypeOK, MgrOK, FailedIsEmpty,
      NoDuckdbAcrossSavepoints, NothingIsCarriedOver, Running, Simulated, PgStep, Pg!avars
<1>6. CASE CreateServer
  <2>1. MgrOK(mgr, inbox, servers \cup mine)'
    BY <1>6, InvalidateSecretsOK DEF CreateServer
  <2>2. SessionTypeOK'
    BY <1>6, <2>1 DEF CreateServer, SessionTypeOK, MgrOK, Managers, Running
  <2>. QED
    BY <1>1, <1>6, <2>1, <2>2
    DEF CreateServer, FailedIsEmpty, NoDuckdbAcrossSavepoints,
        NothingIsCarriedOver, Running, Simulated, PgStep, Pg!avars
<1>. QED
  BY <1>2, <1>3, <1>4, <1>5, <1>6

(* Errors, and the connection that is refused after a savepoint.           *)
LEMMA ErrorStepOK ==
  ASSUME SessionInv, cache \in Caches, StatementFails \/ AttachFails \/ ConnectionRefused
  PROVE  Simulated
<1>1. MgrOK(mgr, inbox, servers \cup mine) /\ allow \in BOOLEAN /\ ~allow /\ force \in BOOLEAN
      /\ inbox \in BOOLEAN
  BY DEF SessionInv, SessionTypeOK, NothingIsCarriedOver
<1>2. CASE StatementFails
  <2>1. Running /\ Fails(Now) /\ inbox' = inbox /\ force' = force
    BY <1>2 DEF StatementFails
  <2>2. /\ Now.cache = cache /\ Now.gate \in BOOLEAN /\ ~Now.gate /\ Now.duck = duck
        /\ MgrOK(Now.mgr, inbox', servers \cup mine)
    BY <1>1, <2>1 DEF Now
  <2>. QED
    BY <1>1, <2>1, <2>2, FailsOK, SMT DEF Simulated, PgStep, Pg!ANext
<1>3. CASE AttachFails
  <2>. DEFINE e == [Now EXCEPT !.mgr = Bare, !.cache = ResetDirectInsertCaches]
  <2>1. Running /\ Fails(e) /\ inbox' = FALSE /\ force' = force
    BY <1>3 DEF AttachFails
  <2>2. /\ e.cache = EmptyCache /\ e.gate \in BOOLEAN /\ ~e.gate /\ e.duck = duck
        /\ e.mgr = Bare
    BY <1>1, <2>1 DEF Now, ResetDirectInsertCaches
  <2>3. MgrOK(e.mgr, inbox', servers \cup mine)
    <3>1. \A i, k : MgrOK(Bare, i, k)
      BY DEF Bare, NoInstance, MgrOK, Managers
    <3>. QED
      BY <2>2, <3>1
  <2>. HIDE DEF e
  <2>4. inbox' \in BOOLEAN /\ force' \in BOOLEAN
    BY <1>1, <2>1
  <2>. QED
    BY <1>1, <2>1, <2>2, <2>3, <2>4, FailsOK, SMT DEF Simulated, PgStep, Pg!ANext
<1>4. CASE ConnectionRefused
  <2>. DEFINE e == [Now EXCEPT !.mgr = Accepted(mgr)]
  <2>1. Running /\ sub /\ AbortSubTransaction(e) /\ inbox' = FALSE /\ force' = force
    BY <1>4 DEF ConnectionRefused, ConnectionAllowed
  <2>2. /\ e.cache = cache /\ e.gate \in BOOLEAN /\ ~e.gate /\ e.duck = duck
        /\ e.mgr = Accepted(mgr)
    BY <1>1 DEF Now
  <2>3. MgrOK(e.mgr, inbox', servers \cup mine)
    BY <2>1, <2>2, AcceptedOK
  <2>. HIDE DEF e
  <2>4. inbox' \in BOOLEAN /\ force' \in BOOLEAN
    BY <1>1, <2>1
  <2>. QED
    BY <1>1, <2>1, <2>2, <2>3, <2>4, AbortSubTransactionOK, SMT DEF Simulated, PgStep, Pg!ANext
<1>. QED
  BY <1>2, <1>3, <1>4

(* Savepoints: one begins only while no DuckDB transaction is open.        *)
LEMMA SavepointStepOK ==
  ASSUME SessionInv, cache \in Caches, Savepoint \/ ReleaseSavepoint \/ RollbackToSavepoint
  PROVE  Simulated
<1>1. /\ MgrOK(mgr, inbox, servers \cup mine) /\ allow \in BOOLEAN /\ ~allow /\ force \in BOOLEAN
      /\ inbox \in BOOLEAN /\ SessionTypeOK
  BY DEF SessionInv, SessionTypeOK, NothingIsCarriedOver
<1>2. CASE Savepoint /\ SavepointAllowed
  <2>1. ~duck.active
    BY <1>1, <1>2 DEF SavepointAllowed
  <2>. QED
    BY <1>2, <2>1
    DEF Savepoint, SessionInv, SessionTypeOK, MgrOK, FailedIsEmpty,
        NoDuckdbAcrossSavepoints, NothingIsCarriedOver, Running, Simulated, PgStep,
        Pg!avars, CacheKeptOrReset
<1>3. CASE Savepoint /\ ~SavepointAllowed
  <2>1. PICK after \in {"none", "failed"} : AbortTransaction(after, Now)
    BY <1>3 DEF Savepoint, FailsOutside
  <2>2. Now.cache = cache /\ MgrOK(Now.mgr, inbox', servers \cup mine)
        /\ inbox' = inbox /\ force' = force
    BY <1>1, <1>3 DEF Now, Savepoint
  <2>. QED
    BY <1>1, <2>1, <2>2, AbortTransactionOK, SMT DEF Simulated, PgStep, Pg!ANext
<1>4. CASE ReleaseSavepoint
  <2>1. SessionInv'
    BY <1>4
    DEF ReleaseSavepoint, SessionInv, SessionTypeOK, MgrOK, FailedIsEmpty,
        NoDuckdbAcrossSavepoints, NothingIsCarriedOver, Running
  <2>2. Pg!AReleaseSavepoint
    BY <1>4 DEF ReleaseSavepoint, Running, Pg!AReleaseSavepoint
  <2>. QED
    BY <1>4, <2>1, <2>2
    DEF ReleaseSavepoint, Simulated, PgStep, Pg!ANext, CacheKeptOrReset
<1>5. CASE RollbackToSavepoint
  <2>1. SessionInv'
    BY <1>5
    DEF RollbackToSavepoint, SessionInv, SessionTypeOK, MgrOK, FailedIsEmpty,
        NoDuckdbAcrossSavepoints, NothingIsCarriedOver, Running
  <2>2. Pg!ARollbackToSavepoint
    BY <1>5 DEF RollbackToSavepoint, Pg!ARollbackToSavepoint
  <2>. QED
    BY <1>5, <2>1, <2>2
    DEF RollbackToSavepoint, Simulated, PgStep, Pg!ANext, CacheKeptOrReset
<1>. QED
  BY <1>2, <1>3, <1>4, <1>5

(* A query that succeeds: its writes are the transaction's, whether they   *)
(* wait in DuckDB or were flushed at once.                                 *)
LEMMA QuerySucceedsOK ==
  ASSUME SessionInv, cache \in Caches, Running, ~sub, NEW write \in BOOLEAN, NEW m,
         NEW c \in {cache, EmptyCache}, NEW d \in {duck, [active |-> TRUE, wrote |-> FALSE]},
         d = duck \/ ~duck.active,
         QuerySucceeds(write, m, c, d),
         MgrOK(m, inbox', servers' \cup mine), servers' \in SUBSET Servers,
         inbox' \in BOOLEAN, force' \in BOOLEAN
  PROVE  Simulated
<1>1. EmptyCache \in Caches
  BY SessionConstants, SMT DEF EmptyCache, Caches
<1>2. duck \in [active : BOOLEAN, wrote : BOOLEAN] /\ (duck.wrote => duck.active)
  BY DEF SessionInv, SessionTypeOK
<1>3. d \in [active : BOOLEAN, wrote : BOOLEAN] /\ (d.wrote <=> duck.wrote)
      /\ (d.wrote => d.active)
  <2>1. CASE d = duck
    BY <1>2, <2>1
  <2>2. CASE d = [active |-> TRUE, wrote |-> FALSE] /\ ~duck.active
    BY <1>2, <2>2
  <2>. QED
    BY <2>1, <2>2
<1>4. MgrOK(mgr, inbox, servers \cup mine)'
  BY DEF QuerySucceeds
<1>5. /\ duck' \in [active : BOOLEAN, wrote : BOOLEAN]
      /\ duck'.wrote <=> duck.wrote \/ (d.active /\ write)
      /\ duck'.wrote => duck'.active
  <2>1. CASE d.active /\ write
    BY <1>3, <2>1 DEF QuerySucceeds
  <2>2. CASE ~(d.active /\ write)
    BY <1>3, <2>2 DEF QuerySucceeds
  <2>. QED
    BY <2>1, <2>2
<1>6. /\ pending' = IF write /\ ~d.active THEN pending \cup {"lake"} ELSE pending
      /\ UNCHANGED <<block, sub, inner, published, mine>>
      /\ allow' \in BOOLEAN /\ ~allow' /\ cache' = c /\ mgr' = m
  BY DEF QuerySucceeds
<1>7. CacheKeptOrReset
  BY <1>6 DEF CacheKeptOrReset
<1>8. SessionTypeOK'
  BY <1>1, <1>4, <1>5, <1>6, SMT
  DEF SessionInv, SessionTypeOK, Stores, Caches, MgrOK, Managers, Running
<1>9. FailedIsEmpty' /\ NoDuckdbAcrossSavepoints' /\ NothingIsCarriedOver'
  BY <1>6 DEF FailedIsEmpty, NoDuckdbAcrossSavepoints, NothingIsCarriedOver, Running
<1>10. PgStep
  <2>1. CASE write
    <3>1. "lake" \in Stores
      BY DEF Stores
    <3>2. pending' \cup (IF duck'.wrote THEN {"lake"} ELSE {})
            = (pending \cup (IF duck.wrote THEN {"lake"} ELSE {})) \cup {"lake"}
      BY <1>5, <1>6, <2>1
    <3>3. Pg!AWrite
      BY <1>6, <3>1, <3>2 DEF Pg!AWrite, Running
    <3>. QED
      BY <3>3 DEF PgStep, Pg!ANext
  <2>2. CASE ~write
    <3>1. pending' \cup (IF duck'.wrote THEN {"lake"} ELSE {})
            = pending \cup (IF duck.wrote THEN {"lake"} ELSE {})
      BY <1>5, <1>6, <2>2
    <3>. QED
      BY <1>6, <3>1 DEF PgStep, Pg!avars
  <2>. QED
    BY <2>1, <2>2
<1>. QED
  BY <1>4, <1>7, <1>8, <1>9, <1>10 DEF SessionInv, Simulated

(* A query on DuckLake tables, however it ends.                            *)
LEMMA DuckQueryOK ==
  ASSUME SessionInv, cache \in Caches, DuckQuery
  PROVE  Simulated
<1>. DEFINE d == Opened(force')
            seen == servers \cup mine
<1>1. /\ Running /\ ~sub /\ force' \in BOOLEAN /\ inbox' \in BOOLEAN /\ ~inbox'
      /\ seen \in SUBSET Servers /\ servers \in SUBSET Servers
  BY DEF DuckQuery, ConnectionAllowed, SessionInv, NoDuckdbAcrossSavepoints, SessionTypeOK
<1>2. GotCache \in {cache, EmptyCache}
  BY DEF GotCache, ResetDirectInsertCaches
<1>3. d \in {duck, [active |-> TRUE, wrote |-> FALSE]} /\ (d = duck \/ ~duck.active)
  BY DEF Opened
<1>4. MgrOK(Got, FALSE, seen) /\ Got.db # "none"
  BY GotOK DEF Got, Bare, NoInstance, Accepted, InvalidateSecrets, SessionInv, MgrOK, Managers
<1>5. MgrOK(RefreshConnectionState(Got, seen, FALSE), inbox', seen)
  BY <1>1, <1>4, RefreshOK
<1>6. ~Got.valid => /\ \A k : MgrOK(RefreshConnectionState(Got, seen, TRUE), inbox', k)
                    /\ MgrOK(RefreshFailed(Got), inbox', seen)
  BY <1>1, <1>4, RefreshOK
<1>. HIDE DEF d, seen
<1>7. ASSUME NEW write \in BOOLEAN, UNCHANGED servers,
             QuerySucceeds(write, RefreshConnectionState(Got, seen, FALSE), GotCache, d)
      PROVE  Simulated
  <2>1. MgrOK(RefreshConnectionState(Got, seen, FALSE), inbox', servers' \cup mine)
    BY <1>5, <1>7 DEF seen
  <2>. QED
    BY <1>1, <1>2, <1>3, <1>7, <2>1, QuerySucceedsOK
<1>8. ASSUME ~Got.valid, servers' \in Toggled,
             QuerySucceeds(FALSE, RefreshConnectionState(Got, seen, TRUE), GotCache, d)
      PROVE  Simulated
  <2>1. servers' \in SUBSET Servers
    BY <1>8 DEF Toggled
  <2>2. MgrOK(RefreshConnectionState(Got, seen, TRUE), inbox', servers' \cup mine)
    BY <1>6, <1>8
  <2>3. FALSE \in BOOLEAN
    OBVIOUS
  <2>. QED
    BY <1>1, <1>2, <1>3, <1>8, <2>1, <2>2, <2>3, QuerySucceedsOK
<1>9. ASSUME NEW e, e.cache = GotCache, MgrOK(e.mgr, inbox', seen), FailsOutside(e)
      PROVE  Simulated
  <2>1. PICK after \in {"none", "failed"} : AbortTransaction(after, e)
    BY <1>9 DEF FailsOutside
  <2>. QED
    BY <1>1, <1>2, <1>9, <2>1, AbortTransactionOK, SMT DEF Simulated, PgStep, Pg!ANext, seen
<1>10. ASSUME NEW g \in BOOLEAN,
              FailsOutside([mgr |-> RefreshConnectionState(Got, seen, FALSE),
                            cache |-> GotCache, gate |-> g, duck |-> d])
       PROVE  Simulated
  BY <1>5, <1>9, <1>10
<1>11. ASSUME ~Got.valid,
              FailsOutside([mgr |-> RefreshFailed(Got), cache |-> GotCache,
                            gate |-> FALSE, duck |-> d])
       PROVE  Simulated
  BY <1>6, <1>9, <1>11
<1>. QED
  BY <1>7, <1>8, <1>10, <1>11 DEF DuckQuery, d, seen

(* recycle_ddb, outside any transaction.                                   *)
LEMMA RecycleOK ==
  ASSUME SessionInv, cache \in Caches, Recycle
  PROVE  Simulated
<1>1. MgrOK(mgr, inbox, servers \cup mine)'
  BY DEF Recycle, NoInstance, MgrOK, Managers
<1>2. SessionTypeOK'
  BY <1>1 DEF Recycle, SessionInv, SessionTypeOK, NoDuck, MgrOK, Managers, Stores
<1>3. FailedIsEmpty' /\ NoDuckdbAcrossSavepoints' /\ NothingIsCarriedOver'
  BY DEF Recycle, NoDuck, SessionInv, FailedIsEmpty, NoDuckdbAcrossSavepoints,
         NothingIsCarriedOver
<1>4. Pg!AAbort
  BY DEF Recycle, NoDuck, SessionInv, SessionTypeOK, Pg!AAbort
<1>. QED
  BY <1>1, <1>2, <1>3, <1>4
  DEF Recycle, SessionInv, Simulated, PgStep, Pg!ANext, CacheKeptOrReset

(* The end of a statement's own transaction.                               *)
LEMMA FinishStatementOK ==
  ASSUME SessionInv, cache \in Caches, FinishStatement
  PROVE  Simulated
<1>1. /\ block = "statement" /\ Running /\ inbox' = inbox /\ force' = force
      /\ inbox' \in BOOLEAN /\ force' \in BOOLEAN
      /\ MgrOK(mgr, inbox', servers \cup mine)
  BY DEF FinishStatement, SessionInv, SessionTypeOK, Running
<1>2. CASE PreCommit(mgr)
  BY <1>1, <1>2, PublishOK
  DEF PreCommit, ResetDirectInsertCaches, Simulated, PgStep, Pg!ANext
<1>3. ASSUME NEW e, e.cache \in {cache, EmptyCache}, e.mgr = mgr, AbortTransaction("none", e)
      PROVE  Simulated
  BY <1>1, <1>3, AbortTransactionOK, SMT DEF Simulated, PgStep, Pg!ANext
<1>4. CASE AbortTransaction("none", [Now EXCEPT !.duck = NoDuck])
  BY <1>3, <1>4, SMT DEF Now
<1>5. CASE AbortTransaction("none", [Now EXCEPT !.duck = NoDuck,
                                    !.cache = ResetDirectInsertCaches])
  <2>. DEFINE e == [Now EXCEPT !.duck = NoDuck, !.cache = ResetDirectInsertCaches]
  <2>1. e.cache = EmptyCache /\ e.mgr = mgr
    BY DEF Now, ResetDirectInsertCaches
  <2>2. AbortTransaction("none", e)
    BY <1>5
  <2>. HIDE DEF e
  <2>. QED
    BY <1>3, <2>1, <2>2, SMT
<1>. QED
  BY <1>2, <1>4, <1>5 DEF FinishStatement

(* COMMIT of a block: by the hook, by PRE_COMMIT, or not at all.           *)
LEMMA CommitBlockOK ==
  ASSUME SessionInv, cache \in Caches, CommitBlock
  PROVE  Simulated
<1>. DEFINE m == Accepted(mgr)
            seen == servers \cup mine
            fresh == RefreshConnectionState(m, seen, FALSE)
<1>1. /\ block = "open" /\ Running /\ force' = force /\ force' \in BOOLEAN
      /\ seen \in SUBSET Servers
  BY DEF CommitBlock, SessionInv, SessionTypeOK, Running
<1>2. inbox' \in BOOLEAN
  BY DEF CommitBlock
<1>3. mgr.db # "none" => ~inbox'
  BY DEF CommitBlock
<1>4. mgr.db = "none" => MgrOK(mgr, inbox', seen)
  BY DEF SessionInv, MgrOK
<1>5. mgr.db # "none" =>
        /\ MgrOK(m, inbox', seen) /\ MgrOK(fresh, inbox', seen)
        /\ ~m.valid => MgrOK(RefreshFailed(m), inbox', seen)
  <2>. SUFFICES ASSUME mgr.db # "none"
                PROVE  /\ MgrOK(m, inbox', seen) /\ MgrOK(fresh, inbox', seen)
                       /\ ~m.valid => MgrOK(RefreshFailed(m), inbox', seen)
    OBVIOUS
  <2>1. MgrOK(m, FALSE, seen)
    BY AcceptedOK
  <2>2. m.db # "none"
    BY DEF Accepted, InvalidateSecrets, SessionInv, MgrOK, Managers
  <2>3. inbox' = FALSE
    BY <1>2, <1>3
  <2>. HIDE DEF m, seen
  <2>. QED
    BY <1>1, <2>1, <2>2, <2>3, RefreshOK
<1>. HIDE DEF m, seen, fresh
<1>6. CASE mgr.db = "none" /\ PreCommit(mgr)
  BY <1>1, <1>2, <1>4, <1>6, PublishOK
  DEF PreCommit, ResetDirectInsertCaches, Simulated, PgStep, Pg!ANext, seen
<1>7. CASE mgr.db # "none" /\ Publish(HookFlush(Opened(force)), fresh, NoDuck, cache)
  <2>1. HookFlush(Opened(force)) = Flushed(duck)
    BY DEF HookFlush, Flushed, Opened, SessionInv, SessionTypeOK
  <2>. QED
    BY <1>1, <1>2, <1>5, <1>7, <2>1, PublishOK DEF Simulated, PgStep, Pg!ANext, seen
<1>8. CASE mgr.db # "none" /\ ~ConnectionAllowed /\ AbortSubTransaction([Now EXCEPT !.mgr = m])
  <2>1. PICK e : e = [Now EXCEPT !.mgr = m]
    OBVIOUS
  <2>2. e.gate \in BOOLEAN /\ ~e.gate /\ e.duck = duck
    BY <2>1 DEF Now, SessionInv, SessionTypeOK, NothingIsCarriedOver
  <2>3. e.cache = cache /\ e.mgr = m
    BY <2>1 DEF Now
  <2>4. sub /\ AbortSubTransaction(e)
    BY <1>8, <2>1 DEF ConnectionAllowed
  <2>5. MgrOK(e.mgr, inbox', servers \cup mine) /\ e.cache \in {cache, EmptyCache}
    BY <1>5, <1>8, <2>3 DEF seen
  <2>6. SessionInv /\ cache \in Caches /\ Running /\ inbox' \in BOOLEAN /\ force' \in BOOLEAN
    BY <1>1, <1>2
  <2>7. SessionInv' /\ Pg!ARollbackToSavepoint /\ CacheKeptOrReset
    BY ONLY <2>2, <2>4, <2>5, <2>6, AbortSubTransactionOK
  <2>. QED
    BY <2>7 DEF Simulated, PgStep, Pg!ANext
<1>9. ASSUME NEW after \in {"none", "failed"}, NEW e, e.cache = cache,
             MgrOK(e.mgr, inbox', seen), AbortTransaction(after, e)
      PROVE  Simulated
  BY <1>1, <1>2, <1>9, AbortTransactionOK, SMT DEF Simulated, PgStep, Pg!ANext, seen
<1>10. CASE mgr.db # "none" /\ AbortTransaction("failed", [Now EXCEPT !.mgr = fresh])
  BY <1>5, <1>9, <1>10 DEF Now
<1>11. CASE mgr.db # "none" /\ ~m.valid
            /\ AbortTransaction("failed", [Now EXCEPT !.mgr = RefreshFailed(m)])
  BY <1>5, <1>9, <1>11 DEF Now
<1>12. CASE AbortTransaction("none", [Now EXCEPT !.duck = NoDuck,
                                !.mgr = IF mgr.db # "none" THEN fresh ELSE mgr])
  BY <1>4, <1>5, <1>9, <1>12 DEF Now
<1>. QED
  BY <1>6, <1>7, <1>8, <1>10, <1>11, <1>12 DEF CommitBlock, m, seen, fresh

(* COMMIT of a failed block: nothing is left to publish, and a DuckDB      *)
(* transaction that the hook leaves behind is empty.                       *)
LEMMA CommitFailedBlockOK ==
  ASSUME SessionInv, cache \in Caches, CommitFailedBlock
  PROVE  Simulated
<1>1. /\ block = "failed" /\ force' = force /\ force' \in BOOLEAN /\ inbox \in BOOLEAN
      /\ duck \in [active : BOOLEAN, wrote : BOOLEAN] /\ ~duck.wrote
      /\ allow \in BOOLEAN /\ ~allow /\ servers \in SUBSET Servers
  BY DEF CommitFailedBlock, SessionInv, SessionTypeOK, NothingIsCarriedOver, Running
<1>2. CASE AbortTransaction("none", Now) /\ UNCHANGED inbox
  <2>1. Now.cache = cache /\ MgrOK(Now.mgr, inbox', servers \cup mine)
    BY <1>2 DEF Now, SessionInv
  <2>2. AbortTransaction("none", Now) /\ inbox' \in BOOLEAN /\ force' \in BOOLEAN
    BY <1>1, <1>2
  <2>. QED
    BY <2>1, <2>2, AbortTransactionOK, SMT DEF Simulated, PgStep, Pg!ANext
<1>3. ASSUME mgr.db # "none", ConnectionAllowed
      PROVE  /\ ~sub /\ pending = {} /\ inner = {} /\ mine = {}
             /\ MgrOK(Accepted(mgr), FALSE, servers)
             /\ MgrOK(RefreshConnectionState(Accepted(mgr), servers, FALSE), FALSE, servers)
             /\ ~Accepted(mgr).valid => MgrOK(RefreshFailed(Accepted(mgr)), FALSE, servers)
  <2>1. ~sub /\ pending = {} /\ inner = {} /\ mine = {}
    BY <1>1, <1>3
    DEF ConnectionAllowed, SessionInv, NoDuckdbAcrossSavepoints, FailedIsEmpty
  <2>2. MgrOK(Accepted(mgr), FALSE, servers)
    BY <2>1, AcceptedOK
  <2>3. Accepted(mgr).db # "none"
    BY <1>3 DEF Accepted, InvalidateSecrets, SessionInv, MgrOK, Managers
  <2>. QED
    BY <1>1, <2>1, <2>2, <2>3, RefreshOK
<1>4. CASE /\ mgr.db # "none" /\ ConnectionAllowed
           /\ block' = "none" /\ published' = {}
           /\ mgr' = RefreshConnectionState(Accepted(mgr), servers, FALSE)
           /\ duck' = NoDuck
           /\ inbox' = FALSE
           /\ UNCHANGED <<sub, pending, inner, allow, servers, mine, cache>>
  <2>1. MgrOK(mgr, inbox, servers \cup mine)'
    BY <1>3, <1>4
  <2>2. SessionTypeOK'
    BY <1>1, <1>3, <1>4, <2>1
    DEF SessionInv, SessionTypeOK, NoDuck, MgrOK, Managers, Stores
  <2>3. FailedIsEmpty' /\ NoDuckdbAcrossSavepoints' /\ NothingIsCarriedOver'
    BY <1>1, <1>4 DEF NoDuck, FailedIsEmpty, NoDuckdbAcrossSavepoints, NothingIsCarriedOver
  <2>4. Pg!AAbort
    BY <1>3, <1>4 DEF NoDuck, Pg!AAbort
  <2>. QED
    BY <1>4, <2>1, <2>2, <2>3, <2>4
    DEF SessionInv, Simulated, PgStep, Pg!ANext, CacheKeptOrReset
<1>5. CASE /\ mgr.db # "none" /\ ConnectionAllowed /\ ~Accepted(mgr).valid
           /\ mgr' = RefreshFailed(Accepted(mgr))
           /\ duck' = Opened(force)
           /\ inbox' = FALSE
           /\ UNCHANGED <<block, sub, pending, inner, published, allow,
                          servers, mine, cache>>
  <2>1. MgrOK(mgr, inbox, servers \cup mine)'
    BY <1>3, <1>5
  <2>2. /\ duck' \in [active : BOOLEAN, wrote : BOOLEAN] /\ ~duck'.wrote
        /\ duck'.wrote => duck'.active
    BY <1>1, <1>5 DEF Opened
  <2>3. SessionTypeOK'
    BY <1>1, <1>3, <1>5, <2>1, <2>2
    DEF SessionInv, SessionTypeOK, MgrOK, Managers
  <2>4. FailedIsEmpty' /\ NoDuckdbAcrossSavepoints' /\ NothingIsCarriedOver'
    BY <1>1, <1>3, <1>5, <2>2
    DEF FailedIsEmpty, NoDuckdbAcrossSavepoints, NothingIsCarriedOver
  <2>5. UNCHANGED Pg!avars
    BY <1>1, <1>5, <2>2 DEF Pg!avars
  <2>. QED
    BY <1>5, <2>1, <2>3, <2>4, <2>5 DEF SessionInv, Simulated, PgStep, CacheKeptOrReset
<1>. QED
  BY <1>2, <1>4, <1>5 DEF CommitFailedBlock

(* ROLLBACK.                                                               *)
LEMMA RollbackOK ==
  ASSUME SessionInv, cache \in Caches, Rollback
  PROVE  Simulated
<1>1. inbox' = inbox /\ force' = force /\ inbox' \in BOOLEAN /\ force' \in BOOLEAN
  BY DEF Rollback, SessionInv, SessionTypeOK
<1>2. CASE AbortTransaction("none", Now)
  <2>1. Now.cache = cache /\ MgrOK(Now.mgr, inbox', servers \cup mine)
    BY <1>1 DEF Now, SessionInv
  <2>. QED
    BY <1>1, <1>2, <2>1, AbortTransactionOK, SMT DEF Simulated, PgStep, Pg!ANext
<1>3. CASE /\ block = "failed" /\ ~sub
           /\ block' = "none" /\ published' = {}
           /\ UNCHANGED <<sub, pending, inner, duck, mgr, allow,
                          servers, mine, cache>>
  <2>1. pending = {} /\ inner = {} /\ mine = {} /\ ~duck.wrote
    BY <1>3 DEF SessionInv, FailedIsEmpty, NothingIsCarriedOver, Running
  <2>2. SessionInv'
    BY <1>1, <1>3, <2>1
    DEF SessionInv, SessionTypeOK, MgrOK, FailedIsEmpty, NoDuckdbAcrossSavepoints,
        NothingIsCarriedOver, Running, Stores
  <2>3. Pg!AAbort
    BY <1>3, <2>1 DEF Pg!AAbort
  <2>. QED
    BY <1>3, <2>2, <2>3 DEF Simulated, PgStep, Pg!ANext, CacheKeptOrReset
<1>. QED
  BY <1>2, <1>3 DEF Rollback

(* Every step of a session.                                                *)
LEMMA SessionNextOK ==
  ASSUME SessionInv, SessionNext
  PROVE  Simulated
<1>1. cache \in Caches
  BY DEF SessionInv, SessionTypeOK, Caches
<1>. QED
  BY <1>1, PlainStepOK, ErrorStepOK, SavepointStepOK, DuckQueryOK, RecycleOK,
     FinishStatementOK, CommitBlockOK, CommitFailedBlockOK, RollbackOK
  DEF SessionNext

-----------------------------------------------------------------------------

(* The native path.                                                        *)

(* Steps that touch nothing of the session but its caches.                 *)
LEMMA CacheStepOK ==
  ASSUME SessionInv, cache' \in Caches,
         UNCHANGED <<block, sub, pending, inner, published, duck, mgr, allow,
                     force, servers, mine, inbox>>
  PROVE  SessionInv' /\ PgStep
<1>1. SessionInv'
  BY SMT DEF SessionInv, SessionTypeOK, Caches, MgrOK, FailedIsEmpty,
         NoDuckdbAcrossSavepoints, NothingIsCarriedOver, Running
<1>2. PgStep
  BY DEF PgStep, Pg!avars
<1>. QED
  BY <1>1, <1>2

(* Caches that are kept or emptied stay ordered.                           *)
LEMMA CachesStayOrdered ==
  ASSUME TypeOK, BindingsAreOrdered, CacheKeptOrReset, schema' = schema
  PROVE  CacheIsOrdered'
<1>1. CASE cache' = cache
  BY <1>1 DEF BindingsAreOrdered, CacheIsOrdered, Ordered
<1>2. CASE cache' = EmptyCache
  <2>1. cache'.info = 0 /\ \A v \in 1 .. MaxVersion : cache'.types[v] = 0
    BY <1>2 DEF EmptyCache
  <2>2. schema' \in Nat
    BY SMT DEF TypeOK
  <2>. QED
    BY <2>1, <2>2, SMT DEF CacheIsOrdered
<1>. QED
  BY <1>1, <1>2 DEF CacheKeptOrReset

(* A step of the session keeps what is bound.                              *)
LEMMA SimulatedOK ==
  ASSUME IInv, Simulated, schema' = schema, prepared' = prepared,
         \/ stage' = NoPlan
         \/ stage' = stage /\ block' = block
  PROVE  IInv' /\ PgStep
<1>. USE DEF IInv
<1>1. SessionInv' /\ SessionTypeOK' /\ PgStep /\ CacheKeptOrReset
  BY DEF Simulated, SessionInv
<1>2. NoPlan \in Plans /\ Ordered(NoPlan.v, NoPlan.t)
  BY SessionConstants, SMT DEF NoPlan, Plans, Ordered, TypeOK
<1>3. TypeOK'
  BY <1>1, <1>2, SMT DEF TypeOK, NoPlan, Running, Complete
<1>4. BindingsAreOrdered'
  <2>1. CacheIsOrdered'
    BY <1>1, CachesStayOrdered
  <2>2. Ordered(stage.v, stage.t)' /\ Ordered(prepared.v, prepared.t)'
    BY <1>2 DEF BindingsAreOrdered, Ordered
  <2>. QED
    BY <2>1, <2>2 DEF BindingsAreOrdered, CacheIsOrdered
<1>. QED
  BY <1>1, <1>3, <1>4 DEF PreparedIsBound

(* Planning: what is bound is ordered, from the caches or from the table.  *)
LEMMA PlanningOK ==
  ASSUME IInv,
         \/ CheckInsertPreconditions \/ MatchInsert \/ LeavePlan \/ KeepPlan
         \/ ExecutePrepared \/ CopyFromStdin
  PROVE  IInv' /\ PgStep
<1>. USE DEF IInv
<1>1. /\ schema \in 1 .. MaxVersion /\ MaxVersion \in Nat /\ cache \in Caches
      /\ stage \in Plans /\ prepared \in Plans
  BY SessionConstants DEF TypeOK, SessionTypeOK, Caches
<1>2. CASE CheckInsertPreconditions
  <2>1. InliningInfo \in 1 .. MaxVersion /\ InliningInfo <= schema
    BY <1>1, SMT DEF InliningInfo, BindingsAreOrdered, Caches
  <2>2. /\ cache' = [cache EXCEPT !.info = InliningInfo] /\ cache' \in Caches
        /\ cache'.info = InliningInfo /\ cache'.types = cache.types
    BY <1>1, <1>2, <2>1, SMT DEF CheckInsertPreconditions, Caches
  <2>3. SessionInv' /\ PgStep
    BY <1>2, <2>2, CacheStepOK DEF CheckInsertPreconditions
  <2>4. stage' \in Plans /\ stage'.kind = "insert" /\ stage'.v = InliningInfo /\ stage'.t = 0
    <3>1. InliningInfo \in 0 .. MaxVersion /\ 0 \in 0 .. MaxVersion
      BY <1>1, <2>1, SMT
    <3>. QED
      BY <1>2, <3>1 DEF CheckInsertPreconditions, Plans
  <2>5. TypeOK'
    BY <1>2, <2>1, <2>3, <2>4, SMT
    DEF CheckInsertPreconditions, MayPlanNatively, TypeOK, SessionInv, Running
  <2>6. BindingsAreOrdered'
    BY <1>2, <2>1, <2>2, <2>4 DEF CheckInsertPreconditions, BindingsAreOrdered, Ordered
  <2>. QED
    BY <1>2, <2>3, <2>5, <2>6 DEF CheckInsertPreconditions, PreparedIsBound
<1>3. CASE MatchInsert
  <2>1. stage.v \in 1 .. MaxVersion /\ stage.v <= schema
    BY <1>1, <1>3, SMT DEF MatchInsert, TypeOK, Plans, BindingsAreOrdered, Ordered
  <2>2. ColumnTypes(stage.v) \in 1 .. MaxVersion /\ Ordered(stage.v, ColumnTypes(stage.v))
    BY <1>1, <2>1, SMT DEF ColumnTypes, BindingsAreOrdered, Ordered, Caches
  <2>3. /\ cache' \in Caches /\ cache'.info = cache.info
        /\ \A v \in 1 .. MaxVersion :
             cache'.types[v] = IF v = stage.v THEN ColumnTypes(stage.v) ELSE cache.types[v]
    <3>1. ColumnTypes(stage.v) \in 0 .. MaxVersion
      BY <1>1, <2>2, SMT
    <3>2. cache.types \in [1 .. MaxVersion -> 0 .. MaxVersion]
      BY <1>1 DEF Caches
    <3>. DEFINE types == [cache.types EXCEPT ![stage.v] = ColumnTypes(stage.v)]
    <3>3. types \in [1 .. MaxVersion -> 0 .. MaxVersion]
      BY <2>1, <3>1, <3>2
    <3>4. \A v \in 1 .. MaxVersion :
            types[v] = IF v = stage.v THEN ColumnTypes(stage.v) ELSE cache.types[v]
      BY <2>1, <3>2
    <3>5. cache' = [cache EXCEPT !.types = types]
      BY <1>3 DEF MatchInsert
    <3>. HIDE DEF types
    <3>. QED
      BY <1>1, <3>3, <3>4, <3>5 DEF Caches
  <2>4. SessionInv' /\ PgStep
    BY <1>3, <2>3, CacheStepOK DEF MatchInsert
  <2>5. /\ stage' \in Plans /\ stage'.kind = stage.kind /\ stage'.v = stage.v
        /\ stage'.t = ColumnTypes(stage.v)
    BY <1>1, <1>3, <2>2, SMT DEF MatchInsert, Plans
  <2>6. TypeOK'
    BY <1>3, <2>4, <2>5, SMT DEF MatchInsert, TypeOK, SessionInv, Running, NoPlan
  <2>7. BindingsAreOrdered'
    BY <1>3, <2>2, <2>3, <2>5, ZenonT(30) DEF MatchInsert, BindingsAreOrdered, Ordered
  <2>. QED
    BY <1>3, <2>4, <2>6, <2>7 DEF MatchInsert, PreparedIsBound
<1>4. ASSUME UNCHANGED <<sessionVars, schema>>, stage' \in {NoPlan, prepared},
             \/ prepared' = prepared
             \/ prepared' = stage /\ stage.kind = "insert" /\ Complete(stage),
             stage' = NoPlan \/ Running
      PROVE  IInv' /\ PgStep
  <2>1. SessionInv' /\ PgStep
    BY <1>1, <1>4, CacheStepOK DEF sessionVars
  <2>2. NoPlan \in Plans /\ Ordered(NoPlan.v, NoPlan.t)
    BY <1>1, SMT DEF NoPlan, Plans, Ordered
  <2>3. PreparedIsBound'
    BY <1>4 DEF PreparedIsBound, TypeOK
  <2>4. TypeOK'
    <3>1. SessionTypeOK' /\ schema' = schema /\ block' = block
      BY <1>4, <2>1 DEF sessionVars, SessionInv
    <3>2. /\ stage' \in Plans /\ prepared' \in Plans
          /\ prepared' = NoPlan \/ (prepared'.kind = "insert" /\ Complete(prepared'))
      BY <1>1, <1>4, <2>2, SMT DEF TypeOK
    <3>3. (stage'.kind = "none") = (stage'.v = 0)
      <4>1. CASE stage' = NoPlan
        BY <4>1 DEF NoPlan
      <4>2. CASE stage' = prepared /\ prepared # NoPlan
        BY <4>2 DEF TypeOK, PreparedIsBound
      <4>. QED
        BY <1>4, <4>1, <4>2
    <3>. QED
      BY <1>4, <3>1, <3>2, <3>3 DEF TypeOK, Running, Complete
  <2>. QED
    BY <1>4, <2>1, <2>2, <2>3, <2>4 DEF sessionVars, BindingsAreOrdered, Ordered
<1>5. CASE LeavePlan
  BY <1>4, <1>5 DEF LeavePlan
<1>6. CASE KeepPlan
  BY <1>4, <1>6 DEF KeepPlan
<1>7. CASE ExecutePrepared
  BY <1>4, <1>7 DEF ExecutePrepared
<1>8. CASE CopyFromStdin
  <2>1. SessionInv' /\ PgStep
    BY <1>1, <1>8, CacheStepOK DEF CopyFromStdin, sessionVars
  <2>2. /\ stage' \in Plans /\ stage'.kind = "copy" /\ stage'.v = schema
        /\ stage'.t = schema /\ schema # 0
    <3>1. schema \in 0 .. MaxVersion /\ schema # 0
      BY <1>1, SMT
    <3>. QED
      BY <1>8, <3>1 DEF CopyFromStdin, Plans
  <2>3. TypeOK'
    BY <1>8, <2>1, <2>2 DEF CopyFromStdin, sessionVars, TypeOK, SessionInv, Running
  <2>4. UNCHANGED <<cache, schema, prepared>> /\ schema \in Nat
    BY <1>1, <1>8, SMT DEF CopyFromStdin, sessionVars
  <2>5. Ordered(stage.v, stage.t)'
    BY <2>2, <2>4, SMT DEF Ordered
  <2>6. BindingsAreOrdered' /\ PreparedIsBound'
    BY <2>4, <2>5 DEF BindingsAreOrdered, Ordered, PreparedIsBound
  <2>. QED
    BY <2>1, <2>3, <2>6
<1>. QED
  BY <1>2, <1>3, <1>5, <1>6, <1>7, <1>8

(* Execution: a native write is a write of the transaction it runs in.     *)
LEMMA ExecutionOK ==
  ASSUME IInv, NativeWrite \/ NativeWriteOfNothing \/ NativeWriteFails \/ Fallback
  PROVE  IInv' /\ PgStep
<1>. USE DEF IInv
<1>1. /\ cache \in Caches /\ EmptyCache \in Caches /\ allow \in BOOLEAN /\ ~allow
      /\ force \in BOOLEAN /\ inbox \in BOOLEAN
  <2>1. 0 \in 0 .. MaxVersion
    BY SessionConstants, SMT
  <2>2. EmptyCache \in Caches
    BY <2>1 DEF EmptyCache, Caches
  <2>3. allow \in BOOLEAN /\ ~allow
    BY DEF TypeOK, SessionTypeOK, SessionInv, NothingIsCarriedOver
  <2>. QED
    BY <2>2, <2>3 DEF TypeOK, SessionTypeOK, Caches
<1>2. CASE NativeWrite
  <2>1. /\ block = "statement" /\ ~sub /\ cache' \in {cache, EmptyCache}
        /\ pending' = pending \cup {"lake"} /\ stage' = NoPlan
        /\ UNCHANGED <<block, sub, inner, published, duck, mgr, allow, force,
                       servers, mine, inbox, schema, prepared>>
    BY <1>2 DEF NativeWrite, WriterAccepts, ResetDirectInsertCaches
  <2>2. "lake" \in Stores
    BY DEF Stores
  <2>3. SessionTypeOK'
    BY <1>1, <2>1, <2>2, ZenonT(30) DEF TypeOK, SessionTypeOK, Caches
  <2>4. SessionInv'
    BY <2>1, <2>3
    DEF SessionInv, MgrOK, FailedIsEmpty, NoDuckdbAcrossSavepoints,
        NothingIsCarriedOver, Running
  <2>5. Pg!AWrite
    BY <2>1, <2>2 DEF Pg!AWrite
  <2>6. Simulated
    BY <2>1, <2>4, <2>5 DEF Simulated, PgStep, Pg!ANext, CacheKeptOrReset
  <2>. QED
    BY <2>1, <2>6, SimulatedOK
<1>3. CASE NativeWriteOfNothing
  <2>1. /\ cache' \in {cache, EmptyCache} /\ stage' = NoPlan
        /\ UNCHANGED <<block, sub, pending, inner, published, duck, mgr, allow,
                       force, servers, mine, inbox, schema, prepared>>
    BY <1>3 DEF NativeWriteOfNothing, ResetDirectInsertCaches
  <2>2. SessionInv' /\ PgStep
    BY <1>1, <2>1, CacheStepOK
  <2>3. Simulated
    BY <2>1, <2>2 DEF Simulated, CacheKeptOrReset
  <2>. QED
    BY <2>1, <2>3, SimulatedOK
<1>4. CASE NativeWriteFails
  <2>1. PICK g \in {FALSE, WriterAccepts /\ ValidateBinding(stage)} :
          Fails([Now EXCEPT !.gate = allow \/ g])
    BY <1>4 DEF NativeWriteFails
  <2>. DEFINE e == [Now EXCEPT !.gate = allow \/ g]
  <2>2. /\ Running /\ stage' = NoPlan
        /\ UNCHANGED <<force, inbox, schema, prepared>>
        /\ inbox' \in BOOLEAN /\ force' \in BOOLEAN
    BY <1>1, <1>4 DEF NativeWriteFails, TypeOK
  <2>3. e.cache = cache /\ e.duck = duck /\ e.mgr = mgr /\ e.gate \in BOOLEAN
    BY DEF Now
  <2>4. sub => ~e.gate
    BY <1>1 DEF Now, WriterAccepts
  <2>5. MgrOK(e.mgr, inbox', servers \cup mine)
    BY <2>2, <2>3 DEF SessionInv
  <2>6. Fails(e)
    BY <2>1
  <2>. HIDE DEF e
  <2>7. Simulated
    BY <1>1, <2>2, <2>3, <2>4, <2>5, <2>6, FailsOK, SMT DEF Simulated, PgStep, Pg!ANext
  <2>. QED
    BY <2>2, <2>7, SimulatedOK
<1>5. CASE Fallback
  <2>1. Simulated
    BY <1>1, <1>5, DuckQueryOK, ErrorStepOK DEF Fallback
  <2>. QED
    BY <1>5, <2>1, SimulatedOK DEF Fallback
<1>. QED
  BY <1>2, <1>3, <1>4, <1>5

(* Every step keeps the invariant and is a step of PgTransaction.          *)
LEMMA StepOK ==
  ASSUME IInv, [Next]_vars
  PROVE  IInv' /\ PgStep
<1>. USE DEF IInv
<1>1. cache \in Caches
  BY DEF TypeOK, SessionTypeOK, Caches
<1>2. CASE SessionStep
  <2>1. SessionNext
    BY <1>2 DEF SessionStep, SessionNext
  <2>2. Simulated
    BY <2>1, SessionNextOK
  <2>3. schema' = schema /\ prepared' = prepared
        /\ (stage' = NoPlan \/ (stage' = stage /\ block' = block))
    BY <1>2 DEF SessionStep, OtherChangesServers
  <2>. QED
    BY <2>2, <2>3, SimulatedOK
<1>3. CASE SchemaChanges
  <2>1. /\ schema' \in 1 .. MaxVersion /\ schema \in Nat /\ schema' = schema + 1
    BY <1>3, SessionConstants, SMT DEF SchemaChanges, TypeOK
  <2>2. SessionInv' /\ PgStep
    BY <1>1, <1>3, CacheStepOK DEF SchemaChanges, sessionVars
  <2>3. NoPlan \in Plans
    BY SessionConstants, SMT DEF NoPlan, Plans
  <2>4. TypeOK' /\ PreparedIsBound'
    BY <1>3, <2>1, <2>2, <2>3
    DEF SchemaChanges, sessionVars, TypeOK, SessionInv, Running, PreparedIsBound
  <2>5. BindingsAreOrdered'
    <3>1. /\ stage \in Plans /\ prepared \in Plans /\ NoPlan.v = 0 /\ NoPlan.t = 0
          /\ cache \in Caches
      BY <1>1 DEF TypeOK, NoPlan
    <3>2. \A v, t \in Nat : Ordered(v, t) => v <= schema' /\ (t # 0 => v <= t /\ t <= schema')
      BY <2>1, SMT DEF Ordered
    <3>3. CacheIsOrdered'
      <4>1. cache' = cache /\ cache.info \in Nat
        BY <1>3, <3>1, SMT DEF SchemaChanges, sessionVars, Caches
      <4>2. cache.info <= schema'
        BY <2>1, <4>1, SMT DEF BindingsAreOrdered
      <4>3. ASSUME NEW v \in 1 .. MaxVersion, cache.types[v] # 0
            PROVE  v <= schema' /\ v <= cache.types[v] /\ cache.types[v] <= schema'
        <5>1. v \in Nat /\ cache.types[v] \in Nat
          BY <3>1, SessionConstants, SMT DEF Caches
        <5>2. Ordered(v, cache.types[v])
          BY <4>3 DEF BindingsAreOrdered
        <5>. QED
          BY <3>2, <4>3, <5>1, <5>2
      <4>. QED
        BY <4>1, <4>2, <4>3 DEF CacheIsOrdered, Ordered
    <3>4. Ordered(stage.v, stage.t)' /\ Ordered(prepared.v, prepared.t)'
      BY <1>3, <2>1, <3>1, <3>2, SMT DEF SchemaChanges, BindingsAreOrdered, Ordered, Plans
    <3>. QED
      BY <3>3, <3>4 DEF BindingsAreOrdered, CacheIsOrdered
  <2>. QED
    BY <2>2, <2>4, <2>5
<1>4. CASE UNCHANGED vars
  <2>1. SessionInv' /\ PgStep
    BY <1>1, <1>4, CacheStepOK DEF vars, sessionVars
  <2>. QED
    BY <1>4, <2>1
    DEF vars, sessionVars, TypeOK, SessionInv, BindingsAreOrdered, Ordered,
        PreparedIsBound, Running
<1>. QED
  BY <1>2, <1>3, <1>4, PlanningOK, ExecutionOK DEF Next

(* The initial state.                                                      *)
LEMMA InitOK ==
  ASSUME Init
  PROVE  IInv /\ Pg!AInit
<1>1. 0 \in 0 .. MaxVersion /\ 1 \in 1 .. MaxVersion
  BY SessionConstants, SMT
<1>2. SessionTypeOK
  BY <1>1 DEF Init, SessionInit, SessionTypeOK, NoDuck, NoInstance, EmptyCache, Stores
<1>3. SessionInv
  BY <1>2
  DEF Init, SessionInit, SessionInv, MgrOK, Managers, FailedIsEmpty, NoInstance,
      NoDuck, NoDuckdbAcrossSavepoints, NothingIsCarriedOver
<1>4. TypeOK
  BY <1>1, <1>2 DEF Init, TypeOK, NoPlan, Plans
<1>5. BindingsAreOrdered /\ PreparedIsBound
  BY SMT DEF Init, SessionInit, EmptyCache, NoPlan, BindingsAreOrdered, Ordered, PreparedIsBound
<1>6. Pg!AInit
  BY DEF Init, SessionInit, NoDuck, Pg!AInit
<1>. QED
  BY <1>3, <1>4, <1>5, <1>6 DEF IInv

-----------------------------------------------------------------------------

(* The inductive invariant holds in every reachable state.                 *)
THEOREM InvariantHolds == Spec => []IInv
  BY InitOK, StepOK, PTL DEF Spec

(* The session implements PgTransaction: DuckLake and heap writes of one   *)
(* transaction become visible together or not at all, and ROLLBACK TO      *)
(* takes back exactly the writes after its savepoint, through DuckDB's     *)
(* autocommit, the COMMIT hook, PRE_COMMIT and the native path.            *)
THEOREM SessionIsAtomic == Spec => Atomicity
<1>1. Init => Pg!AInit
  BY InitOK
<1>2. IInv /\ [Next]_vars => [Pg!ANext]_Pg!avars
  BY StepOK DEF PgStep
<1>. QED
  BY <1>1, <1>2, InvariantHolds, PTL DEF Spec, Atomicity, Pg!ASpec

(* DuckDB holds no transaction across a savepoint.                         *)
THEOREM SavepointsExcludeDuckdb == Spec => []NoDuckdbAcrossSavepoints
<1>1. IInv => NoDuckdbAcrossSavepoints
  BY DEF IInv, SessionInv
<1>. QED
  BY <1>1, InvariantHolds, PTL

(* No DuckDB writes and no open gate outlive a transaction.                *)
THEOREM NothingOutlives == Spec => []NothingIsCarriedOver
<1>1. IInv => NothingIsCarriedOver
  BY DEF IInv, SessionInv
<1>. QED
  BY <1>1, InvariantHolds, PTL

(* The secrets DuckDB works with are those of the catalog.                 *)
THEOREM SecretsStayCurrent == Spec => []SecretsAreCurrent
<1>1. IInv => SecretsAreCurrent
  BY DEF IInv, SessionInv, MgrOK, SecretsAreCurrent
<1>. QED
  BY <1>1, InvariantHolds, PTL

(* A native write whose version is current has current column types, from  *)
(* whatever mixture of caches, plans and catalog reads they come.          *)
THEOREM NativeWritesFit == Spec => NativeWritesFitTheSchema
<1>1. IInv /\ [Next]_vars => [NativeWrite => stage.v = schema /\ stage.t = schema]_vars
  <2>. SUFFICES ASSUME IInv, NativeWrite
                PROVE  stage.v = schema /\ stage.t = schema
    OBVIOUS
  <2>1. stage.v = schema /\ stage.t # 0
    BY DEF NativeWrite, ValidateBinding, Complete
  <2>2. Ordered(stage.v, stage.t) /\ stage.t \in Nat /\ schema \in Nat
    BY SessionConstants, SMT DEF IInv, BindingsAreOrdered, TypeOK, Plans
  <2>. QED
    BY <2>1, <2>2, SMT DEF Ordered
<1>. QED
  BY <1>1, InvariantHolds, PTL DEF Spec, NativeWritesFitTheSchema

=============================================================================
