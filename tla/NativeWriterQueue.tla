--------------------------- MODULE NativeWriterQueue ---------------------------
(***************************************************************************)
(* The reservation queue of the native inline writer                       *)
(* (pg_ducklake/src/direct_insert/native_writer_queue.cpp).                *)
(*                                                                         *)
(* Backends reserve candidate snapshot IDs and row IDs in shared memory    *)
(* before they write their rows, and publish in the order of their         *)
(* tickets.  A reservation is a hint: the truth is the catalog, which      *)
(* every publication reads again.  Here the catalog is only the history of *)
(* its commits, and a backend takes those steps of PrepareNativeInlineWrite *)
(* and PublishNativeInlineWrite that touch the queue or the history.       *)
(*                                                                         *)
(* The spinlock makes every critical section one step.  A slot is known by *)
(* its ticket, because tickets are never used twice; which entry of the    *)
(* array holds it makes no difference.  Waiting is a loop of critical      *)
(* sections, and the clock is an action of its own.                        *)
(***************************************************************************)
EXTENDS Integers, FiniteSets, Sequences

CONSTANTS
  Backends,   \* PostgreSQL sessions
  Impatient,  \* the sessions whose QueueWaitBudgetMs is 0
  Tables,     \* table_ids, each of one catalog
  Catalogs,   \* CatalogKeys: one for each database with the extension
  CatalogOf,  \* the catalog of each table
  Capacity,   \* native_writer_reservation_queue_capacity
  Elsewhere,  \* how many slots may be those of catalogs that are left out
  MaxTicket,  \* the largest uint64 (small in the models)
  MaxId,      \* the largest int64 (small in the models)
  MaxRows,    \* bound: the largest number of rows of one statement
  LastTicket, \* bound: no statement starts after this ticket was given
  None        \* the work of a backend that runs no statement

ASSUME QueueConstants ==
  /\ Impatient \subseteq Backends
  /\ CatalogOf \in [Tables -> Catalogs]
  /\ Capacity \in Nat \ {0}
  /\ 0 \in Elsewhere /\ Elsewhere \subseteq 0 .. Capacity
  /\ MaxTicket \in Nat \ {0}
  /\ MaxId \in Nat
  /\ MaxRows \in Nat
  /\ LastTicket \in Nat

VARIABLES
  slots,        \* the slots in use, by ticket
  next_ticket,
  history,      \* the commits of each catalog; the n-th made snapshot n
  pc,           \* where each backend is
  work,         \* its NativeInlineWriteBatch and PublicationState
  local,        \* Local: its reservation, and whether it has published
  suspects      \* the tickets whose owners it is about to check

vars == <<slots, next_ticket, history, pc, work, local, suspects>>

Slot ==
  [valid : BOOLEAN, committed : BOOLEAN, row_assigned : BOOLEAN,
   row_count_known : BOOLEAN, table : Tables, owner : Backends,
   snapshot_id : Nat, row_id : Nat, row_count : Nat,
   blocker : Nat, deadline : {"none", "running", "expired"}]

(* seen is the catalog as last read, claim the snapshot_id whose           *)
(* uncommitted key the transaction holds (0 if none).                      *)
Ids == [snapshot_id : Nat, row_id : Nat]

Work ==
  [table : Tables, known : BOOLEAN, rows : Nat, seen : Ids, candidate : Ids,
   reservation_valid : BOOLEAN, claim : Nat]

ASSUME NoneIsNoWork == None \notin Work

NoReservation == [ticket |-> 0, published |-> FALSE]

-----------------------------------------------------------------------------
(* The catalog.                                                            *)

SnapshotId(c) == Len(history[c])

LastOf(K) == CHOOSE k \in K : \A j \in K : j <= k
FirstOf(K) == CHOOSE k \in K : \A j \in K : k <= j

NextRowId(t) ==
  LET h == history[CatalogOf[t]]
      K == {i \in DOMAIN h : h[i].table = t}
  IN IF K = {} THEN 0 ELSE h[LastOf(K)].row_id + h[LastOf(K)].rows

Truth(t) == [snapshot_id |-> SnapshotId(CatalogOf[t]), row_id |-> NextRowId(t)]

FinalIds(b) ==
  [snapshot_id |-> work[b].seen.snapshot_id + 1, row_id |-> work[b].seen.row_id]

-----------------------------------------------------------------------------
(* The slots S, as the critical sections see and change them.              *)

Catalog(S, k) == CatalogOf[S[k].table]

Without(S, K) == [k \in DOMAIN S \ K |-> S[k]]

InvalidateFrom(S, k) ==
  [j \in DOMAIN S |->
     IF Catalog(S, j) = Catalog(S, k) /\ j >= k
       THEN [S[j] EXCEPT !.valid = FALSE]
       ELSE S[j]]

(* AbandonReservation and its like: a slot takes its successors with it.   *)
DropFrom(S, k) ==
  IF k \in DOMAIN S THEN Without(InvalidateFrom(S, k), {k}) ELSE S

ReclaimInvalidSlots(S) == Without(S, {k \in DOMAIN S : ~S[k].valid})

ValidSlots(S, c) == {k \in DOMAIN S : S[k].valid /\ Catalog(S, k) = c}

PendingSlots(S, c) == {k \in ValidSlots(S, c) : ~S[k].committed}

OfTable(S, K, t) == {k \in K : S[k].table = t}

PriorSlots(S, k) == {j \in ValidSlots(S, Catalog(S, k)) : j < k}

(* Mutant: a COPY that has not reported its size counts as empty.          *)
HasStart(S, k) == S[k].row_assigned

(* The end of the slot's row range, if it is known and is a row ID.        *)
HasRange(S, k) == S[k].row_assigned /\ S[k].row_count_known
Overflows(S, k) == S[k].row_id > MaxId - S[k].row_count
RangeEnd(S, k) == S[k].row_id + S[k].row_count

(* The reservations of the catalog of t are behind what a backend has      *)
(* read: a pending one must be ahead of it, a committed one may equal it.  *)
IsStale(S, t, seen) ==
  LET all  == ValidSlots(S, CatalogOf[t])
      same == OfTable(S, all, t)
      last == LastOf(all)
      lastTable == LastOf(same)
  IN /\ all # {}
     /\ \/ IF S[last].committed
             THEN S[last].snapshot_id < seen.snapshot_id
             ELSE S[last].snapshot_id <= seen.snapshot_id
        \/ /\ same # {}
           /\ HasRange(S, lastTable)
           /\ \/ Overflows(S, lastTable)
              \/ IF S[lastTable].committed
                   THEN RangeEnd(S, lastTable) < seen.row_id
                   ELSE S[lastTable].row_id < seen.row_id

DropStale(S, t, seen) ==
  IF IsStale(S, t, seen) THEN Without(S, ValidSlots(S, CatalogOf[t])) ELSE S

(* The slots S and n slots elsewhere take all there are.                   *)
IsFull(S, n) == Cardinality(DOMAIN S) + n >= Capacity

(* ReclaimOldestCommittedAnchor, in any catalog, if there is no free slot. *)
MakeRoom(S, n) ==
  LET anchors == {k \in DOMAIN S : S[k].committed}
  IN IF IsFull(S, n) /\ anchors # {} THEN Without(S, {FirstOf(anchors)})
     ELSE S

(* The blocker of a wait: the oldest pending predecessor, which for a row  *)
(* range is one of the same table that does not know its size yet.         *)
Blockers(S, k, publication_wait) ==
  {j \in PendingSlots(S, Catalog(S, k)) :
     /\ j < k
     /\ publication_wait \/ (S[j].table = S[k].table /\ ~S[j].row_count_known)}

FindBlocker(S, k, publication_wait) ==
  LET K == Blockers(S, k, publication_wait) IN IF K = {} THEN 0 ELSE FirstOf(K)

(* Mutant: every commit leaves an anchor.                                  *)
RemoveUnpublished(S, mine, committed) ==
  LET k == mine.ticket
  IN IF k \notin DOMAIN S THEN S
     ELSE IF committed /\ S[k].valid
       THEN [S EXCEPT ![k] = [@ EXCEPT !.committed = TRUE]]
       ELSE DropFrom(S, k)

(* RemoveLocalReservation: what a transaction leaves behind.  One that     *)
(* published by its reservation leaves an anchor, which replaces the older *)
(* anchors of its table.                                                   *)
RemoveLocalReservation(S, mine, committed) ==
  LET k == mine.ticket
  IN IF k \notin DOMAIN S THEN S
     ELSE IF committed /\ mine.published /\ S[k].valid
       THEN LET older == {j \in OfTable(S, PriorSlots(S, k), S[k].table) :
                            S[j].committed}
            IN Without([S EXCEPT ![k] =
                          [@ EXCEPT !.committed = TRUE, !.blocker = 0,
                                    !.deadline = "none"]], older)
       ELSE DropFrom(S, k)

(* The transaction that holds the ticket k is running.  PostgreSQL calls   *)
(* it ended before it runs the transaction callbacks.                      *)
OwnerTransactionIsActive(k) ==
  \E b \in Backends :
    local[b].ticket = k /\ pc[b] \notin {"idle", "committed", "aborted"}

-----------------------------------------------------------------------------

Init ==
  /\ slots = [k \in {} |-> {}]
  /\ next_ticket = 1
  /\ history = [c \in Catalogs |-> <<>>]
  /\ pc = [b \in Backends |-> "idle"]
  /\ work = [b \in Backends |-> None]
  /\ local = [b \in Backends |-> NoReservation]
  /\ suspects = [b \in Backends |-> {}]

Goto(b, from, to) == pc[b] = from /\ pc' = [pc EXCEPT ![b] = to]

(* PrepareNativeInlineWrite binds the statement to the current catalog.    *)
(* COPY does not know its number of rows.                                  *)
ReadState(b) ==
  /\ Goto(b, "idle", "reserve")
  /\ next_ticket <= LastTicket
  /\ \E t \in Tables, n \in 0 .. MaxRows :
       /\ SnapshotId(CatalogOf[t]) < MaxId
       /\ work' = [work EXCEPT ![b] =
            [table |-> t, known |-> n > 0, rows |-> n, seen |-> Truth(t),
             candidate |-> [Truth(t) EXCEPT !.snapshot_id = @ + 1],
             reservation_valid |-> FALSE, claim |-> 0]]
  /\ UNCHANGED <<slots, next_ticket, history, local, suspects>>

(* The new slot of b behind the slots S.                                   *)
NewSlot(S, b) ==
  LET w     == work[b]
      prior == ValidSlots(S, CatalogOf[w.table])
      same  == OfTable(S, prior, w.table)
      last  == LastOf(prior)
      lastTable == LastOf(same)
      fits  == prior = {} \/ S[last].snapshot_id < MaxId
      chained == same # {} /\ HasRange(S, lastTable) /\ ~Overflows(S, lastTable)
  IN [valid |-> fits, committed |-> FALSE,
      row_assigned |-> same = {} \/ chained,
      row_count_known |-> w.known, table |-> w.table, owner |-> b,
      snapshot_id |-> 1 + (IF fits /\ prior # {} THEN S[last].snapshot_id
                                                 ELSE w.seen.snapshot_id),
      row_id |-> IF same = {} THEN w.seen.row_id
                 ELSE IF chained THEN RangeEnd(S, lastTable) ELSE 0,
      row_count |-> w.rows, blocker |-> 0, deadline |-> "none"]

(* The critical section of ReserveNativeWriterPublication first drops what *)
(* is invalid or stale and looks for a free slot.  Slots elsewhere come    *)
(* and go between two such sections.                                       *)
SlotsToReserve(b, n) ==
  MakeRoom(DropStale(ReclaimInvalidSlots(slots), work[b].table, work[b].seen),
           n)

Reserving(b, n) ==
  /\ pc[b] \in {"reserve", "reserve_again"} /\ suspects[b] = {}
  /\ Cardinality(DOMAIN slots) + n <= Capacity

(* The queue is full.  The first time, the backend looks for owners that   *)
(* have ended and tries again; then it goes on without a reservation.      *)
ReserveWhenFull(b, n) ==
  LET S == SlotsToReserve(b, n)
  IN /\ Reserving(b, n)
     /\ IsFull(S, n)
     /\ slots' = S
     /\ pc' = [pc EXCEPT ![b] =
          IF @ = "reserve" THEN "reserve_again" ELSE "prewrite"]
     /\ suspects' = [suspects EXCEPT ![b] =
          IF pc[b] = "reserve"
            THEN {j \in DOMAIN S : S[j].valid /\ ~S[j].committed} ELSE {}]
     /\ UNCHANGED <<next_ticket, history, work, local>>

ReserveWithoutTicket(b, n) ==
  /\ Reserving(b, n)
  /\ ~IsFull(SlotsToReserve(b, n), n)
  /\ next_ticket = MaxTicket
  /\ slots' = SlotsToReserve(b, n)
  /\ pc' = [pc EXCEPT ![b] = "prewrite"]
  /\ UNCHANGED <<next_ticket, history, work, local, suspects>>

ReserveSlot(b, n) ==
  LET S    == SlotsToReserve(b, n)
      slot == NewSlot(S, b)
      k    == next_ticket
  IN /\ Reserving(b, n)
     /\ ~IsFull(S, n)
     /\ k < MaxTicket
     /\ slots' = [j \in DOMAIN S \cup {k} |-> IF j = k THEN slot ELSE S[j]]
     /\ next_ticket' = k + 1
     /\ local' = [local EXCEPT ![b] = [ticket |-> k, published |-> FALSE]]
     /\ pc' = [pc EXCEPT ![b] =
          IF slot.valid /\ ~slot.row_assigned THEN "row_wait" ELSE "prewrite"]
     /\ work' = [work EXCEPT ![b] =
          IF slot.valid /\ slot.row_assigned
            THEN [@ EXCEPT !.candidate = [snapshot_id |-> slot.snapshot_id,
                                          row_id |-> slot.row_id]]
            ELSE @]
     /\ UNCHANGED <<history, suspects>>

-----------------------------------------------------------------------------
(* WaitUntilReady, for a row range or for the turn to publish.             *)

Waiting(b) == pc[b] \in {"row_wait", "publication_wait"}
PublicationWait(b) == pc[b] = "publication_wait"
HasValidSlot(b) ==
  local[b].ticket \in DOMAIN slots /\ slots[local[b].ticket].valid

AfterFailedWait(b) ==
  IF pc[b] \in {"row_wait", "row_timeout"} THEN "prewrite" ELSE "publish"
TimeoutOf(b) == IF pc[b] = "row_wait" THEN "row_timeout" ELSE "publication_timeout"

(* The predecessor whose row range the slot k continues.                   *)
Predecessors(k) == OfTable(slots, PriorSlots(slots, k), slots[k].table)
Predecessor(k) == LastOf(Predecessors(k))

RangeIsFree(k) ==
  IF Predecessors(k) = {} THEN slots[k].row_assigned
  ELSE HasRange(slots, Predecessor(k)) /\ ~Overflows(slots, Predecessor(k))

(* Mutant: a turn to publish comes when the row ranges are known.          *)
IsReadyWhenCounted(b) ==
  LET k == local[b].ticket
  IN IF PublicationWait(b) THEN Blockers(slots, k, FALSE) = {}
     ELSE RangeIsFree(k)

IsReady(b) ==
  LET k == local[b].ticket
  IN IF PublicationWait(b)
       THEN k = FirstOf(PendingSlots(slots, Catalog(slots, k)))
       ELSE RangeIsFree(k)

(* A session without a wait budget abandons its reservation at once.       *)
WaitWithoutBudget(b) ==
  /\ Waiting(b)
  /\ b \in Impatient
  /\ slots' = DropFrom(slots, local[b].ticket)
  /\ pc' = [pc EXCEPT ![b] = AfterFailedWait(b)]
  /\ UNCHANGED <<next_ticket, history, work, local, suspects>>

(* The reservation was invalidated or reclaimed by another backend.        *)
WaitIsLost(b) ==
  /\ Waiting(b)
  /\ b \notin Impatient
  /\ suspects[b] = {}
  /\ ~HasValidSlot(b)
  /\ pc' = [pc EXCEPT ![b] = AfterFailedWait(b)]
  /\ UNCHANGED <<slots, next_ticket, history, work, local, suspects>>

(* A critical section of the wait by the patient b, whose slot is valid.   *)
WaitStep(b) ==
  Waiting(b) /\ b \notin Impatient /\ suspects[b] = {} /\ HasValidSlot(b)

RowRangeIsReady(b) ==
  LET k == local[b].ticket
  IN /\ WaitStep(b)
     /\ pc[b] = "row_wait" /\ IsReady(b)
     /\ slots' = IF Predecessors(k) = {} THEN slots
                 ELSE [slots EXCEPT ![k] =
                         [@ EXCEPT !.row_id = RangeEnd(slots, Predecessor(k)),
                                   !.row_assigned = TRUE]]
     /\ pc' = [pc EXCEPT ![b] = "row_ready"]
     /\ UNCHANGED <<next_ticket, history, work, local, suspects>>

(* ReserveNativeWriterPublication reads the range in a new critical section. *)
ReadRowRange(b) ==
  LET slot == slots[local[b].ticket]
  IN /\ Goto(b, "row_ready", "prewrite")
     /\ work' = [work EXCEPT ![b] =
          IF HasValidSlot(b) /\ slot.row_assigned
            THEN [@ EXCEPT !.candidate = [snapshot_id |-> slot.snapshot_id,
                                          row_id |-> slot.row_id]]
            ELSE @]
     /\ UNCHANGED <<slots, next_ticket, history, local, suspects>>

PublicationIsReady(b) ==
  /\ WaitStep(b)
  /\ PublicationWait(b) /\ IsReady(b)
  /\ pc' = [pc EXCEPT ![b] = "publish"]
  /\ work' = [work EXCEPT ![b] = [@ EXCEPT !.reservation_valid = TRUE]]
  /\ UNCHANGED <<slots, next_ticket, history, local, suspects>>

(* Mutant: every look at the queue starts a new interval.                  *)
BlockedSlotAfresh(b) ==
  LET k == local[b].ticket
  IN [slots[k] EXCEPT !.blocker = FindBlocker(slots, k, PublicationWait(b)),
                      !.deadline = "running"]

(* The slot after a critical section that did not find b ready.  A new     *)
(* blocker starts a new interval.                                          *)
BlockedSlot(b) ==
  LET k == local[b].ticket
      j == FindBlocker(slots, k, PublicationWait(b))
  IN IF slots[k].deadline = "none" \/ (j # 0 /\ j # slots[k].blocker)
       THEN [slots[k] EXCEPT !.blocker = j, !.deadline = "running"]
       ELSE slots[k]

(* A row range that continues its predecessor would overflow.              *)
RowRangeOverflows(b) ==
  LET k == local[b].ticket
  IN /\ WaitStep(b)
     /\ pc[b] = "row_wait"
     /\ Predecessors(k) # {}
     /\ HasRange(slots, Predecessor(k)) /\ Overflows(slots, Predecessor(k))
     /\ slots' = InvalidateFrom(slots, k)
     /\ UNCHANGED <<next_ticket, history, pc, work, local, suspects>>

WaitForBlocker(b) ==
  /\ WaitStep(b)
  /\ ~IsReady(b)
  /\ BlockedSlot(b) # slots[local[b].ticket]
  /\ slots' = [slots EXCEPT ![local[b].ticket] = BlockedSlot(b)]
  /\ UNCHANGED <<next_ticket, history, pc, work, local, suspects>>

(* The interval is over and the blocker is still the same.                 *)
WaitExpires(b) ==
  /\ WaitStep(b)
  /\ ~IsReady(b)
  /\ BlockedSlot(b).deadline = "expired"
  /\ pc' = [pc EXCEPT ![b] = TimeoutOf(b)]
  /\ UNCHANGED <<slots, next_ticket, history, work, local, suspects>>

(* After a sleep the backend suspects that the owner of its blocker has    *)
(* ended without removing its slot.                                        *)
SuspectBlocker(b) ==
  LET k == local[b].ticket
      j == FindBlocker(slots, k, PublicationWait(b))
  IN /\ WaitStep(b)
     /\ ~IsReady(b)
     /\ j # 0
     /\ slots' = [slots EXCEPT ![k] = BlockedSlot(b)]
     /\ suspects' = [suspects EXCEPT ![b] = {j}]
     /\ UNCHANGED <<next_ticket, history, pc, work, local>>

(* ReclaimInactiveOwner looks at the owner without the lock of the queue.  *)
(* The slot may have become an anchor in the meantime; it is dropped like  *)
(* a pending one.                                                          *)
ReclaimInactiveOwner(b) ==
  \E k \in suspects[b] :
    /\ suspects' = [suspects EXCEPT ![b] = @ \ {k}]
    /\ IF k \in DOMAIN slots /\ ~OwnerTransactionIsActive(k)
         THEN slots' = DropFrom(slots, k) /\ UNCHANGED pc
         ELSE /\ UNCHANGED slots
              /\ pc' = [pc EXCEPT ![b] =
                   IF Waiting(b) /\ local[b].ticket \in DOMAIN slots
                        /\ slots[local[b].ticket].deadline = "expired"
                     THEN TimeoutOf(b) ELSE @]
    /\ UNCHANGED <<next_ticket, history, work, local>>

AbandonReservation(b) ==
  /\ pc[b] \in {"row_timeout", "publication_timeout"}
  /\ slots' = DropFrom(slots, local[b].ticket)
  /\ pc' = [pc EXCEPT ![b] = AfterFailedWait(b)]
  /\ UNCHANGED <<next_ticket, history, work, local, suspects>>

(* The clock.  A deadline stays in the slot when a wait ends, and counts   *)
(* on if the next wait is for the same blocker.                            *)
TimePasses(k) ==
  /\ k \in DOMAIN slots
  /\ slots[k].deadline = "running"
  /\ slots' = [slots EXCEPT ![k] = [@ EXCEPT !.deadline = "expired"]]
  /\ UNCHANGED <<next_ticket, history, pc, work, local, suspects>>

-----------------------------------------------------------------------------
(* PublishNativeInlineWrite.                                               *)

(* The rows are written; the reservation learns how many they are.  An     *)
(* empty COPY publishes nothing.                                           *)
CompleteReservation(b) ==
  LET w == work[b]
      k == local[b].ticket
  IN /\ pc[b] = "prewrite"
     /\ \E n \in IF w.known THEN {w.rows} ELSE 0 .. MaxRows :
          /\ w.candidate.row_id + n <= MaxId
          /\ work' = [work EXCEPT ![b] = [@ EXCEPT !.rows = n]]
          /\ slots' = IF n > 0 /\ HasValidSlot(b)
                        THEN [slots EXCEPT ![k] =
                               [@ EXCEPT !.row_count = n, !.row_count_known = TRUE]]
                        ELSE slots
          /\ pc' = [pc EXCEPT ![b] =
               IF n = 0 THEN "written"
               ELSE IF HasValidSlot(b) THEN "publication_wait" ELSE "publish"]
     /\ UNCHANGED <<next_ticket, history, local, suspects>>

ReadPublicationState(b) ==
  LET t == work[b].table
  IN /\ Goto(b, "publish", "validate")
     /\ SnapshotId(CatalogOf[t]) < MaxId
     /\ NextRowId(t) + work[b].rows <= MaxId
     /\ work' = [work EXCEPT ![b] = [@ EXCEPT !.seen = Truth(t)]]
     /\ UNCHANGED <<slots, next_ticket, history, local, suspects>>

(* Does the reservation still name the IDs that the catalog asks for?      *)
ReservationMatches(b) ==
  LET slot == slots[local[b].ticket]
  IN /\ HasValidSlot(b)
     /\ slot.row_assigned
     /\ [snapshot_id |-> slot.snapshot_id, row_id |-> slot.row_id] = FinalIds(b)

ValidateReservation(b) ==
  LET k == local[b].ticket
      lost == work[b].reservation_valid /\ ~ReservationMatches(b)
  IN /\ Goto(b, "validate", "claim")
     /\ slots' = IF lost /\ k \in DOMAIN slots THEN InvalidateFrom(slots, k) ELSE slots
     /\ work' = [work EXCEPT ![b].reservation_valid = @ /\ ~lost]
     /\ UNCHANGED <<next_ticket, history, local, suspects>>

KeyIsHeld(c, s) ==
  \E b \in Backends :
    /\ work[b] # None
    /\ CatalogOf[work[b].table] = c
    /\ work[b].claim = s

(* RunPublicationAttempt: the claim, and the rows retagged if necessary.   *)
Claim(b) ==
  LET s == FinalIds(b).snapshot_id
      c == CatalogOf[work[b].table]
  IN /\ Goto(b, "claim", "written")
     /\ SnapshotId(c) < s
     /\ ~KeyIsHeld(c, s)
     /\ work' = [work EXCEPT ![b] = [@ EXCEPT !.claim = s]]
     /\ local' = [local EXCEPT ![b] = [@ EXCEPT !.published = local[b].ticket # 0]]
     /\ UNCHANGED <<slots, next_ticket, history, suspects>>

ClaimConflict(b) ==
  LET k == local[b].ticket
  IN /\ Goto(b, "claim", "publish")
     /\ FinalIds(b).snapshot_id <= SnapshotId(CatalogOf[work[b].table])
     /\ slots' = IF work[b].reservation_valid /\ k \in DOMAIN slots
                   THEN InvalidateFrom(slots, k) ELSE slots
     /\ work' = [work EXCEPT ![b] = [@ EXCEPT !.reservation_valid = FALSE]]
     /\ UNCHANGED <<next_ticket, history, local, suspects>>

-----------------------------------------------------------------------------
(* The end of a transaction.  Its commit is visible, and its owner counts  *)
(* as ended, before QueueXactCallback runs.                                *)

Running(b) == pc[b] \notin {"idle", "committed", "aborted"}

CommitTransaction(b) ==
  LET w == work[b]
      c == CatalogOf[w.table]
  IN /\ Goto(b, "written", "committed")
     /\ history' =
          IF w.claim = 0 THEN history
          ELSE [history EXCEPT ![c] =
                  Append(@, [table |-> w.table, row_id |-> w.seen.row_id,
                             rows |-> w.rows])]
     /\ work' = [work EXCEPT ![b] = None]
     /\ UNCHANGED <<slots, next_ticket, local, suspects>>

(* An error, a cancellation, or IDs that are exhausted.                    *)
AbortTransaction(b) ==
  /\ Running(b)
  /\ pc' = [pc EXCEPT ![b] = "aborted"]
  /\ work' = [work EXCEPT ![b] = None]
  /\ suspects' = [suspects EXCEPT ![b] = {}]
  /\ UNCHANGED <<slots, next_ticket, history, local>>

(* Mutant: the callback does not handle an abort.                          *)
QueueXactCallbackOnCommit(b) ==
  /\ pc[b] \in {"committed", "aborted"}
  /\ slots' = IF pc[b] = "committed"
                THEN RemoveLocalReservation(slots, local[b], TRUE) ELSE slots
  /\ local' = [local EXCEPT ![b] = NoReservation]
  /\ pc' = [pc EXCEPT ![b] = "idle"]
  /\ UNCHANGED <<next_ticket, history, work, suspects>>

QueueXactCallback(b) ==
  /\ pc[b] \in {"committed", "aborted"}
  /\ slots' = RemoveLocalReservation(slots, local[b], pc[b] = "committed")
  /\ local' = [local EXCEPT ![b] = NoReservation]
  /\ pc' = [pc EXCEPT ![b] = "idle"]
  /\ UNCHANGED <<next_ticket, history, work, suspects>>

(* A session that is terminated runs its exit callback before PostgreSQL   *)
(* aborts its transaction.                                                 *)
QueueBackendExit(b) ==
  /\ Running(b) /\ pc[b] # "exiting"
  /\ slots' = RemoveLocalReservation(slots, local[b], FALSE)
  /\ local' = [local EXCEPT ![b] = NoReservation]
  /\ pc' = [pc EXCEPT ![b] = "exiting"]
  /\ suspects' = [suspects EXCEPT ![b] = {}]
  /\ UNCHANGED <<next_ticket, history, work>>

(* A commit that made no reservation: a DuckLake transaction, or a native  *)
(* writer with the queue switched off.                                     *)
OtherCommit(t) ==
  LET c == CatalogOf[t]
  IN /\ SnapshotId(c) < MaxId
     /\ ~KeyIsHeld(c, SnapshotId(c) + 1)
     /\ \E n \in 0 .. MaxRows :
          /\ NextRowId(t) + n <= MaxId
          /\ history' = [history EXCEPT ![c] =
               Append(@, [table |-> t, row_id |-> NextRowId(t), rows |-> n])]
     /\ UNCHANGED <<slots, next_ticket, pc, work, local, suspects>>

-----------------------------------------------------------------------------

ReserveStep(b) ==
  \E n \in Elsewhere :
    ReserveWhenFull(b, n) \/ ReserveWithoutTicket(b, n) \/ ReserveSlot(b, n)

WaitProgress(b) ==
  \/ WaitIsLost(b)
  \/ RowRangeIsReady(b)
  \/ PublicationIsReady(b)
  \/ RowRangeOverflows(b)
  \/ WaitForBlocker(b)

PublishStep(b) ==
  \/ ReadRowRange(b)
  \/ CompleteReservation(b)
  \/ ReadPublicationState(b)
  \/ ValidateReservation(b)
  \/ Claim(b)
  \/ ClaimConflict(b)
  \/ CommitTransaction(b)
  \/ QueueXactCallback(b)

(* What ends a wait that makes no progress.                                *)
GiveUpStep(b) ==
  \/ WaitWithoutBudget(b)
  \/ WaitExpires(b)
  \/ SuspectBlocker(b)
  \/ ReclaimInactiveOwner(b)
  \/ AbandonReservation(b)

FailureStep(b) == AbortTransaction(b) \/ QueueBackendExit(b)

Idle == (\A b \in Backends : pc[b] = "idle") /\ UNCHANGED vars

Next ==
  \/ \E b \in Backends :
       \/ ReadState(b)
       \/ ReserveStep(b)
       \/ WaitProgress(b)
       \/ GiveUpStep(b)
       \/ PublishStep(b)
       \/ FailureStep(b)
  \/ \E k \in DOMAIN slots : TimePasses(k)
  \/ \E t \in Tables : OtherCommit(t)
  \/ Idle

Spec == Init /\ [][Next]_vars

(* A waiting backend is woken by every change of the queue and at its      *)
(* deadline, and the clock runs.                                           *)
Fairness ==
  /\ \A b \in Backends : WF_vars(WaitProgress(b) \/ GiveUpStep(b))
  /\ WF_vars(\E k \in DOMAIN slots : TimePasses(k))

FairSpec == Spec /\ Fairness

(* Patient native writers alone.  They may fail, but nothing else drops a  *)
(* reservation.                                                            *)
PatientNext ==
  \/ \E b \in Backends :
       \/ ReadState(b)
       \/ ReserveStep(b)
       \/ WaitProgress(b)
       \/ PublishStep(b)
       \/ AbortTransaction(b)
  \/ Idle

PatientSpec == Init /\ [][PatientNext]_vars

-----------------------------------------------------------------------------

Places ==
  {"idle", "reserve", "reserve_again", "row_wait", "row_timeout", "row_ready",
   "prewrite", "publication_wait", "publication_timeout", "publish",
   "validate", "claim", "written", "committed", "aborted", "exiting"}

TypeOK ==
  /\ DOMAIN slots \subseteq 1 .. next_ticket - 1
  /\ Cardinality(DOMAIN slots) <= Capacity
  /\ slots \in [DOMAIN slots -> Slot]
  /\ next_ticket \in 1 .. MaxTicket
  /\ history \in [Catalogs -> Seq([table : Tables, row_id : Nat, rows : Nat])]
  /\ pc \in [Backends -> Places]
  /\ work \in [Backends -> Work \cup {None}]
  /\ local \in [Backends -> [ticket : 0 .. MaxTicket, published : BOOLEAN]]
  /\ suspects \in [Backends -> SUBSET (1 .. MaxTicket)]

(* Valid reservations of a catalog follow the order of their tickets: a    *)
(* later one has a later candidate snapshot, and in the same table a row   *)
(* range that starts after the earlier range ends.  The backends prewrite  *)
(* their rows with these IDs at the same time, so two that overlap would   *)
(* have to be retagged.                                                    *)
ReservationsAreOrdered ==
  \A j, k \in DOMAIN slots :
    slots[j].valid /\ slots[k].valid /\ j < k /\ Catalog(slots, j) = Catalog(slots, k) =>
      /\ slots[j].snapshot_id < slots[k].snapshot_id
      /\ slots[j].table = slots[k].table /\ slots[k].row_assigned =>
           HasRange(slots, j) /\ RangeEnd(slots, j) <= slots[k].row_id

(* A committed anchor is the truth: the snapshot it names was committed    *)
(* and added to its table exactly the rows that were reserved.  Later      *)
(* reservations continue from anchors without reading the catalog.         *)
AnchorsAreTrue ==
  \A k \in DOMAIN slots :
    slots[k].valid /\ slots[k].committed =>
      LET h == history[Catalog(slots, k)]
      IN /\ slots[k].snapshot_id \in DOMAIN h
         /\ h[slots[k].snapshot_id] =
              [table |-> slots[k].table, row_id |-> slots[k].row_id,
               rows |-> slots[k].row_count]

(* Between its turn in the publication order and its transaction callback  *)
(* a backend with a valid reservation is alone: no other reservation of    *)
(* its catalog gets its turn, so none reads the catalog before the commit  *)
(* is visible.                                                             *)
HasItsTurn(b) ==
  /\ HasValidSlot(b)
  /\ \/ pc[b] \in {"publish", "validate", "claim"}
     \/ pc[b] \in {"written", "committed"} /\ local[b].published

OneTurnAtATime ==
  \A a, b \in Backends :
    HasItsTurn(a) /\ HasItsTurn(b)
      /\ Catalog(slots, local[a].ticket) = Catalog(slots, local[b].ticket) => a = b

(* No slot is orphaned: a pending one belongs to a transaction that will   *)
(* still remove it.  An orphan would hold up its successors and take a     *)
(* place in the queue until a waiting backend finds its owner ended.       *)
NoOrphanedSlot ==
  \A k \in DOMAIN slots :
    ~slots[k].committed => local[slots[k].owner].ticket = k

(* Every wait ends, whatever the other backends do or fail to do: each     *)
(* blocker gets one interval, and blockers have ever later tickets.        *)
WaitsEnd == \A b \in Backends : Waiting(b) ~> ~Waiting(b)

=============================================================================
