------------------------ MODULE NativeWriterQueueProofs ------------------------
(***************************************************************************)
(* Safety of the reservation queue, for any number of backends, tables,    *)
(* catalogs and slots and any bounds.                                      *)
(*                                                                         *)
(* The argument: whatever the critical sections do to the reservation of   *)
(* another backend, they only invalidate it, remove it, or change its wait *)
(* (Shrinks).  All that is claimed of a reservation is claimed of a valid  *)
(* one, so a backend keeps its claims under the steps of the others, and   *)
(* the proof is about the few steps that change the own reservation: the   *)
(* new slot, the row range that becomes known, the row count, and the      *)
(* anchor that a commit leaves.                                            *)
(***************************************************************************)
EXTENDS NativeWriterQueue, FiniteSetTheorems, WellFoundedInduction, TLAPS

(* Most leaves are first-order: Zenon is tried unless another is named.    *)
USE Zenon

(* t is the slot s, or what another backend may make of it.                *)
Like(t, s) ==
  /\ t \in Slot
  /\ t.valid => s.valid
  /\ t.committed = s.committed /\ t.row_assigned = s.row_assigned
  /\ t.row_count_known = s.row_count_known /\ t.table = s.table
  /\ t.owner = s.owner /\ t.snapshot_id = s.snapshot_id
  /\ t.row_id = s.row_id /\ t.row_count = s.row_count

Shrinks(S, T) ==
  /\ DOMAIN T \subseteq DOMAIN S /\ T \in [DOMAIN T -> Slot]
  /\ \A k \in DOMAIN T : Like(T[k], S[k])

(* The snapshot of the slot s is in the history h, with its rows.          *)
IsTrue(s, h) ==
  /\ s.snapshot_id \in DOMAIN h[CatalogOf[s.table]]
  /\ h[CatalogOf[s.table]][s.snapshot_id] =
       [table |-> s.table, row_id |-> s.row_id, rows |-> s.row_count]

(* ReservationsAreOrdered, AnchorsAreTrue and NoOrphanedSlot of any slots. *)
Follows(s, r) ==
  /\ r.snapshot_id < s.snapshot_id
  /\ r.table = s.table /\ s.row_assigned =>
       /\ r.row_assigned /\ r.row_count_known
       /\ r.row_id + r.row_count <= s.row_id

InOrder(S) ==
  \A j, k \in DOMAIN S :
    S[j].valid /\ S[k].valid /\ j < k /\ Catalog(S, j) = Catalog(S, k) =>
      Follows(S[k], S[j])

AnchorsOK(S, h) ==
  \A k \in DOMAIN S : S[k].valid /\ S[k].committed => IsTrue(S[k], h)

OwnersOK(S, l) ==
  \A k \in DOMAIN S : ~S[k].committed => l[S[k].owner].ticket = k

(* What holds of the valid slot s of a backend that is at p, with the work *)
(* w and the published flag f: it is assigned when the backend believes    *)
(* so, it has the rows of the batch, it names the IDs that are claimed,    *)
(* and then those that are committed.                                      *)
Turn(p, f) ==
  p \in {"publish", "validate", "claim"} \/ (p \in {"written", "committed"} /\ f)

SlotOfWork(s, p, w, f, h) ==
  /\ p = "row_wait" => ~s.row_assigned
  /\ p \in {"row_wait", "row_timeout", "row_ready", "prewrite"} =>
       (s.row_count_known <=> w.known) /\ s.row_count = w.rows
  /\ p \in {"publish", "validate", "claim"} => w.reservation_valid
  /\ \/ p \in {"publication_wait", "publication_timeout", "publish",
               "validate", "claim"}
     \/ p = "written" /\ f
     => s.row_count = w.rows
  /\ p = "claim" \/ (p = "written" /\ f) =>
       s.snapshot_id = w.seen.snapshot_id + 1 /\ s.row_id = w.seen.row_id
  /\ p = "written" /\ f => w.claim = w.seen.snapshot_id + 1
  /\ p = "committed" /\ f => IsTrue(s, h)

NoWork == {"idle", "committed", "aborted"}

WorkOK(p, w, h) ==
  /\ IF p \in NoWork THEN w = None ELSE w \in Work
  /\ w # None =>
       /\ w.seen.snapshot_id <= Len(h[CatalogOf[w.table]])
       /\ w.claim # 0 => /\ p \in {"written", "exiting"}
                         /\ w.claim = Len(h[CatalogOf[w.table]]) + 1

BackendOK(b, S, p, w, l, h) ==
  /\ p \in {"idle", "reserve", "reserve_again", "exiting"} => l = NoReservation
  /\ l.published => p \in {"written", "committed", "aborted"}
  /\ WorkOK(p, w, h)
  /\ l.ticket \in DOMAIN S =>
       /\ S[l.ticket].owner = b /\ ~S[l.ticket].committed
       /\ w # None => S[l.ticket].table = w.table
       /\ S[l.ticket].valid =>
            /\ SlotOfWork(S[l.ticket], p, w, l.published, h)
            /\ Turn(p, l.published) =>
                 \A j \in PendingSlots(S, Catalog(S, l.ticket)) : l.ticket <= j

TicketsOK ==
  /\ DOMAIN slots \subseteq 1 .. next_ticket - 1
  /\ Cardinality(DOMAIN slots) <= Capacity
  /\ \A b \in Backends : local[b].ticket < next_ticket

ClaimsAreUnique ==
  \A a, b \in Backends :
    /\ work[a] # None /\ work[b] # None
    /\ work[a].claim # 0 /\ work[b].claim # 0
    /\ CatalogOf[work[a].table] = CatalogOf[work[b].table]
    => a = b

IInv ==
  /\ TypeOK
  /\ TicketsOK
  /\ InOrder(slots)
  /\ AnchorsOK(slots, history)
  /\ OwnersOK(slots, local)
  /\ \A b \in Backends : BackendOK(b, slots, pc[b], work[b], local[b], history)
  /\ ClaimsAreUnique

-----------------------------------------------------------------------------
(* The first and the last of some tickets, and how many there are.         *)

(* A non-empty set of tickets has a least one.                             *)
LEMMA LeastTicket ==
  ASSUME NEW K \in SUBSET Nat, K # {}
  PROVE  \E i \in K : \A k \in K : i <= k
<1>. DEFINE R == OpToRel(<, Nat)
<1>1. IsWellFoundedOn(R, Nat)
  BY NatLessThanWellFounded, Zenon
<1>2. \A i, k \in Nat : k < i => <<k, i>> \in R
  BY DEF OpToRel
<1>. HIDE DEF R
<1>3. PICK i \in K : \A k \in K : ~(<<k, i>> \in R)
  BY <1>1, WFMin, Zenon
<1>4. ASSUME NEW k \in K
      PROVE  i <= k
  <2>1. k \in Nat /\ i \in Nat
    OBVIOUS
  <2>2. ~(k < i)
    BY <1>2, <1>3, <2>1, Zenon
  <2>. QED
    BY <2>1, <2>2, SMT
<1>. QED
  BY <1>4

(* A non-empty set of tickets below a bound has a greatest one.            *)
LEMMA GreatestTicket ==
  ASSUME NEW n \in Nat, NEW K \in SUBSET (1 .. n), K # {}
  PROVE  \E i \in K : \A j \in K : j <= i
<1>. DEFINE D == {n - k : k \in K}
<1>1. D \in SUBSET Nat /\ D # {}
  <2>1. \A k \in K : n - k \in Nat
    BY SMT
  <2>. QED
    BY <2>1, Zenon
<1>2. PICK d \in D : \A e \in D : d <= e
  BY <1>1, LeastTicket, Zenon
<1>3. PICK k \in K : d = n - k
  BY <1>2
<1>4. \A j \in K : j <= k
  <2>1. ASSUME NEW j \in K
        PROVE  j <= k
    <3>1. n - k <= n - j
      BY <1>2, <1>3, Zenon
    <3>. QED
      BY <3>1, SMT
  <2>. QED
    BY <2>1
<1>. QED
  BY <1>4

(* FirstOf is the least ticket of a set, so the head of the queue exists.  *)
LEMMA FirstOK ==
  ASSUME NEW K \in SUBSET Nat, K # {}
  PROVE  FirstOf(K) \in K /\ \A j \in K : FirstOf(K) <= j
<1>1. \E k \in K : \A j \in K : k <= j
  BY LeastTicket
<1>. QED
  BY <1>1 DEF FirstOf

(* LastOf is the greatest ticket of a set, so the tail of the queue        *)
(* exists.                                                                 *)
LEMMA LastOK ==
  ASSUME NEW n \in Nat, NEW K \in SUBSET (1 .. n), K # {}
  PROVE  LastOf(K) \in K /\ \A j \in K : j <= LastOf(K)
<1>1. \E k \in K : \A j \in K : j <= k
  BY GreatestTicket
<1>. QED
  BY <1>1 DEF LastOf

(* Tickets below a bound are finitely many, and fewer slots are no more.   *)
LEMMA FinitelyManyTickets ==
  ASSUME NEW n \in Nat, NEW D \in SUBSET (1 .. n)
  PROVE  /\ IsFiniteSet(D) /\ Cardinality(D) \in Nat
         /\ \A K \in SUBSET D :
              /\ IsFiniteSet(K) /\ Cardinality(K) \in Nat
              /\ Cardinality(K) <= Cardinality(D)
<1>1. IsFiniteSet(1 .. n)
  BY FS_Interval, SMT
<1>2. IsFiniteSet(D)
  BY <1>1, FS_Subset
<1>3. \A K \in SUBSET D : IsFiniteSet(K) /\ Cardinality(K) <= Cardinality(D)
  BY <1>2, FS_Subset
<1>4. \A K \in SUBSET D : Cardinality(K) \in Nat
  BY <1>3, FS_CardinalityType
<1>5. Cardinality(D) \in Nat
  BY <1>2, FS_CardinalityType
<1>. QED
  BY <1>2, <1>3, <1>4, <1>5

(* An entry of a history.                                                  *)
LEMMA EntryOK ==
  ASSUME NEW S, NEW h \in Seq(S), NEW i \in 1 .. Len(h)
  PROVE  h[i] \in S
  BY SMT

-----------------------------------------------------------------------------
(* What the critical sections do to the slots of others.                   *)

(* A slot is like itself, and like itself made invalid.                    *)
LEMMA LikeSlot ==
  ASSUME NEW s \in Slot
  PROVE  /\ Like(s, s)
         /\ Like([s EXCEPT !.valid = FALSE], s)
<1>1. [s EXCEPT !.valid = FALSE] \in Slot
  BY DEF Slot
<1>. QED
  BY <1>1 DEF Like, Slot

(* What two critical sections in a row do to the queue is again a          *)
(* shrinking.                                                              *)
LEMMA ShrinksTransitive ==
  ASSUME NEW S, NEW T, NEW U, Shrinks(S, T), Shrinks(T, U)
  PROVE  Shrinks(S, U)
  BY SMT DEF Shrinks, Like

(* Removing slots only shrinks the queue.                                  *)
LEMMA WithoutOK ==
  ASSUME NEW S, S \in [DOMAIN S -> Slot], NEW K
  PROVE  Shrinks(S, Without(S, K)) /\ DOMAIN Without(S, K) = DOMAIN S \ K
<1>1. DOMAIN Without(S, K) = DOMAIN S \ K
  BY DEF Without
<1>2. \A k \in DOMAIN S \ K : Without(S, K)[k] = S[k]
  BY DEF Without
<1>3. Without(S, K) \in [DOMAIN Without(S, K) -> Slot]
  BY <1>1, <1>2 DEF Without
<1>. QED
  BY <1>1, <1>2, <1>3, LikeSlot DEF Shrinks

(* Invalidating the slots from k on shrinks the queue, removes none, and   *)
(* leaves k invalid.                                                       *)
LEMMA InvalidateOK ==
  ASSUME NEW S, S \in [DOMAIN S -> Slot], NEW k
  PROVE  /\ Shrinks(S, InvalidateFrom(S, k))
         /\ DOMAIN InvalidateFrom(S, k) = DOMAIN S
         /\ k \in DOMAIN S /\ k \in Nat => ~InvalidateFrom(S, k)[k].valid
<1>. DEFINE T == InvalidateFrom(S, k)
<1>1. DOMAIN T = DOMAIN S
  BY DEF InvalidateFrom
<1>2. \A j \in DOMAIN S : T[j] = S[j] \/ T[j] = [S[j] EXCEPT !.valid = FALSE]
  BY DEF InvalidateFrom
<1>3. \A j \in DOMAIN S : Like(T[j], S[j])
  BY <1>2, LikeSlot
<1>4. T = [j \in DOMAIN T |-> T[j]]
  BY DEF InvalidateFrom
<1>5. ASSUME k \in DOMAIN S, k \in Nat
      PROVE  ~T[k].valid
  <2>1. T[k] = [S[k] EXCEPT !.valid = FALSE] /\ S[k] \in Slot
    BY <1>5, SMT DEF InvalidateFrom
  <2>. HIDE DEF T
  <2>. QED
    BY <2>1 DEF Slot
<1>. HIDE DEF T
<1>6. T \in [DOMAIN T -> Slot]
  BY <1>1, <1>3, <1>4 DEF Like
<1>7. Shrinks(S, T)
  BY <1>1, <1>3, <1>6 DEF Shrinks
<1>. QED
  BY <1>1, <1>5, <1>7 DEF T

(* Dropping the slots from k on shrinks the queue and removes k.           *)
LEMMA DropFromOK ==
  ASSUME NEW S, S \in [DOMAIN S -> Slot], NEW k
  PROVE  Shrinks(S, DropFrom(S, k)) /\ k \notin DOMAIN DropFrom(S, k)
<1>1. CASE k \in DOMAIN S
  <2>. DEFINE T == InvalidateFrom(S, k)
  <2>1. Shrinks(S, T) /\ T \in [DOMAIN T -> Slot]
    BY InvalidateOK DEF Shrinks
  <2>. HIDE DEF T
  <2>2. Shrinks(T, Without(T, {k})) /\ DOMAIN Without(T, {k}) = DOMAIN T \ {k}
    BY <2>1, WithoutOK
  <2>3. Shrinks(S, Without(T, {k}))
    BY <2>1, <2>2, ShrinksTransitive
  <2>. QED
    BY <1>1, <2>2, <2>3 DEF DropFrom, T
<1>2. CASE k \notin DOMAIN S
  <2>1. Shrinks(S, S)
    BY LikeSlot DEF Shrinks
  <2>. QED
    BY <1>2, <2>1 DEF DropFrom
<1>. QED
  BY <1>1, <1>2

(* What a reservation does before it adds its slot (reclaiming, dropping   *)
(* stale slots, making room) only shrinks the queue.                       *)
LEMMA MakingRoomOK ==
  ASSUME NEW S, S \in [DOMAIN S -> Slot], NEW t, NEW seen, NEW n
  PROVE  Shrinks(S, MakeRoom(DropStale(ReclaimInvalidSlots(S), t, seen), n))
<1>1. \A T : T \in [DOMAIN T -> Slot] => Shrinks(T, T)
  BY LikeSlot DEF Shrinks
<1>2. PICK T : T = ReclaimInvalidSlots(S) /\ Shrinks(S, T)
  BY WithoutOK DEF ReclaimInvalidSlots
<1>3. T \in [DOMAIN T -> Slot]
  BY <1>2 DEF Shrinks
<1>4. Shrinks(T, DropStale(T, t, seen))
  <2>1. DropStale(T, t, seen) \in {T, Without(T, ValidSlots(T, CatalogOf[t]))}
    BY DEF DropStale
  <2>. QED
    BY <1>1, <1>3, <2>1, WithoutOK
<1>5. PICK U : U = DropStale(T, t, seen) /\ Shrinks(T, U)
  BY <1>4
<1>6. U \in [DOMAIN U -> Slot]
  BY <1>5 DEF Shrinks
<1>7. Shrinks(U, MakeRoom(U, n))
  <2>1. \E K : MakeRoom(U, n) = U \/ MakeRoom(U, n) = Without(U, K)
    BY DEF MakeRoom
  <2>. QED
    BY <1>1, <1>6, <2>1, WithoutOK
<1>. QED
  BY <1>2, <1>5, <1>7, ShrinksTransitive

(* Invariants of the slots survive.                                        *)
LEMMA SlotsSurvive ==
  ASSUME NEW S, NEW T, NEW h, NEW l, Shrinks(S, T), S \in [DOMAIN S -> Slot],
         InOrder(S), AnchorsOK(S, h), OwnersOK(S, l)
  PROVE  InOrder(T) /\ AnchorsOK(T, h) /\ OwnersOK(T, l)
<1>1. \A k \in DOMAIN T : k \in DOMAIN S /\ Like(T[k], S[k])
  BY DEF Shrinks
<1>2. InOrder(T)
  BY <1>1, SMT DEF InOrder, Like, Follows, Catalog
<1>3. AnchorsOK(T, h)
  BY <1>1, SMT DEF AnchorsOK, Like, IsTrue
<1>4. OwnersOK(T, l)
  BY <1>1 DEF OwnersOK, Like
<1>. QED
  BY <1>2, <1>3, <1>4

(* So does what is claimed of a backend and its slot.                      *)
LEMMA BackendSurvives ==
  ASSUME NEW S, NEW T, NEW b, NEW p, NEW w, NEW l, NEW h, Shrinks(S, T),
         S \in [DOMAIN S -> Slot], BackendOK(b, S, p, w, l, h)
  PROVE  BackendOK(b, T, p, w, l, h)
<1>1. \A k \in DOMAIN T : k \in DOMAIN S /\ Like(T[k], S[k])
  BY DEF Shrinks
<1>2. \A c : PendingSlots(T, c) \subseteq PendingSlots(S, c)
  BY <1>1 DEF PendingSlots, ValidSlots, Catalog, Like
<1>3. ASSUME l.ticket \in DOMAIN T, T[l.ticket].valid
      PROVE  /\ SlotOfWork(T[l.ticket], p, w, l.published, h)
             /\ Turn(p, l.published) =>
                  \A j \in PendingSlots(T, Catalog(T, l.ticket)) : l.ticket <= j
  <2>1. /\ l.ticket \in DOMAIN S /\ S[l.ticket].valid
        /\ Like(T[l.ticket], S[l.ticket])
        /\ Catalog(T, l.ticket) = Catalog(S, l.ticket)
    BY <1>1, <1>3 DEF Like, Catalog
  <2>2. SlotOfWork(S[l.ticket], p, w, l.published, h)
    BY <2>1 DEF BackendOK
  <2>3. SlotOfWork(T[l.ticket], p, w, l.published, h)
    BY <2>1, <2>2 DEF SlotOfWork, Like, IsTrue
  <2>. QED
    BY <1>2, <2>1, <2>3 DEF BackendOK
<1>. QED
  BY <1>1, <1>3 DEF BackendOK, Like

-----------------------------------------------------------------------------
(* The steps of one backend.                                               *)

Locals == [ticket : 0 .. MaxTicket, published : BOOLEAN]

(* b goes to p with the work w and the reservation l.                      *)
Becomes(b, p, w, l) ==
  /\ pc' = [pc EXCEPT ![b] = p]
  /\ work' = [work EXCEPT ![b] = w]
  /\ local' = [local EXCEPT ![b] = l]
  /\ suspects' \in [Backends -> SUBSET (1 .. MaxTicket)]

(* It claims no snapshot in this step.                                     *)
ClaimsNothing(b, w) ==
  \/ w = None
  \/ w.claim = 0
  \/ work[b] # None /\ w.claim = work[b].claim /\ w.table = work[b].table

(* How the invariant is shown of a step of backend b: its parts are shown  *)
(* of the new slots, of b in its new place and of the others where they    *)
(* are.                                                                    *)
LEMMA Frame ==
  ASSUME IInv, NEW b \in Backends, NEW p \in Places, NEW w \in Work \cup {None},
         NEW l \in Locals, Becomes(b, p, w, l), history' = history,
         next_ticket' \in next_ticket .. MaxTicket, l.ticket < next_ticket',
         slots' \in [DOMAIN slots' -> Slot],
         DOMAIN slots' \subseteq 1 .. next_ticket' - 1,
         Cardinality(DOMAIN slots') <= Capacity,
         InOrder(slots'), AnchorsOK(slots', history), OwnersOK(slots', local'),
         \A a \in Backends \ {b} :
           BackendOK(a, slots', pc[a], work[a], local[a], history),
         BackendOK(b, slots', p, w, l, history),
         ClaimsAreUnique'
  PROVE  IInv'
<1>1. /\ pc \in [Backends -> Places] /\ work \in [Backends -> Work \cup {None}]
      /\ local \in [Backends -> Locals] /\ next_ticket \in 1 .. MaxTicket
      /\ MaxTicket \in Nat
  BY QueueConstants DEF IInv, TypeOK, Locals
<1>2. /\ next_ticket' \in 1 .. MaxTicket
      /\ pc' \in [Backends -> Places] /\ work' \in [Backends -> Work \cup {None}]
      /\ local' \in [Backends -> Locals]
  BY <1>1, SMT DEF Becomes
<1>3. TypeOK'
  BY <1>2 DEF IInv, TypeOK, Locals, Becomes
<1>4. \A a \in Backends : local'[a].ticket < next_ticket'
  <2>1. \A a \in Backends : local[a].ticket \in Nat /\ local[a].ticket < next_ticket
    BY <1>1, SMT DEF IInv, TicketsOK, Locals
  <2>2. \A a \in Backends : local[a].ticket < next_ticket'
    BY <1>1, <2>1, SMT
  <2>3. \A a \in Backends : local'[a] = IF a = b THEN l ELSE local[a]
    BY <1>1 DEF Becomes
  <2>. QED
    BY <2>2, <2>3
<1>5. TicketsOK'
  BY <1>4 DEF TicketsOK
<1>6. ASSUME NEW a \in Backends
      PROVE  BackendOK(a, slots', pc'[a], work'[a], local'[a], history')
  <2>1. CASE a = b
    BY <1>1, <2>1 DEF Becomes
  <2>2. CASE a # b
    BY <1>1, <2>2 DEF Becomes
  <2>. QED
    BY <2>1, <2>2
<1>. QED
  BY <1>3, <1>5, <1>6 DEF IInv

(* A backend that claims nothing new leaves claims unique.                 *)
LEMMA ClaimsKept ==
  ASSUME IInv, NEW b \in Backends, NEW w, ClaimsNothing(b, w),
         work' = [work EXCEPT ![b] = w]
  PROVE  ClaimsAreUnique'
<1>1. \A a \in Backends : work'[a] = IF a = b THEN w ELSE work[a]
  BY DEF IInv, TypeOK
<1>2. \A a \in Backends :
        work'[a] # None /\ work'[a].claim # 0 =>
          /\ work[a] # None /\ work[a].claim # 0
          /\ work[a].table = work'[a].table
  BY <1>1 DEF ClaimsNothing
<1>. QED
  BY <1>2, SMT DEF ClaimsAreUnique, IInv

(* The tickets in use are finitely many.                                   *)
LEMMA TicketsAreFinite ==
  ASSUME IInv
  PROVE  /\ IsFiniteSet(DOMAIN slots) /\ DOMAIN slots \subseteq Nat
         /\ Cardinality(DOMAIN slots) \in Nat
         /\ \A K \in SUBSET DOMAIN slots :
              /\ IsFiniteSet(K) /\ Cardinality(K) \in Nat
              /\ Cardinality(K) <= Cardinality(DOMAIN slots)
<1>1. next_ticket - 1 \in Nat /\ DOMAIN slots \subseteq 1 .. next_ticket - 1
  BY QueueConstants, SMT DEF IInv, TypeOK
<1>2. /\ IsFiniteSet(DOMAIN slots) /\ Cardinality(DOMAIN slots) \in Nat
      /\ \A K \in SUBSET DOMAIN slots :
           /\ IsFiniteSet(K) /\ Cardinality(K) \in Nat
           /\ Cardinality(K) <= Cardinality(DOMAIN slots)
  BY <1>1, FinitelyManyTickets
<1>. QED
  BY <1>1, <1>2, SMT

(* A step that does to the slots what others may do to them.               *)
LEMMA ShrinkFrame ==
  ASSUME IInv,
         NEW b \in Backends, NEW p \in Places, NEW w \in Work \cup {None},
         NEW l \in Locals, Becomes(b, p, w, l), history' = history,
         next_ticket' = next_ticket, l.ticket < next_ticket,
         Shrinks(slots, slots'), OwnersOK(slots', local'),
         BackendOK(b, slots', p, w, l, history), ClaimsNothing(b, w)
  PROVE  IInv'
<1>1. /\ slots \in [DOMAIN slots -> Slot] /\ next_ticket \in 1 .. MaxTicket
      /\ MaxTicket \in Nat
  BY QueueConstants DEF IInv, TypeOK
<1>2. slots' \in [DOMAIN slots' -> Slot] /\ DOMAIN slots' \subseteq DOMAIN slots
  BY DEF Shrinks
<1>3. InOrder(slots') /\ AnchorsOK(slots', history)
  BY <1>1, SlotsSurvive DEF IInv
<1>4. \A a \in Backends : BackendOK(a, slots', pc[a], work[a], local[a], history)
  BY <1>1, BackendSurvives DEF IInv
<1>5. /\ DOMAIN slots' \subseteq 1 .. next_ticket' - 1
      /\ next_ticket' \in next_ticket .. MaxTicket
  BY <1>1, <1>2, SMT DEF IInv, TicketsOK
<1>6. Cardinality(DOMAIN slots') <= Capacity
  <2>1. /\ Cardinality(DOMAIN slots') <= Cardinality(DOMAIN slots)
        /\ Cardinality(DOMAIN slots') \in Nat /\ Cardinality(DOMAIN slots) \in Nat
    BY <1>2, TicketsAreFinite
  <2>. QED
    BY <2>1, QueueConstants, SMT DEF IInv, TicketsOK
<1>7. ClaimsAreUnique'
  BY ClaimsKept DEF Becomes
<1>. QED
  BY <1>2, <1>3, <1>4, <1>5, <1>6, <1>7, Frame

(* The same, and the reservation stays.                                    *)
LEMMA KeepFrame ==
  ASSUME IInv,
         NEW b \in Backends, NEW p \in Places, NEW w \in Work \cup {None},
         Becomes(b, p, w, local[b]), history' = history,
         next_ticket' = next_ticket, Shrinks(slots, slots'),
         BackendOK(b, slots', p, w, local[b], history), ClaimsNothing(b, w)
  PROVE  IInv'
<1>1. /\ local \in [Backends -> Locals] /\ local[b] \in Locals
      /\ local[b].ticket < next_ticket /\ slots \in [DOMAIN slots -> Slot]
  BY DEF IInv, TypeOK, Locals, TicketsOK
<1>2. local' = local
  BY <1>1 DEF Becomes
<1>3. OwnersOK(slots', local')
  BY <1>1, <1>2, SlotsSurvive DEF IInv
<1>. QED
  BY <1>1, <1>3, ShrinkFrame

(* What is known of a backend.                                             *)
LEMMA Mine ==
  ASSUME IInv, NEW b \in Backends
  PROVE  /\ BackendOK(b, slots, pc[b], work[b], local[b], history)
         /\ pc[b] \in Places /\ work[b] \in Work \cup {None}
         /\ local[b] \in Locals /\ suspects[b] \subseteq 1 .. MaxTicket
         /\ local[b].ticket \in Nat /\ local[b].ticket < next_ticket
         /\ slots \in [DOMAIN slots -> Slot] /\ Shrinks(slots, slots)
         /\ pc[b] \notin NoWork => work[b] \in Work
         /\ ClaimsNothing(b, work[b]) /\ ClaimsNothing(b, None)
<1>1. Shrinks(slots, slots)
  BY LikeSlot DEF Shrinks, IInv, TypeOK
<1>2. local[b] \in Locals /\ local[b].ticket \in Nat /\ local[b].ticket < next_ticket
  BY QueueConstants, SMT DEF IInv, TypeOK, TicketsOK, Locals
<1>. QED
  BY <1>1, <1>2 DEF IInv, TypeOK, BackendOK, WorkOK, ClaimsNothing

(* A step that leaves a backend's variables alone writes back what is      *)
(* there, which is the form that Frame takes.                              *)
LEMMA Unchanging ==
  ASSUME IInv, NEW b \in Backends
  PROVE  /\ pc' = pc => pc' = [pc EXCEPT ![b] = pc[b]]
         /\ work' = work => work' = [work EXCEPT ![b] = work[b]]
         /\ local' = local => local' = [local EXCEPT ![b] = local[b]]
         /\ suspects' = suspects => suspects' \in [Backends -> SUBSET (1 .. MaxTicket)]
  BY DEF IInv, TypeOK

(* A backend that gives its reservation up, or finds that it is lost.      *)
LEMMA LosesItsSlot ==
  ASSUME IInv, NEW b \in Backends, NEW p \in {"prewrite", "publish"},
         pc[b] \in {"row_wait", "row_timeout", "publication_wait", "publication_timeout"},
         pc' = [pc EXCEPT ![b] = p], Shrinks(slots, slots'),
         local[b].ticket \in DOMAIN slots' => ~slots'[local[b].ticket].valid,
         UNCHANGED <<next_ticket, history, work, local, suspects>>
  PROVE  IInv'
<1>1. p \in Places /\ pc[b] \notin NoWork
  BY DEF Places, NoWork
<1>2. Becomes(b, p, work[b], local[b])
  BY Unchanging DEF Becomes
<1>3. BackendOK(b, slots', pc[b], work[b], local[b], history)
  BY Mine, BackendSurvives
<1>4. BackendOK(b, slots', p, work[b], local[b], history)
  BY <1>3 DEF BackendOK, WorkOK, NoWork
<1>. QED
  BY <1>1, <1>2, <1>4, Mine, KeepFrame

(* A step of a wait that goes on.                                          *)
LEMMA WaitsOn ==
  ASSUME IInv, NEW b \in Backends, Shrinks(slots, slots'),
         suspects' \in [Backends -> SUBSET (1 .. MaxTicket)],
         UNCHANGED <<next_ticket, history, pc, work, local>>
  PROVE  IInv'
<1>1. Becomes(b, pc[b], work[b], local[b])
  BY Unchanging DEF Becomes
<1>2. BackendOK(b, slots', pc[b], work[b], local[b], history)
  BY Mine, BackendSurvives
<1>. QED
  BY <1>1, <1>2, Mine, KeepFrame

(* A wait that expires.                                                    *)
LEMMA TimesOut ==
  ASSUME IInv,
         NEW b \in Backends, Waiting(b), pc' = [pc EXCEPT ![b] = TimeoutOf(b)],
         suspects' \in [Backends -> SUBSET (1 .. MaxTicket)],
         UNCHANGED <<slots, next_ticket, history, work, local>>
  PROVE  IInv'
<1>1. \/ pc[b] = "row_wait" /\ TimeoutOf(b) = "row_timeout"
      \/ pc[b] = "publication_wait" /\ TimeoutOf(b) = "publication_timeout"
  BY DEF Waiting, TimeoutOf
<1>2. TimeoutOf(b) \in Places /\ Becomes(b, TimeoutOf(b), work[b], local[b])
  BY <1>1, Unchanging DEF Becomes, Places
<1>3. BackendOK(b, slots', TimeoutOf(b), work[b], local[b], history)
  BY <1>1, Mine DEF BackendOK, WorkOK, NoWork, SlotOfWork, Turn
<1>. QED
  BY <1>2, <1>3, Mine, KeepFrame

(* The slot of b after a critical section that did not find b ready.       *)
LEMMA BlockedSlotOK ==
  ASSUME IInv, NEW b \in Backends, WaitStep(b)
  PROVE  Shrinks(slots, [slots EXCEPT ![local[b].ticket] = BlockedSlot(b)])
<1>. DEFINE k == local[b].ticket
            j == FindBlocker(slots, k, PublicationWait(b))
            T == [slots EXCEPT ![k] = BlockedSlot(b)]
<1>1. k \in DOMAIN slots /\ slots[k] \in Slot /\ slots \in [DOMAIN slots -> Slot]
  BY Mine DEF WaitStep, HasValidSlot
<1>2. j \in Nat
  <2>1. Blockers(slots, k, PublicationWait(b)) \in SUBSET Nat
    BY TicketsAreFinite DEF Blockers, PendingSlots, ValidSlots
  <2>. QED
    BY <2>1, FirstOK DEF FindBlocker
<1>. HIDE DEF j
<1>3. Like([slots[k] EXCEPT !.blocker = j, !.deadline = "running"], slots[k])
  <2>1. [slots[k] EXCEPT !.blocker = j, !.deadline = "running"] \in Slot
    BY <1>1, <1>2 DEF Slot
  <2>. QED
    BY <1>1, <2>1 DEF Like, Slot
<1>4. Like(BlockedSlot(b), slots[k])
  BY <1>1, <1>3, LikeSlot DEF BlockedSlot, j
<1>5. /\ DOMAIN T = DOMAIN slots
      /\ \A i \in DOMAIN slots : T[i] = IF i = k THEN BlockedSlot(b) ELSE slots[i]
      /\ T \in [DOMAIN slots -> Slot]
  BY <1>1, <1>4 DEF Like
<1>. HIDE DEF T
<1>6. \A i \in DOMAIN slots : Like(T[i], slots[i])
  BY <1>1, <1>4, <1>5, LikeSlot
<1>7. Shrinks(slots, T)
  BY <1>5, <1>6 DEF Shrinks
<1>. QED
  BY <1>7 DEF T

(* What ends a wait without progress (its budget, its deadline, an owner   *)
(* that is suspected and reclaimed, abandoning) only shrinks the queue.    *)
LEMMA GiveUpOK ==
  ASSUME IInv, NEW b \in Backends, GiveUpStep(b)
  PROVE  IInv'
<1>1. CASE WaitWithoutBudget(b) \/ AbandonReservation(b)
  <2>1. /\ pc[b] \in {"row_wait", "row_timeout", "publication_wait", "publication_timeout"}
        /\ slots' = DropFrom(slots, local[b].ticket)
        /\ pc' = [pc EXCEPT ![b] = AfterFailedWait(b)]
        /\ UNCHANGED <<next_ticket, history, work, local, suspects>>
    BY <1>1 DEF WaitWithoutBudget, AbandonReservation, Waiting
  <2>2. AfterFailedWait(b) \in {"prewrite", "publish"}
    BY DEF AfterFailedWait
  <2>3. Shrinks(slots, slots') /\ local[b].ticket \notin DOMAIN slots'
    BY <2>1, Mine, DropFromOK
  <2>. QED
    BY <2>1, <2>2, <2>3, LosesItsSlot
<1>2. CASE WaitExpires(b)
  BY <1>2, TimesOut, Unchanging DEF WaitExpires, WaitStep
<1>3. CASE SuspectBlocker(b)
  <2>. DEFINE k == local[b].ticket
              j == FindBlocker(slots, k, PublicationWait(b))
  <2>1. /\ WaitStep(b) /\ j # 0 /\ slots' = [slots EXCEPT ![k] = BlockedSlot(b)]
        /\ suspects' = [suspects EXCEPT ![b] = {j}]
        /\ UNCHANGED <<next_ticket, history, pc, work, local>>
    BY <1>3 DEF SuspectBlocker
  <2>2. j \in 1 .. MaxTicket
    <3>1. Blockers(slots, k, PublicationWait(b)) \in SUBSET DOMAIN slots
      BY DEF Blockers, PendingSlots, ValidSlots
    <3>2. j \in DOMAIN slots
      BY <2>1, <3>1, TicketsAreFinite, FirstOK DEF FindBlocker
    <3>. QED
      BY <3>2, QueueConstants, SMT DEF IInv, TypeOK
  <2>3. suspects' \in [Backends -> SUBSET (1 .. MaxTicket)]
    BY <2>1, <2>2 DEF IInv, TypeOK
  <2>. QED
    BY <2>1, <2>3, BlockedSlotOK, WaitsOn
<1>4. CASE ReclaimInactiveOwner(b)
  <2>1. PICK k \in suspects[b] :
          /\ suspects' = [suspects EXCEPT ![b] = @ \ {k}]
          /\ IF k \in DOMAIN slots /\ ~OwnerTransactionIsActive(k)
               THEN slots' = DropFrom(slots, k) /\ UNCHANGED pc
               ELSE /\ UNCHANGED slots
                    /\ pc' = [pc EXCEPT ![b] =
                         IF Waiting(b) /\ local[b].ticket \in DOMAIN slots
                              /\ slots[local[b].ticket].deadline = "expired"
                           THEN TimeoutOf(b) ELSE @]
          /\ UNCHANGED <<next_ticket, history, work, local>>
    BY <1>4 DEF ReclaimInactiveOwner
  <2>2. suspects' \in [Backends -> SUBSET (1 .. MaxTicket)]
    BY <2>1 DEF IInv, TypeOK
  <2>3. CASE slots' = DropFrom(slots, k) /\ UNCHANGED pc
    BY <2>1, <2>2, <2>3, Mine, DropFromOK, WaitsOn
  <2>4. CASE UNCHANGED slots /\ Waiting(b) /\ pc' = [pc EXCEPT ![b] = TimeoutOf(b)]
    BY <2>1, <2>2, <2>4, TimesOut
  <2>5. CASE UNCHANGED slots /\ pc' = [pc EXCEPT ![b] = pc[b]]
    <3>1. pc' = pc
      BY <2>5 DEF IInv, TypeOK
    <3>. QED
      BY <2>1, <2>2, <2>5, <3>1, Mine, WaitsOn
  <2>. QED
    BY <2>1, <2>3, <2>4, <2>5
<1>. QED
  BY <1>1, <1>2, <1>3, <1>4 DEF GiveUpStep

(* A backend changes its own slot to t: the others do not notice.          *)
LEMMA OwnSlot ==
  ASSUME IInv, NEW b \in Backends, NEW t \in Slot, HasValidSlot(b),
         t.owner = b, t.table = slots[local[b].ticket].table,
         NEW T, T = [slots EXCEPT ![local[b].ticket] = t]
  PROVE  /\ DOMAIN T = DOMAIN slots /\ T \in [DOMAIN T -> Slot]
         /\ \A i \in DOMAIN T : T[i] = IF i = local[b].ticket THEN t ELSE slots[i]
         /\ \A c : PendingSlots(T, c) \subseteq PendingSlots(slots, c)
         /\ \A a \in Backends \ {b} :
              BackendOK(a, T, pc[a], work[a], local[a], history)
         /\ ~t.committed => AnchorsOK(T, history) /\ OwnersOK(T, local)
<1>. DEFINE k == local[b].ticket
<1>1. /\ k \in DOMAIN slots /\ slots[k] \in Slot /\ slots \in [DOMAIN slots -> Slot]
      /\ slots[k].owner = b /\ slots[k].valid /\ ~slots[k].committed
  BY Mine DEF HasValidSlot, BackendOK
<1>2. /\ DOMAIN T = DOMAIN slots /\ T \in [DOMAIN T -> Slot]
      /\ \A i \in DOMAIN T : T[i] = IF i = k THEN t ELSE slots[i]
  BY <1>1
<1>3. \A c : PendingSlots(T, c) \subseteq PendingSlots(slots, c)
  BY <1>1, <1>2 DEF PendingSlots, ValidSlots, Catalog
<1>4. ASSUME NEW a \in Backends \ {b}
      PROVE  BackendOK(a, T, pc[a], work[a], local[a], history)
  <2>1. BackendOK(a, slots, pc[a], work[a], local[a], history)
    BY Mine
  <2>2. local[a].ticket \in DOMAIN T =>
          /\ local[a].ticket \in DOMAIN slots
          /\ T[local[a].ticket] = slots[local[a].ticket]
          /\ Catalog(T, local[a].ticket) = Catalog(slots, local[a].ticket)
    BY <1>1, <1>2, <2>1 DEF BackendOK, Catalog
  <2>. QED
    BY <1>3, <2>1, <2>2 DEF BackendOK
<1>5. ASSUME ~t.committed
      PROVE  AnchorsOK(T, history) /\ OwnersOK(T, local)
  <2>1. AnchorsOK(T, history)
    BY <1>2, <1>5 DEF AnchorsOK, IInv
  <2>2. OwnersOK(T, local)
    BY <1>1, <1>2, <1>5 DEF OwnersOK, IInv
  <2>. QED
    BY <2>1, <2>2
<1>. QED
  BY <1>2, <1>3, <1>4, <1>5

(* The row range of the slot k continues that of its predecessor: every    *)
(* earlier range of the table ends before it, and no later one has begun.  *)
LEMMA RowRangeInOrder ==
  ASSUME IInv, NEW b \in Backends, WaitStep(b), pc[b] = "row_wait",
         Predecessors(local[b].ticket) # {},
         HasRange(slots, Predecessor(local[b].ticket)),
         NEW t \in Slot,
         t = [slots[local[b].ticket] EXCEPT
                !.row_id = RangeEnd(slots, Predecessor(local[b].ticket)),
                !.row_assigned = TRUE]
  PROVE  InOrder([slots EXCEPT ![local[b].ticket] = t])
<1>. DEFINE k == local[b].ticket
            P == Predecessor(k)
            T == [slots EXCEPT ![k] = t]
<1>1. /\ k \in DOMAIN slots /\ slots[k] \in Slot /\ slots \in [DOMAIN slots -> Slot]
      /\ slots[k].valid /\ ~slots[k].row_assigned /\ DOMAIN slots \subseteq Nat
      /\ InOrder(slots)
  <2>1. k \in DOMAIN slots /\ slots[k].valid
    BY DEF WaitStep, HasValidSlot
  <2>2. BackendOK(b, slots, pc[b], work[b], local[b], history)
    BY Mine
  <2>3. ~slots[k].row_assigned
    BY <2>1, <2>2 DEF BackendOK, SlotOfWork
  <2>4. slots \in [DOMAIN slots -> Slot] /\ DOMAIN slots \subseteq Nat
    BY Mine, TicketsAreFinite
  <2>. QED
    BY <2>1, <2>3, <2>4 DEF IInv
<1>2. /\ P \in DOMAIN slots /\ slots[P].valid /\ P < k
      /\ Catalog(slots, P) = Catalog(slots, k)
      /\ slots[P].table = slots[k].table
      /\ \A j \in Predecessors(k) : j <= P
  <2>1. next_ticket - 1 \in Nat /\ DOMAIN slots \subseteq 1 .. next_ticket - 1
    BY QueueConstants, SMT DEF IInv, TypeOK
  <2>2. Predecessors(k) \in SUBSET (1 .. next_ticket - 1)
    BY <2>1 DEF Predecessors, OfTable, PriorSlots, ValidSlots
  <2>3. P \in Predecessors(k) /\ \A j \in Predecessors(k) : j <= P
    BY <2>1, <2>2, LastOK DEF Predecessor
  <2>. QED
    BY <2>3 DEF Predecessors, OfTable, PriorSlots, ValidSlots
<1>3. /\ t.snapshot_id = slots[k].snapshot_id /\ t.valid = slots[k].valid
      /\ t.table = slots[k].table /\ t.row_assigned
      /\ t.row_id = slots[P].row_id + slots[P].row_count
      /\ t.row_count = slots[k].row_count
  BY <1>1 DEF Slot, RangeEnd
<1>4. /\ DOMAIN T = DOMAIN slots
      /\ \A i \in DOMAIN T : T[i] = IF i = k THEN t ELSE slots[i]
      /\ \A i \in DOMAIN T : Catalog(T, i) = Catalog(slots, i) /\ T[i].valid = slots[i].valid
  BY <1>1, <1>3 DEF Catalog
<1>. HIDE DEF T, P
<1>5. ASSUME NEW i \in DOMAIN T, NEW j \in DOMAIN T, T[i].valid, T[j].valid, i < j,
             Catalog(T, i) = Catalog(T, j)
      PROVE  Follows(T[j], T[i])
  <2>1. /\ slots[i].valid /\ slots[j].valid /\ Catalog(slots, i) = Catalog(slots, j)
        /\ slots[i] \in Slot /\ slots[j] \in Slot /\ slots[P] \in Slot
        /\ i \in Nat /\ j \in Nat /\ P \in Nat /\ k \in Nat
    BY <1>1, <1>2, <1>4, <1>5
  <2>2. Follows(slots[j], slots[i])
    BY <1>1, <1>4, <1>5, <2>1 DEF InOrder
  <2>3. CASE i = k
    <3>1. j # k /\ T[j] = slots[j] /\ T[i] = t
      BY <1>4, <1>5, <2>1, <2>3, SMT
    <3>2. ~(slots[i].table = slots[j].table /\ slots[j].row_assigned)
      BY <1>1, <2>2, <2>3 DEF Follows
    <3>. QED
      BY <1>3, <2>2, <2>3, <3>1, <3>2, SMT DEF Follows
  <2>4. CASE j = k /\ slots[i].table = slots[k].table
    <3>1. i # k /\ T[i] = slots[i] /\ T[j] = t
      BY <1>4, <1>5, <2>1, <2>4, SMT
    <3>2. i \in Predecessors(k)
      BY <1>4, <1>5, <2>1, <2>4 DEF Predecessors, OfTable, PriorSlots, ValidSlots
    <3>3. i <= P
      BY <1>2, <3>2
    <3>4. slots[P].row_assigned /\ slots[P].row_count_known
      BY DEF HasRange, P
    <3>5. slots[i].row_assigned /\ slots[i].row_count_known
          /\ slots[i].row_id + slots[i].row_count <= t.row_id
      <4>1. CASE i = P
        BY <1>3, <2>1, <3>4, <4>1, SMT DEF Slot
      <4>2. CASE i < P
        <5>1. Follows(slots[P], slots[i])
          BY <1>1, <1>2, <1>4, <2>1, <2>4, <4>2 DEF InOrder
        <5>2. /\ slots[i].row_id \in Nat /\ slots[i].row_count \in Nat
              /\ slots[P].row_id \in Nat /\ slots[P].row_count \in Nat
          BY <2>1 DEF Slot
        <5>3. /\ slots[i].row_assigned /\ slots[i].row_count_known
              /\ slots[i].row_id + slots[i].row_count <= slots[P].row_id
          BY <1>2, <2>4, <3>4, <5>1 DEF Follows
        <5>. QED
          BY <1>3, <5>2, <5>3, SMT
      <4>. QED
        BY <2>1, <3>3, <4>1, <4>2, SMT
    <3>. QED
      BY <1>3, <2>2, <2>4, <3>1, <3>5 DEF Follows
  <2>5. CASE j = k /\ slots[i].table # slots[k].table
    <3>1. i # k /\ T[i] = slots[i] /\ T[j] = t
      BY <1>4, <1>5, <2>1, <2>5
    <3>. QED
      BY <1>3, <2>2, <2>5, <3>1 DEF Follows
  <2>6. CASE i # k /\ j # k
    BY <1>4, <2>2, <2>6
  <2>. QED
    BY <2>3, <2>4, <2>5, <2>6
<1>6. InOrder(T)
  BY <1>5 DEF InOrder
<1>. QED
  BY <1>6 DEF T

(* A backend changes its own slot and stays pending.                       *)
LEMMA OwnSlotFrame ==
  ASSUME IInv, NEW b \in Backends, NEW p \in Places, NEW w \in Work \cup {None},
         NEW t \in Slot, HasValidSlot(b), t.owner = b, ~t.committed,
         t.table = slots[local[b].ticket].table,
         slots' = [slots EXCEPT ![local[b].ticket] = t], InOrder(slots'),
         Becomes(b, p, w, local[b]), next_ticket' = next_ticket,
         history' = history, ClaimsNothing(b, w),
         BackendOK(b, slots', p, w, local[b], history)
  PROVE  IInv'
<1>1. /\ DOMAIN slots' = DOMAIN slots /\ slots' \in [DOMAIN slots' -> Slot]
      /\ AnchorsOK(slots', history) /\ OwnersOK(slots', local)
      /\ \A a \in Backends \ {b} :
           BackendOK(a, slots', pc[a], work[a], local[a], history)
  <2>1. PICK T : T = [slots EXCEPT ![local[b].ticket] = t] /\ T = slots'
    OBVIOUS
  <2>2. /\ DOMAIN T = DOMAIN slots /\ T \in [DOMAIN T -> Slot]
        /\ AnchorsOK(T, history) /\ OwnersOK(T, local)
        /\ \A a \in Backends \ {b} :
             BackendOK(a, T, pc[a], work[a], local[a], history)
    BY <2>1, OwnSlot, ZenonT(30)
  <2>. QED
    BY <2>1, <2>2, ZenonT(30)
<1>2. local[b] \in Locals /\ local[b].ticket < next_ticket'
  BY Mine
<1>3. local' = local
  BY DEF Becomes, IInv, TypeOK
<1>4. /\ next_ticket' \in next_ticket .. MaxTicket
      /\ DOMAIN slots' \subseteq 1 .. next_ticket' - 1
      /\ Cardinality(DOMAIN slots') <= Capacity
  BY <1>1, QueueConstants, SMT DEF IInv, TypeOK, TicketsOK
<1>5. ClaimsAreUnique'
  BY ClaimsKept DEF Becomes
<1>. QED
  BY <1>1, <1>2, <1>3, <1>4, <1>5, Frame

(* A slot whose predecessors are known gets its row range, which begins    *)
(* where theirs end.                                                       *)
LEMMA RowRangeIsReadyOK ==
  ASSUME IInv, NEW b \in Backends, RowRangeIsReady(b)
  PROVE  IInv'
<1>. DEFINE k == local[b].ticket
            t == [slots[k] EXCEPT !.row_id = RangeEnd(slots, Predecessor(k)),
                                  !.row_assigned = TRUE]
<1>1. /\ WaitStep(b) /\ pc[b] = "row_wait" /\ IsReady(b)
      /\ pc' = [pc EXCEPT ![b] = "row_ready"]
      /\ slots' = IF Predecessors(k) = {} THEN slots ELSE [slots EXCEPT ![k] = t]
      /\ UNCHANGED <<next_ticket, history, work, local, suspects>>
  BY DEF RowRangeIsReady
<1>2. HasValidSlot(b) /\ k \in DOMAIN slots /\ slots[k] \in Slot /\ slots[k].valid
      /\ slots[k].owner = b /\ ~slots[k].committed /\ ~slots[k].row_assigned
  BY <1>1, Mine, SMT DEF WaitStep, HasValidSlot, BackendOK, SlotOfWork
<1>3. RangeIsFree(k)
  BY <1>1 DEF IsReady, PublicationWait
<1>4. Predecessors(k) # {} /\ HasRange(slots, Predecessor(k))
  BY <1>2, <1>3 DEF RangeIsFree
<1>5. RangeEnd(slots, Predecessor(k)) \in Nat
  <2>1. next_ticket - 1 \in Nat /\ DOMAIN slots \subseteq 1 .. next_ticket - 1
    BY QueueConstants, SMT DEF IInv, TypeOK
  <2>2. Predecessors(k) \in SUBSET DOMAIN slots
    BY DEF Predecessors, OfTable, PriorSlots, ValidSlots
  <2>3. Predecessor(k) \in DOMAIN slots
    BY <1>4, <2>1, <2>2, LastOK DEF Predecessor
  <2>4. slots[Predecessor(k)] \in Slot
    BY <2>3, Mine
  <2>. QED
    BY <2>4, SMT DEF RangeEnd, Slot
<1>6. /\ t \in Slot /\ t.owner = b /\ ~t.committed /\ t.table = slots[k].table
      /\ t.row_count = slots[k].row_count /\ t.row_count_known = slots[k].row_count_known
  BY <1>2, <1>5 DEF Slot
<1>7. slots' = [slots EXCEPT ![k] = t]
  BY <1>1, <1>4
<1>8. InOrder([slots EXCEPT ![k] = t])
  BY <1>1, <1>4, <1>6, RowRangeInOrder
<1>. HIDE DEF t
<1>9. InOrder(slots')
  BY <1>7, <1>8
<1>10. Becomes(b, "row_ready", work[b], local[b]) /\ "row_ready" \in Places
  BY <1>1, Unchanging DEF Becomes, Places
<1>11. BackendOK(b, slots', "row_ready", work[b], local[b], history)
  <2>1. slots'[k] = t
    BY <1>2, <1>7
  <2>2. BackendOK(b, slots, "row_wait", work[b], local[b], history)
    BY <1>1, Mine
  <2>3. SlotOfWork(t, "row_ready", work[b], local[b].published, history)
    BY <1>2, <1>6, <2>2 DEF BackendOK, SlotOfWork
  <2>. QED
    BY <1>2, <1>6, <2>1, <2>2, <2>3 DEF BackendOK, WorkOK, NoWork, Turn
<1>. QED
  BY <1>1, <1>2, <1>6, <1>7, <1>9, <1>10, <1>11, Mine, OwnSlotFrame

(* A backend whose turn it is goes on without changing the order.          *)
LEMMA PublicationIsReadyOK ==
  ASSUME IInv, NEW b \in Backends, PublicationIsReady(b)
  PROVE  IInv'
<1>. DEFINE k == local[b].ticket
            w == [work[b] EXCEPT !.reservation_valid = TRUE]
<1>1. /\ WaitStep(b) /\ pc[b] = "publication_wait" /\ IsReady(b)
      /\ pc' = [pc EXCEPT ![b] = "publish"] /\ work' = [work EXCEPT ![b] = w]
      /\ UNCHANGED <<slots, next_ticket, history, local, suspects>>
  BY DEF PublicationIsReady, PublicationWait
<1>2. /\ k \in DOMAIN slots /\ slots[k].valid /\ work[b] \in Work
      /\ BackendOK(b, slots, "publication_wait", work[b], local[b], history)
  BY <1>1, Mine DEF WaitStep, HasValidSlot, NoWork
<1>3. /\ w \in Work /\ w.table = work[b].table /\ w.seen = work[b].seen
      /\ w.claim = work[b].claim /\ w.rows = work[b].rows /\ w.reservation_valid
  BY <1>2 DEF Work
<1>4. work[b] # None /\ w # None
  BY <1>2, <1>3, NoneIsNoWork
<1>. HIDE DEF w
<1>5. \A j \in PendingSlots(slots, Catalog(slots, k)) : k <= j
  <2>1. k = FirstOf(PendingSlots(slots, Catalog(slots, k)))
    BY <1>1 DEF IsReady, PublicationWait
  <2>2. PendingSlots(slots, Catalog(slots, k)) \in SUBSET Nat
    BY TicketsAreFinite DEF PendingSlots, ValidSlots
  <2>. QED
    BY <2>1, <2>2, FirstOK
<1>6. BackendOK(b, slots', "publish", w, local[b], history)
  BY <1>1, <1>2, <1>3, <1>4, <1>5 DEF BackendOK, WorkOK, NoWork, SlotOfWork
<1>7. Becomes(b, "publish", w, local[b]) /\ "publish" \in Places
  BY <1>1, Unchanging DEF Becomes, Places
<1>8. ClaimsNothing(b, w)
  BY <1>3, <1>4 DEF ClaimsNothing
<1>. QED
  BY <1>1, <1>3, <1>6, <1>7, <1>8, Mine, KeepFrame

(* A critical section of a wait: the range or the turn is there, or the    *)
(* slot is lost, overflows or notes its blocker.                           *)
LEMMA WaitProgressOK ==
  ASSUME IInv, NEW b \in Backends, WaitProgress(b)
  PROVE  IInv'
<1>1. CASE WaitIsLost(b)
  <2>1. /\ pc[b] \in {"row_wait", "row_timeout", "publication_wait", "publication_timeout"}
        /\ AfterFailedWait(b) \in {"prewrite", "publish"}
        /\ local[b].ticket \in DOMAIN slots' => ~slots'[local[b].ticket].valid
        /\ Shrinks(slots, slots')
    BY <1>1, Mine DEF WaitIsLost, Waiting, AfterFailedWait, HasValidSlot
  <2>. QED
    BY <1>1, <2>1, LosesItsSlot DEF WaitIsLost
<1>2. CASE RowRangeOverflows(b)
  <2>1. Shrinks(slots, slots')
    BY <1>2, Mine, InvalidateOK DEF RowRangeOverflows
  <2>. QED
    BY <1>2, <2>1, WaitsOn, Unchanging DEF RowRangeOverflows
<1>3. CASE WaitForBlocker(b)
  BY <1>3, BlockedSlotOK, WaitsOn, Unchanging DEF WaitForBlocker
<1>. QED
  BY <1>1, <1>2, <1>3, RowRangeIsReadyOK, PublicationIsReadyOK DEF WaitProgress

-----------------------------------------------------------------------------
(* The reservation.                                                        *)

(* The catalog's next row ID and latest snapshot are numbers, since its    *)
(* history is finite.                                                      *)
LEMMA NextRowIdOK ==
  ASSUME IInv, NEW t \in Tables
  PROVE  NextRowId(t) \in Nat /\ SnapshotId(CatalogOf[t]) \in Nat /\ Truth(t) \in Ids
<1>. DEFINE h == history[CatalogOf[t]]
            K == {i \in DOMAIN h : h[i].table = t}
<1>1. h \in Seq([table : Tables, row_id : Nat, rows : Nat])
  BY QueueConstants DEF IInv, TypeOK
<1>2. Len(h) \in Nat /\ DOMAIN h = 1 .. Len(h)
  BY <1>1, SMT
<1>. HIDE DEF h
<1>3. CASE K # {}
  <2>1. K \in SUBSET (1 .. Len(h))
    BY <1>2
  <2>2. LastOf(K) \in 1 .. Len(h)
    BY <1>2, <1>3, <2>1, LastOK
  <2>3. h[LastOf(K)] \in [table : Tables, row_id : Nat, rows : Nat]
    BY <1>1, <2>2, EntryOK
  <2>4. h[LastOf(K)].row_id + h[LastOf(K)].rows \in Nat
    BY <2>3, SMT
  <2>. QED
    BY <1>2, <1>3, <2>4 DEF NextRowId, SnapshotId, Truth, Ids, h
<1>4. CASE K = {}
  BY <1>2, <1>4 DEF NextRowId, SnapshotId, Truth, Ids, h
<1>. QED
  BY <1>3, <1>4

(* Reading the catalog touches no slot.                                    *)
LEMMA ReadStateOK ==
  ASSUME IInv, NEW b \in Backends, ReadState(b)
  PROVE  IInv'
<1>1. PICK t \in Tables, n \in 0 .. MaxRows :
        work' = [work EXCEPT ![b] =
          [table |-> t, known |-> n > 0, rows |-> n, seen |-> Truth(t),
           candidate |-> [Truth(t) EXCEPT !.snapshot_id = @ + 1],
           reservation_valid |-> FALSE, claim |-> 0]]
  BY DEF ReadState
<1>. DEFINE cand == [Truth(t) EXCEPT !.snapshot_id = @ + 1]
            w == [table |-> t, known |-> n > 0, rows |-> n, seen |-> Truth(t),
                  candidate |-> cand, reservation_valid |-> FALSE, claim |-> 0]
<1>2. /\ pc[b] = "idle" /\ pc' = [pc EXCEPT ![b] = "reserve"]
      /\ UNCHANGED <<slots, next_ticket, history, local, suspects>>
  BY DEF ReadState, Goto
<1>3. Truth(t) \in Ids /\ cand \in Ids /\ n \in Nat
  BY NextRowIdOK, QueueConstants, SMT DEF Ids
<1>. HIDE DEF cand
<1>4. w \in Work /\ w.claim = 0
  BY <1>3, SMT DEF Work
<1>5. /\ w.table = t /\ w.seen.snapshot_id = Len(history[CatalogOf[t]])
      /\ Len(history[CatalogOf[t]]) \in Nat
  BY NextRowIdOK DEF Truth, SnapshotId
<1>6. work' = [work EXCEPT ![b] = w]
  BY <1>1, ZenonT(30) DEF cand
<1>. HIDE DEF w
<1>7. local[b] = NoReservation /\ 0 \notin DOMAIN slots
  BY <1>2, Mine, QueueConstants, SMT DEF BackendOK, IInv, TypeOK
<1>8. BackendOK(b, slots', "reserve", w, local[b], history)
  <2>1. local[b].ticket \notin DOMAIN slots' /\ ~local[b].published
    BY <1>2, <1>7, SMT DEF NoReservation
  <2>2. WorkOK("reserve", w, history)
    BY <1>4, <1>5, SMT DEF WorkOK, NoWork
  <2>. QED
    BY <1>7, <2>1, <2>2 DEF BackendOK
<1>9. Becomes(b, "reserve", w, local[b]) /\ "reserve" \in Places
  BY <1>2, <1>6, Unchanging DEF Becomes, Places
<1>10. ClaimsNothing(b, w)
  BY <1>4 DEF ClaimsNothing
<1>. QED
  BY <1>2, <1>4, <1>8, <1>9, <1>10, Mine, KeepFrame

(* Without a reservation the backend has no ticket yet.                    *)
LEMMA ReservingOK ==
  ASSUME IInv, NEW b \in Backends, NEW n \in Elsewhere, Reserving(b, n)
  PROVE  /\ local[b] = NoReservation /\ 0 \notin DOMAIN slots /\ n \in Nat
         /\ work[b] \in Work /\ work[b] # None /\ work[b].claim = 0
         /\ work[b].seen.snapshot_id <= Len(history[CatalogOf[work[b].table]])
         /\ Shrinks(slots, SlotsToReserve(b, n))
<1>1. pc[b] \in {"reserve", "reserve_again"}
  BY DEF Reserving
<1>2. work[b] \in Work /\ work[b] # None
  BY <1>1, Mine, NoneIsNoWork DEF NoWork
<1>3. 0 \notin DOMAIN slots /\ n \in Nat
  BY QueueConstants, SMT DEF IInv, TypeOK
<1>4. Shrinks(slots, SlotsToReserve(b, n))
  BY Mine, MakingRoomOK DEF SlotsToReserve
<1>. QED
  BY <1>1, <1>2, <1>3, <1>4, Mine DEF BackendOK, WorkOK

(* A full queue, or one without tickets, makes no reservation and only     *)
(* shrinks.                                                                *)
LEMMA NoReservationMade ==
  ASSUME IInv, NEW b \in Backends, NEW n \in Elsewhere,
         ReserveWhenFull(b, n) \/ ReserveWithoutTicket(b, n)
  PROVE  IInv'
<1>1. /\ Reserving(b, n) /\ slots' = SlotsToReserve(b, n)
      /\ UNCHANGED <<next_ticket, history, work, local>>
  BY DEF ReserveWhenFull, ReserveWithoutTicket
<1>2. PICK p \in {"reserve_again", "prewrite"} : pc' = [pc EXCEPT ![b] = p]
  BY DEF ReserveWhenFull, ReserveWithoutTicket
<1>3. suspects' \in [Backends -> SUBSET (1 .. MaxTicket)]
  <2>1. DOMAIN slots' \subseteq DOMAIN slots
    BY <1>1, ReservingOK DEF Shrinks
  <2>2. DOMAIN slots' \subseteq 1 .. MaxTicket
    BY <2>1, QueueConstants, SMT DEF IInv, TypeOK
  <2>3. suspects \in [Backends -> SUBSET (1 .. MaxTicket)]
    BY DEF IInv, TypeOK
  <2>4. CASE ReserveWithoutTicket(b, n)
    BY <2>3, <2>4 DEF ReserveWithoutTicket
  <2>5. CASE ReserveWhenFull(b, n)
    <3>1. PICK K : K \subseteq DOMAIN slots' /\ suspects' = [suspects EXCEPT ![b] = K]
      <4>1. {} \subseteq DOMAIN slots'
        OBVIOUS
      <4>2. {j \in DOMAIN slots' : slots'[j].valid /\ ~slots'[j].committed}
              \subseteq DOMAIN slots'
        OBVIOUS
      <4>. QED
        BY <1>1, <2>5, <4>1, <4>2 DEF ReserveWhenFull
    <3>. QED
      BY <2>2, <2>3, <3>1
  <2>. QED
    BY <2>4, <2>5
<1>4. Becomes(b, p, work[b], local[b]) /\ p \in Places
  BY <1>1, <1>2, <1>3, Unchanging DEF Becomes, Places
<1>5. Shrinks(slots, slots') /\ 0 \notin DOMAIN slots'
  BY <1>1, ReservingOK, ZenonT(30) DEF Shrinks
<1>6. BackendOK(b, slots', p, work[b], local[b], history)
  BY <1>1, <1>5, ReservingOK, SMT DEF BackendOK, WorkOK, NoWork, NoReservation
<1>. QED
  BY <1>1, <1>4, <1>5, <1>6, Mine, KeepFrame

(* t may follow the slots S, and T and l are what they become when b gets  *)
(* the new ticket k for it.                                                *)
GoesLast(S, t) ==
  \A j \in DOMAIN S :
    t.valid /\ S[j].valid /\ Catalog(S, j) = CatalogOf[t.table] =>
      Follows(t, S[j])

IsAdded(S, b, k, t, T, l) ==
  /\ T \in [DOMAIN T -> Slot] /\ DOMAIN T = DOMAIN S \cup {k}
  /\ T[k] = t /\ \A j \in DOMAIN S : T[j] = S[j]
  /\ l[b].ticket = k /\ \A a \in Backends \ {b} : l[a] = local[a]

(* A slot that is pending and waits for nobody.                            *)
LEMMA SlotFields ==
  ASSUME NEW v \in BOOLEAN, NEW a \in BOOLEAN, NEW f \in BOOLEAN,
         NEW t \in Tables, NEW o \in Backends,
         NEW s \in Nat, NEW r \in Nat, NEW n \in Nat
  PROVE  [valid |-> v, committed |-> FALSE, row_assigned |-> a,
          row_count_known |-> f, table |-> t, owner |-> o,
          snapshot_id |-> s, row_id |-> r, row_count |-> n,
          blocker |-> 0, deadline |-> "none"] \in Slot
  BY DEF Slot

(* The new slot is behind every slot of its catalog.                       *)
LEMMA NewSlotOK ==
  ASSUME IInv, NEW b \in Backends, work[b] \in Work, NEW S, Shrinks(slots, S),
         InOrder(S), NEW t, t = NewSlot(S, b)
  PROVE  /\ t \in Slot /\ ~t.committed /\ t.owner = b /\ t.table = work[b].table
         /\ t.row_count_known = work[b].known /\ t.row_count = work[b].rows
         /\ GoesLast(S, t)
<1>. DEFINE w == work[b]
            prior == ValidSlots(S, CatalogOf[w.table])
            same  == OfTable(S, prior, w.table)
            last  == LastOf(prior)
            lastTable == LastOf(same)
            fits  == prior = {} \/ S[last].snapshot_id < MaxId
            chained == same # {} /\ HasRange(S, lastTable) /\ ~Overflows(S, lastTable)
            snap == 1 + (IF fits /\ prior # {} THEN S[last].snapshot_id
                                               ELSE w.seen.snapshot_id)
            row == IF same = {} THEN w.seen.row_id
                   ELSE IF chained THEN RangeEnd(S, lastTable) ELSE 0
<1>1. /\ w.table \in Tables /\ w.known \in BOOLEAN /\ w.rows \in Nat
      /\ w.seen.snapshot_id \in Nat /\ w.seen.row_id \in Nat
  BY DEF Work, Ids
<1>2. t = [valid |-> fits, committed |-> FALSE,
           row_assigned |-> same = {} \/ chained,
           row_count_known |-> w.known, table |-> w.table, owner |-> b,
           snapshot_id |-> snap, row_id |-> row,
           row_count |-> w.rows, blocker |-> 0, deadline |-> "none"]
  BY DEF NewSlot
<1>3. /\ S \in [DOMAIN S -> Slot] /\ next_ticket - 1 \in Nat
      /\ DOMAIN S \subseteq 1 .. next_ticket - 1
  BY QueueConstants, SMT DEF Shrinks, IInv, TypeOK
<1>4. /\ prior \in SUBSET (1 .. next_ticket - 1) /\ prior \subseteq DOMAIN S
      /\ same \in SUBSET (1 .. next_ticket - 1) /\ same \subseteq DOMAIN S
  BY <1>3 DEF ValidSlots, OfTable
<1>5. prior # {} => last \in prior /\ \A j \in prior : j <= last
  BY <1>3, <1>4, LastOK
<1>6. same # {} => lastTable \in same /\ \A j \in same : j <= lastTable
  BY <1>3, <1>4, LastOK
<1>7. \A j \in DOMAIN S : /\ S[j].snapshot_id \in Nat /\ S[j].row_id \in Nat
                          /\ S[j].row_count \in Nat /\ S[j] \in Slot /\ j \in Nat
  BY <1>3, SMT DEF Slot
<1>8. /\ \A j \in prior : S[j].valid /\ CatalogOf[S[j].table] = CatalogOf[w.table]
      /\ \A j \in same : j \in prior /\ S[j].table = w.table
      /\ \A j \in DOMAIN S :
           S[j].valid /\ Catalog(S, j) = CatalogOf[w.table] => j \in prior
      /\ \A j \in prior : S[j].table = w.table => j \in same
  BY DEF ValidSlots, OfTable, Catalog
<1>. HIDE DEF prior, same
<1>9. snap \in Nat
  BY <1>1, <1>4, <1>5, <1>7, SMT
<1>10. row \in Nat
  BY <1>1, <1>4, <1>6, <1>7, SMT DEF RangeEnd
<1>11. fits \in BOOLEAN /\ (same = {} \/ chained) \in BOOLEAN
  OBVIOUS
<1>12. ASSUME NEW j \in DOMAIN S, fits, j \in prior
       PROVE  S[j].snapshot_id < snap
  <2>1. prior # {} /\ snap = 1 + S[last].snapshot_id /\ last \in DOMAIN S
    BY <1>4, <1>5, <1>12
  <2>2. j = last \/ j < last
    BY <1>4, <1>5, <1>7, <1>12, <2>1, SMT
  <2>3. S[j].snapshot_id <= S[last].snapshot_id
    BY <1>5, <1>7, <1>8, <1>12, <2>1, <2>2, SMT DEF InOrder, Follows, Catalog
  <2>. QED
    BY <1>7, <2>1, <2>3, SMT
<1>13. ASSUME NEW j \in DOMAIN S, j \in same, same = {} \/ chained
       PROVE  S[j].row_assigned /\ S[j].row_count_known
                /\ S[j].row_id + S[j].row_count <= row
  <2>1. /\ same # {} /\ chained /\ row = S[lastTable].row_id + S[lastTable].row_count
        /\ lastTable \in DOMAIN S /\ lastTable \in same
        /\ S[lastTable].row_assigned /\ S[lastTable].row_count_known
    BY <1>4, <1>6, <1>13 DEF RangeEnd, HasRange
  <2>2. j = lastTable \/ j < lastTable
    BY <1>4, <1>6, <1>7, <1>13, <2>1, SMT
  <2>3. CASE j = lastTable
    BY <1>7, <2>1, <2>3, SMT
  <2>4. CASE j < lastTable
    <3>1. Follows(S[lastTable], S[j])
      BY <1>8, <1>13, <2>1, <2>4 DEF InOrder, Catalog
    <3>2. S[j].row_assigned /\ S[j].row_count_known
            /\ S[j].row_id + S[j].row_count <= S[lastTable].row_id
      BY <1>8, <1>13, <2>1, <3>1 DEF Follows
    <3>. QED
      BY <1>7, <2>1, <3>2, SMT
  <2>. QED
    BY <2>2, <2>3, <2>4
<1>. HIDE DEF fits, chained, snap, row
<1>14. t \in Slot
  <2>1. PICK v \in BOOLEAN : v = fits
    BY <1>11
  <2>2. PICK a \in BOOLEAN : a = (same = {} \/ chained)
    BY <1>11
  <2>3. t = [valid |-> v, committed |-> FALSE, row_assigned |-> a,
             row_count_known |-> w.known, table |-> w.table, owner |-> b,
             snapshot_id |-> snap, row_id |-> row,
             row_count |-> w.rows, blocker |-> 0, deadline |-> "none"]
    BY <1>2, <2>1, <2>2
  <2>. HIDE DEF w
  <2>. QED
    BY <1>1, <1>9, <1>10, <2>3, SlotFields, SMT
<1>15. ASSUME NEW j \in DOMAIN S, t.valid, S[j].valid,
              Catalog(S, j) = CatalogOf[t.table]
       PROVE  Follows(t, S[j])
  <2>1. j \in prior /\ fits /\ t.snapshot_id = snap /\ t.row_id = row
    BY <1>2, <1>8, <1>15, SMT
  <2>2. t.row_assigned = (same = {} \/ chained) /\ t.table = w.table
    BY <1>2, SMT
  <2>3. S[j].table = t.table /\ t.row_assigned =>
          j \in same /\ (same = {} \/ chained)
    BY <1>8, <2>1, <2>2
  <2>. QED
    BY <1>12, <1>13, <2>1, <2>3 DEF Follows
<1>16. /\ ~t.committed /\ t.owner = b /\ t.table = work[b].table
       /\ t.row_count_known = work[b].known /\ t.row_count = work[b].rows
  BY <1>2, SMT
<1>17. GoesLast(S, t)
  BY <1>15 DEF GoesLast
<1>. QED
  BY <1>14, <1>16, <1>17

(* S with the slot t under a new ticket k.                                 *)
LEMMA SlotAdded ==
  ASSUME IInv, NEW b \in Backends, local[b] = NoReservation, NEW S,
         Shrinks(slots, S), NEW t \in Slot, ~t.committed, t.owner = b,
         GoesLast(S, t), NEW T, NEW l, IsAdded(S, b, next_ticket, t, T, l)
  PROVE  /\ DOMAIN T \subseteq 1 .. next_ticket
         /\ InOrder(T) /\ AnchorsOK(T, history) /\ OwnersOK(T, l)
         /\ \A a \in Backends \ {b} :
              BackendOK(a, T, pc[a], work[a], local[a], history)
<1>. DEFINE k == next_ticket
<1>1. /\ slots \in [DOMAIN slots -> Slot] /\ next_ticket \in Nat
      /\ DOMAIN slots \subseteq 1 .. next_ticket - 1
      /\ local \in [Backends -> Locals]
  BY QueueConstants, SMT DEF IInv, TypeOK, Locals
<1>2. /\ InOrder(S) /\ AnchorsOK(S, history) /\ OwnersOK(S, local)
      /\ S \in [DOMAIN S -> Slot] /\ DOMAIN S \subseteq 1 .. next_ticket - 1
  BY <1>1, SlotsSurvive DEF IInv, Shrinks
<1>3. \A j \in DOMAIN S : j \in Nat /\ j < k /\ j # 0 /\ j # k
  BY <1>1, <1>2, SMT
<1>4. /\ DOMAIN T = DOMAIN S \cup {k} /\ T[k] = t
      /\ \A j \in DOMAIN S : T[j] = S[j]
      /\ DOMAIN T \subseteq 1 .. k
  <2>1. k \in 1 .. k /\ DOMAIN S \subseteq 1 .. k
    BY <1>2, <1>3, QueueConstants, SMT DEF IInv, TypeOK
  <2>. QED
    BY <2>1 DEF IsAdded
<1>5. l[b].ticket = k /\ \A a \in Backends \ {b} : l[a] = local[a]
  BY DEF IsAdded
<1>6. InOrder(T)
  <2>1. SUFFICES ASSUME NEW i \in DOMAIN T, NEW j \in DOMAIN T, T[i].valid,
                        T[j].valid, i < j, Catalog(T, i) = Catalog(T, j)
                 PROVE  Follows(T[j], T[i])
    BY DEF InOrder
  <2>2. i \in DOMAIN S /\ T[i] = S[i]
    BY <1>1, <1>3, <1>4, <2>1, SMT
  <2>3. CASE j = k
    BY <1>4, <2>1, <2>2, <2>3 DEF Catalog, GoesLast
  <2>4. CASE j \in DOMAIN S
    BY <1>2, <1>4, <2>1, <2>2, <2>4 DEF InOrder, Catalog
  <2>. QED
    BY <1>4, <2>3, <2>4
<1>7. AnchorsOK(T, history)
  BY <1>2, <1>4 DEF AnchorsOK
<1>8. OwnersOK(T, l)
  <2>1. SUFFICES ASSUME NEW j \in DOMAIN T, ~T[j].committed
                 PROVE  l[T[j].owner].ticket = j
    BY DEF OwnersOK
  <2>2. CASE j = k
    BY <1>4, <1>5, <2>2
  <2>3. CASE j \in DOMAIN S
    <3>1. local[S[j].owner].ticket = j /\ S[j].owner \in Backends
      BY <1>2, <1>4, <2>1, <2>3, ZenonT(30) DEF OwnersOK, Slot
    <3>2. S[j].owner # b
      BY <1>3, <2>3, <3>1, SMT DEF NoReservation
    <3>. QED
      BY <1>4, <1>5, <2>3, <3>1, <3>2
  <2>. QED
    BY <1>4, <2>2, <2>3
<1>9. ASSUME NEW a \in Backends \ {b}
      PROVE  BackendOK(a, T, pc[a], work[a], local[a], history)
  <2>. DEFINE i == local[a].ticket
  <2>1. /\ BackendOK(a, S, pc[a], work[a], local[a], history)
        /\ i \in Nat /\ i < k
    BY <1>1, BackendSurvives, Mine DEF IInv
  <2>2. i \in DOMAIN T => i \in DOMAIN S /\ T[i] = S[i]
    BY <1>1, <1>4, <2>1, SMT
  <2>3. \A c : \A j \in PendingSlots(T, c) : j = k \/ j \in PendingSlots(S, c)
    BY <1>4 DEF PendingSlots, ValidSlots, Catalog
  <2>4. i \in DOMAIN T => Catalog(T, i) = Catalog(S, i)
    BY <2>2 DEF Catalog
  <2>5. ASSUME i \in DOMAIN T, NEW j \in PendingSlots(T, Catalog(T, i)),
               \A m \in PendingSlots(S, Catalog(S, i)) : i <= m
        PROVE  i <= j
    <3>1. j = k \/ j \in PendingSlots(S, Catalog(S, i))
      BY <2>3, <2>4, <2>5
    <3>2. CASE j = k
      BY <1>1, <2>1, <3>2, SMT
    <3>3. CASE j \in PendingSlots(S, Catalog(S, i))
      BY <2>5, <3>3
    <3>. QED
      BY <3>1, <3>2, <3>3
  <2>. HIDE DEF i
  <2>. QED
    BY <2>1, <2>2, <2>5 DEF BackendOK, i
<1>. QED
  BY <1>4, <1>6, <1>7, <1>8, <1>9

(* A new slot goes last, after every valid slot of its catalog.            *)
LEMMA ReserveSlotOK ==
  ASSUME IInv, NEW b \in Backends, NEW n \in Elsewhere, ReserveSlot(b, n)
  PROVE  IInv'
<1>. DEFINE k == next_ticket
            l == [ticket |-> k, published |-> FALSE]
<1>1. PICK S, t : S = SlotsToReserve(b, n) /\ t = NewSlot(S, b)
  OBVIOUS
<1>2. /\ Reserving(b, n) /\ ~IsFull(S, n) /\ k < MaxTicket
      /\ slots' = [j \in DOMAIN S \cup {k} |-> IF j = k THEN t ELSE S[j]]
      /\ next_ticket' = k + 1 /\ local' = [local EXCEPT ![b] = l]
      /\ UNCHANGED <<history, suspects>>
  BY <1>1 DEF ReserveSlot
<1>3. /\ local[b] = NoReservation /\ n \in Nat /\ Shrinks(slots, S)
      /\ work[b] \in Work /\ work[b] # None /\ work[b].claim = 0
      /\ work[b].seen.snapshot_id <= Len(history[CatalogOf[work[b].table]])
  BY <1>1, <1>2, ReservingOK
<1>4. /\ k \in Nat /\ k \in 1 .. MaxTicket /\ MaxTicket \in Nat
      /\ DOMAIN slots \subseteq 1 .. k - 1 /\ slots \in [DOMAIN slots -> Slot]
  BY QueueConstants, SMT DEF IInv, TypeOK
<1>5. InOrder(S) /\ DOMAIN S \subseteq DOMAIN slots
  BY <1>3, <1>4, SlotsSurvive DEF IInv, Shrinks
<1>6. /\ t \in Slot /\ ~t.committed /\ t.owner = b /\ t.table = work[b].table
      /\ t.row_count_known = work[b].known /\ t.row_count = work[b].rows
      /\ GoesLast(S, t)
  BY <1>1, <1>3, <1>5, NewSlotOK, SMT
<1>7. /\ DOMAIN slots' = DOMAIN S \cup {k} /\ slots' \in [DOMAIN slots' -> Slot]
      /\ slots'[k] = t /\ DOMAIN slots' \subseteq 1 .. k
      /\ InOrder(slots') /\ AnchorsOK(slots', history) /\ OwnersOK(slots', local')
      /\ \A a \in Backends \ {b} :
           BackendOK(a, slots', pc[a], work[a], local[a], history)
  <2>1. /\ DOMAIN slots' = DOMAIN S \cup {k} /\ slots'[k] = t
        /\ S \in [DOMAIN S -> Slot] /\ k \notin DOMAIN S
    BY <1>2, <1>3, <1>4, <1>5, SMT DEF Shrinks
  <2>2. /\ \A j \in DOMAIN S : slots'[j] = S[j]
        /\ slots' \in [DOMAIN S \cup {k} -> Slot]
    BY <1>2, <1>6, <2>1
  <2>3. local'[b].ticket = k /\ \A a \in Backends \ {b} : local'[a] = local[a]
    BY <1>2 DEF IInv, TypeOK
  <2>4. slots' \in [DOMAIN slots' -> Slot]
    BY <2>1, <2>2
  <2>5. IsAdded(S, b, next_ticket, t, slots', local')
    BY <2>1, <2>2, <2>3, <2>4 DEF IsAdded
  <2>6. /\ DOMAIN slots' \subseteq 1 .. next_ticket
        /\ InOrder(slots') /\ AnchorsOK(slots', history) /\ OwnersOK(slots', local')
        /\ \A a \in Backends \ {b} :
             BackendOK(a, slots', pc[a], work[a], local[a], history)
    BY <1>3, <1>6, <2>5, SlotAdded
  <2>. QED
    BY <2>1, <2>4, <2>6
<1>8. Cardinality(DOMAIN slots') <= Capacity
  <2>1. IsFiniteSet(DOMAIN S) /\ Cardinality(DOMAIN S) \in Nat
    BY <1>5, TicketsAreFinite
  <2>2. k \notin DOMAIN S /\ k - 1 \in Nat /\ DOMAIN S \in SUBSET (1 .. k - 1)
    BY <1>4, <1>5, SMT
  <2>3. Cardinality(DOMAIN S \cup {k}) = Cardinality(DOMAIN S) + 1
    BY <2>1, <2>2, FS_AddElement
  <2>. QED
    <3>1. Cardinality(DOMAIN slots') = Cardinality(DOMAIN S) + 1
      BY <1>7, <2>3
    <3>2. ~(Cardinality(DOMAIN S) + n >= Capacity)
      BY <1>2 DEF IsFull
    <3>3. Capacity \in Nat /\ n \in Nat
      BY <1>3, QueueConstants
    <3>. QED
      BY <2>1, <3>1, <3>2, <3>3, SMT
<1>9. PICK w \in Work :
        /\ w.claim = 0 /\ w.table = work[b].table /\ w.known = work[b].known
        /\ w.rows = work[b].rows /\ w.seen = work[b].seen
        /\ work' = [work EXCEPT ![b] = w]
  <2>. DEFINE c == [snapshot_id |-> t.snapshot_id, row_id |-> t.row_id]
              v == [work[b] EXCEPT !.candidate = c]
  <2>1. c \in Ids
    BY <1>6 DEF Slot, Ids
  <2>. HIDE DEF c
  <2>2. /\ v \in Work /\ v.claim = 0 /\ v.table = work[b].table
        /\ v.known = work[b].known /\ v.rows = work[b].rows
        /\ v.seen = work[b].seen
    BY <1>3, <2>1 DEF Work
  <2>. HIDE DEF v
  <2>3. work' = [work EXCEPT ![b] = IF t.valid /\ t.row_assigned THEN v ELSE work[b]]
    BY <1>1 DEF ReserveSlot, v, c
  <2>4. work' = [work EXCEPT ![b] = v] \/ work' = [work EXCEPT ![b] = work[b]]
    BY <2>3
  <2>. QED
    BY <1>3, <2>2, <2>4
<1>10. PICK p \in {"row_wait", "prewrite"} :
         pc' = [pc EXCEPT ![b] = p] /\ (p = "row_wait" => ~t.row_assigned)
  <2>1. pc' = [pc EXCEPT ![b] =
                 IF t.valid /\ ~t.row_assigned THEN "row_wait" ELSE "prewrite"]
    BY <1>1 DEF ReserveSlot
  <2>2. CASE t.valid /\ ~t.row_assigned
    BY <2>1, <2>2
  <2>3. CASE ~(t.valid /\ ~t.row_assigned)
    BY <2>1, <2>3
  <2>. QED
    BY <2>2, <2>3
<1>11. l \in Locals /\ p \in Places
  BY <1>4, SMT DEF Locals, Places
<1>12. Becomes(b, p, w, l)
  BY <1>2, <1>9, <1>10 DEF Becomes, IInv, TypeOK
<1>13. BackendOK(b, slots', p, w, l, history)
  <2>1. l.ticket = k /\ ~l.published
    OBVIOUS
  <2>. HIDE DEF l
  <2>2. w # None
    BY <1>9, NoneIsNoWork
  <2>3. WorkOK(p, w, history)
    BY <1>3, <1>9, <1>10 DEF WorkOK, NoWork
  <2>4. SlotOfWork(t, p, w, l.published, history)
    BY <1>6, <1>9, <1>10, <2>1 DEF SlotOfWork
  <2>5. ~Turn(p, l.published) /\ p \notin {"idle", "reserve", "reserve_again", "exiting"}
    BY <1>10, <2>1 DEF Turn
  <2>. QED
    BY <1>6, <1>7, <1>9, <2>1, <2>2, <2>3, <2>4, <2>5 DEF BackendOK
<1>14. ClaimsAreUnique'
  BY <1>9, ClaimsKept DEF ClaimsNothing
<1>15. /\ next_ticket' \in next_ticket .. MaxTicket /\ l.ticket < next_ticket'
       /\ next_ticket' - 1 = k
  BY <1>2, <1>4, SMT
<1>. HIDE DEF l
<1>. QED
  BY <1>2, <1>7, <1>8, <1>9, <1>10, <1>11, <1>12, <1>13, <1>14, <1>15, Frame

-----------------------------------------------------------------------------
(* The publication.                                                        *)

(* Reading the row range of the own slot takes over what the slot says.    *)
LEMMA ReadRowRangeOK ==
  ASSUME IInv, NEW b \in Backends, ReadRowRange(b)
  PROVE  IInv'
<1>. DEFINE s == slots[local[b].ticket]
            c == [snapshot_id |-> s.snapshot_id, row_id |-> s.row_id]
            v == [work[b] EXCEPT !.candidate = c]
<1>1. /\ pc[b] = "row_ready" /\ pc' = [pc EXCEPT ![b] = "prewrite"]
      /\ UNCHANGED <<slots, next_ticket, history, local, suspects>>
  BY DEF ReadRowRange, Goto
<1>2. /\ work[b] \in Work /\ work[b] # None
      /\ BackendOK(b, slots, "row_ready", work[b], local[b], history)
  BY <1>1, Mine, NoneIsNoWork DEF NoWork
<1>3. PICK w \in Work :
        /\ w.claim = work[b].claim /\ w.table = work[b].table
        /\ w.known = work[b].known /\ w.rows = work[b].rows
        /\ w.seen = work[b].seen /\ work' = [work EXCEPT ![b] = w]
  <2>1. CASE HasValidSlot(b) /\ s.row_assigned
    <3>1. c \in Ids
      BY <2>1, Mine DEF HasValidSlot, Slot, Ids
    <3>2. work' = [work EXCEPT ![b] = v]
      BY <2>1 DEF ReadRowRange
    <3>. HIDE DEF c
    <3>3. /\ v \in Work /\ v.claim = work[b].claim /\ v.table = work[b].table
          /\ v.known = work[b].known /\ v.rows = work[b].rows
          /\ v.seen = work[b].seen
      BY <1>2, <3>1 DEF Work
    <3>. QED
      BY <3>2, <3>3
  <2>2. CASE ~(HasValidSlot(b) /\ s.row_assigned)
    <3>1. work' = [work EXCEPT ![b] = work[b]]
      BY <2>2 DEF ReadRowRange
    <3>. QED
      BY <1>2, <3>1
  <2>. QED
    BY <2>1, <2>2
<1>4. w # None
  BY <1>3, NoneIsNoWork
<1>5. BackendOK(b, slots', "prewrite", w, local[b], history)
  BY <1>1, <1>2, <1>3, <1>4 DEF BackendOK, WorkOK, NoWork, SlotOfWork, Turn
<1>6. Becomes(b, "prewrite", w, local[b]) /\ "prewrite" \in Places
  BY <1>1, <1>3, Unchanging DEF Becomes, Places
<1>7. ClaimsNothing(b, w)
  BY <1>2, <1>3 DEF ClaimsNothing
<1>. QED
  BY <1>1, <1>3, <1>5, <1>6, <1>7, Mine, KeepFrame

(* A slot that learns its row count: a later range of its table has begun  *)
(* only if the count was known before.                                     *)
LEMMA CompletedSlotOK ==
  ASSUME IInv, NEW b \in Backends, HasValidSlot(b), pc[b] = "prewrite",
         NEW n \in Nat, work[b].known => n = work[b].rows, NEW t \in Slot,
         t = [slots[local[b].ticket] EXCEPT !.row_count = n, !.row_count_known = TRUE]
  PROVE  /\ t.owner = b /\ ~t.committed /\ t.table = slots[local[b].ticket].table
         /\ t.row_count = n
         /\ InOrder([slots EXCEPT ![local[b].ticket] = t])
<1>. DEFINE k == local[b].ticket
            T == [slots EXCEPT ![k] = t]
<1>1. /\ k \in DOMAIN slots /\ slots[k] \in Slot /\ slots \in [DOMAIN slots -> Slot]
      /\ slots[k].owner = b /\ slots[k].valid /\ ~slots[k].committed
      /\ slots[k].row_count_known <=> work[b].known
      /\ slots[k].row_count = work[b].rows
  BY Mine, SMT DEF HasValidSlot, BackendOK, SlotOfWork
<1>2. /\ t.owner = b /\ t.committed = slots[k].committed /\ t.table = slots[k].table
      /\ t.row_count = n /\ t.row_id = slots[k].row_id /\ t.valid = slots[k].valid
      /\ t.snapshot_id = slots[k].snapshot_id
      /\ t.row_assigned = slots[k].row_assigned /\ t.row_count_known
  BY <1>1 DEF Slot
<1>3. /\ DOMAIN T = DOMAIN slots /\ T[k] = t
      /\ \A i \in DOMAIN T : i # k => T[i] = slots[i]
  BY <1>1
<1>. HIDE DEF T
<1>4. ASSUME NEW i \in DOMAIN T, NEW j \in DOMAIN T, T[i].valid, T[j].valid,
             i < j, Catalog(T, i) = Catalog(T, j)
      PROVE  Follows(T[j], T[i])
  <2>1. Follows(slots[j], slots[i])
    <3>1. \A m \in DOMAIN T : T[m].valid = slots[m].valid /\ T[m].table = slots[m].table
      BY <1>2, <1>3
    <3>2. /\ i \in DOMAIN slots /\ j \in DOMAIN slots /\ slots[i].valid /\ slots[j].valid
          /\ Catalog(slots, i) = Catalog(slots, j)
      BY <1>3, <1>4, <3>1 DEF Catalog
    <3>. QED
      BY <1>4, <3>2 DEF InOrder, IInv
  <2>2. CASE i = k /\ j # k
    <3>1. T[i] = t /\ T[j] = slots[j]
      BY <1>3, <2>2
    <3>2. t.table = slots[j].table /\ slots[j].row_assigned =>
            t.row_count = slots[k].row_count
      BY <1>1, <1>2, <2>1, <2>2 DEF Follows
    <3>. QED
      BY <1>2, <2>1, <2>2, <3>1, <3>2, SMT DEF Follows
  <2>3. CASE j = k /\ i # k
    BY <1>2, <1>3, <2>1, <2>3, ZenonT(30) DEF Follows
  <2>4. CASE i # k /\ j # k
    BY <1>3, <2>1, <2>4
  <2>5. ~(i = k /\ j = k)
    BY <1>3, <1>4, TicketsAreFinite, SMT
  <2>. QED
    BY <2>2, <2>3, <2>4, <2>5
<1>. QED
  BY <1>1, <1>2, <1>4, ZenonT(30) DEF InOrder, T

(* The row count of a COPY becomes known: no slot after it on its table    *)
(* has a row range yet, so none overlaps.                                  *)
LEMMA CompleteReservationOK ==
  ASSUME IInv, NEW b \in Backends, CompleteReservation(b)
  PROVE  IInv'
<1>. DEFINE k == local[b].ticket
<1>1. /\ pc[b] = "prewrite" /\ work[b] \in Work /\ work[b] # None
      /\ BackendOK(b, slots, "prewrite", work[b], local[b], history)
      /\ UNCHANGED <<next_ticket, history, local, suspects>>
  BY Mine, NoneIsNoWork DEF CompleteReservation, NoWork
<1>2. PICK n \in IF work[b].known THEN {work[b].rows} ELSE 0 .. MaxRows :
        /\ work' = [work EXCEPT ![b] = [work[b] EXCEPT !.rows = n]]
        /\ slots' = IF n > 0 /\ HasValidSlot(b)
                      THEN [slots EXCEPT ![k] =
                             [slots[k] EXCEPT !.row_count = n, !.row_count_known = TRUE]]
                      ELSE slots
        /\ pc' = [pc EXCEPT ![b] =
             IF n = 0 THEN "written"
             ELSE IF HasValidSlot(b) THEN "publication_wait" ELSE "publish"]
  BY DEF CompleteReservation
<1>. DEFINE w == [work[b] EXCEPT !.rows = n]
            t == [slots[k] EXCEPT !.row_count = n, !.row_count_known = TRUE]
<1>3. n \in Nat /\ (work[b].known => n = work[b].rows)
  BY <1>1, <1>2, QueueConstants, SMT DEF Work
<1>4. /\ w \in Work /\ w.rows = n /\ w.claim = work[b].claim /\ w.table = work[b].table
      /\ w.seen = work[b].seen
  BY <1>1, <1>3 DEF Work
<1>5. w # None /\ work' = [work EXCEPT ![b] = w]
  BY <1>2, <1>4, NoneIsNoWork
<1>. HIDE DEF w
<1>6. /\ ClaimsNothing(b, w) /\ ~local[b].published
      /\ \A p \in Places \ NoWork : WorkOK(p, w, history)
  BY <1>1, <1>4, <1>5 DEF ClaimsNothing, BackendOK, WorkOK, Places
<1>7. ASSUME NEW p \in {"written", "publication_wait", "publish"},
             pc' = [pc EXCEPT ![b] = p]
      PROVE  Becomes(b, p, w, local[b]) /\ p \in Places \ NoWork
  BY <1>1, <1>5, <1>7, Unchanging DEF Becomes, Places, NoWork
<1>8. CASE n > 0 /\ HasValidSlot(b)
  <2>1. k \in DOMAIN slots /\ slots[k] \in Slot /\ slots[k].valid
    BY <1>8, Mine DEF HasValidSlot
  <2>2. t \in Slot
    BY <1>3, <2>1 DEF Slot
  <2>3. /\ t.owner = b /\ ~t.committed /\ t.table = slots[k].table
        /\ t.row_count = n /\ InOrder([slots EXCEPT ![k] = t])
    BY <1>1, <1>3, <1>8, <2>2, CompletedSlotOK
  <2>4. /\ slots' = [slots EXCEPT ![k] = t]
        /\ pc' = [pc EXCEPT ![b] = "publication_wait"]
    <3>1. n # 0 /\ n > 0 /\ HasValidSlot(b)
      BY <1>3, <1>8, SMT
    <3>2. slots' = [slots EXCEPT ![k] = t]
      BY <1>2, <3>1
    <3>3. pc' = [pc EXCEPT ![b] = "publication_wait"]
      BY <1>2, <3>1
    <3>. QED
      BY <3>2, <3>3
  <2>. HIDE DEF t
  <2>5. slots'[k] = t /\ InOrder(slots')
    BY <2>1, <2>3, <2>4
  <2>6. SlotOfWork(t, "publication_wait", w, local[b].published, history)
    BY <1>4, <2>3 DEF SlotOfWork
  <2>7. ~Turn("publication_wait", local[b].published)
    BY DEF Turn
  <2>8. BackendOK(b, slots', "publication_wait", w, local[b], history)
    BY <1>1, <1>4, <1>5, <1>6, <1>7, <2>1, <2>3, <2>4, <2>5, <2>6, <2>7 DEF BackendOK
  <2>. QED
    BY <1>1, <1>4, <1>6, <1>7, <1>8, <2>2, <2>3, <2>4, <2>5, <2>8, OwnSlotFrame
<1>9. CASE n = 0
  <2>1. slots' = slots /\ pc' = [pc EXCEPT ![b] = "written"]
    BY <1>2, <1>9, SMT
  <2>2. BackendOK(b, slots', "written", w, local[b], history)
    BY <1>1, <1>4, <1>5, <1>6, <1>7, <2>1 DEF BackendOK, SlotOfWork, Turn
  <2>. QED
    BY <1>1, <1>4, <1>6, <1>7, <2>1, <2>2, Mine, KeepFrame
<1>10. CASE n > 0 /\ ~HasValidSlot(b)
  <2>1. slots' = slots /\ pc' = [pc EXCEPT ![b] = "publish"]
    <3>1. n # 0 /\ ~HasValidSlot(b)
      BY <1>3, <1>10, SMT
    <3>2. slots' = slots
      BY <1>2, <3>1
    <3>3. pc' = [pc EXCEPT ![b] = "publish"]
      BY <1>2, <3>1
    <3>. QED
      BY <3>2, <3>3
  <2>2. BackendOK(b, slots', "publish", w, local[b], history)
    BY <1>1, <1>4, <1>5, <1>6, <1>7, <1>10, <2>1 DEF BackendOK, HasValidSlot
  <2>. QED
    BY <1>1, <1>4, <1>6, <1>7, <2>1, <2>2, Mine, KeepFrame
<1>. QED
  BY <1>3, <1>8, <1>9, <1>10, SMT

(* Reading the catalog again before the claim touches no slot.             *)
LEMMA ReadPublicationStateOK ==
  ASSUME IInv, NEW b \in Backends, ReadPublicationState(b)
  PROVE  IInv'
<1>. DEFINE tr == Truth(work[b].table)
            w == [work[b] EXCEPT !.seen = tr]
<1>1. /\ pc[b] = "publish" /\ pc' = [pc EXCEPT ![b] = "validate"]
      /\ work' = [work EXCEPT ![b] = w]
      /\ UNCHANGED <<slots, next_ticket, history, local, suspects>>
  BY DEF ReadPublicationState, Goto
<1>2. /\ work[b] \in Work /\ work[b] # None
      /\ BackendOK(b, slots, "publish", work[b], local[b], history)
  BY <1>1, Mine, NoneIsNoWork DEF NoWork
<1>3. /\ tr \in Ids /\ tr.snapshot_id = Len(history[CatalogOf[work[b].table]])
      /\ tr.snapshot_id \in Nat
  <2>1. work[b].table \in Tables
    BY <1>2 DEF Work
  <2>. QED
    BY <2>1, NextRowIdOK DEF Truth, SnapshotId
<1>. HIDE DEF tr
<1>4. /\ w \in Work /\ w.claim = work[b].claim /\ w.table = work[b].table
      /\ w.rows = work[b].rows /\ w.seen = tr
      /\ w.reservation_valid = work[b].reservation_valid
  BY <1>2, <1>3 DEF Work
<1>. HIDE DEF w
<1>5. w # None
  BY <1>4, NoneIsNoWork
<1>6. WorkOK("validate", w, history)
  BY <1>2, <1>3, <1>4, <1>5, SMT DEF BackendOK, WorkOK, NoWork
<1>7. BackendOK(b, slots', "validate", w, local[b], history)
  BY <1>1, <1>2, <1>4, <1>5, <1>6 DEF BackendOK, SlotOfWork, Turn
<1>8. Becomes(b, "validate", w, local[b]) /\ "validate" \in Places
  BY <1>1, Unchanging DEF Becomes, Places
<1>9. ClaimsNothing(b, w)
  BY <1>2, <1>4 DEF ClaimsNothing
<1>. QED
  BY <1>1, <1>4, <1>7, <1>8, <1>9, Mine, KeepFrame

(* A reservation whose IDs are not those of the catalog is invalidated, so *)
(* a valid one names the IDs that are claimed.                             *)
LEMMA ValidateReservationOK ==
  ASSUME IInv, NEW b \in Backends, ValidateReservation(b)
  PROVE  IInv'
<1>. DEFINE k == local[b].ticket
            lost == work[b].reservation_valid /\ ~ReservationMatches(b)
            w == [work[b] EXCEPT !.reservation_valid =
                    work[b].reservation_valid /\ ~lost]
<1>1. /\ pc[b] = "validate" /\ pc' = [pc EXCEPT ![b] = "claim"]
      /\ work' = [work EXCEPT ![b] = w]
      /\ slots' = IF lost /\ k \in DOMAIN slots THEN InvalidateFrom(slots, k) ELSE slots
      /\ UNCHANGED <<next_ticket, history, local, suspects>>
  <2>1. work' = [work EXCEPT ![b] = w]
    BY DEF ValidateReservation
  <2>2. slots' = IF lost /\ k \in DOMAIN slots THEN InvalidateFrom(slots, k) ELSE slots
    BY DEF ValidateReservation
  <2>. QED
    BY <2>1, <2>2 DEF ValidateReservation, Goto
<1>2. /\ work[b] \in Work /\ work[b] # None /\ k \in Nat
      /\ slots \in [DOMAIN slots -> Slot]
      /\ BackendOK(b, slots, "validate", work[b], local[b], history)
  BY <1>1, Mine, NoneIsNoWork DEF NoWork
<1>3. Shrinks(slots, slots') /\ (lost /\ k \in DOMAIN slots' => ~slots'[k].valid)
  <2>1. CASE lost /\ k \in DOMAIN slots
    BY <1>1, <1>2, <2>1, InvalidateOK
  <2>2. CASE ~(lost /\ k \in DOMAIN slots)
    BY <1>1, <2>2, Mine
  <2>. QED
    BY <2>1, <2>2
<1>4. ~lost => slots' = slots
  BY <1>1
<1>5. /\ w \in Work /\ w.claim = work[b].claim /\ w.table = work[b].table
      /\ w.rows = work[b].rows /\ w.seen = work[b].seen
      /\ w.reservation_valid = (work[b].reservation_valid /\ ~lost)
  BY <1>2 DEF Work
<1>6. work[b].reservation_valid /\ ~lost => ReservationMatches(b)
  OBVIOUS
<1>. HIDE DEF w, lost
<1>7. w # None
  BY <1>5, NoneIsNoWork
<1>8. ASSUME k \in DOMAIN slots', slots'[k].valid
      PROVE  /\ k \in DOMAIN slots /\ slots' = slots /\ w.reservation_valid
             /\ slots[k].snapshot_id = w.seen.snapshot_id + 1
             /\ slots[k].row_id = w.seen.row_id
  <2>1. ~lost /\ slots' = slots
    BY <1>3, <1>4, <1>8
  <2>2. work[b].reservation_valid
    BY <1>2, <1>8, <2>1 DEF BackendOK, SlotOfWork
  <2>3. ReservationMatches(b)
    BY <1>6, <2>1, <2>2
  <2>4. [snapshot_id |-> slots[k].snapshot_id, row_id |-> slots[k].row_id] = FinalIds(b)
    BY <2>3 DEF ReservationMatches
  <2>5. /\ slots[k].snapshot_id = work[b].seen.snapshot_id + 1
        /\ slots[k].row_id = work[b].seen.row_id
    BY <2>4 DEF FinalIds
  <2>. QED
    BY <1>5, <1>8, <2>1, <2>2, <2>5
<1>9. BackendOK(b, slots', "claim", w, local[b], history)
  <2>1. BackendOK(b, slots', "validate", work[b], local[b], history)
    BY <1>2, <1>3, BackendSurvives
  <2>2. WorkOK("claim", w, history) /\ ~local[b].published
    BY <1>2, <1>5, <1>7 DEF BackendOK, WorkOK, NoWork
  <2>3. ASSUME k \in DOMAIN slots', slots'[k].valid
        PROVE  SlotOfWork(slots'[k], "claim", w, local[b].published, history)
    BY <1>5, <1>8, <2>1, <2>2, <2>3 DEF BackendOK, SlotOfWork
  <2>4. Turn("validate", local[b].published)
    BY DEF Turn
  <2>5. ASSUME k \in DOMAIN slots', slots'[k].valid
        PROVE  \A j \in PendingSlots(slots', Catalog(slots', k)) : k <= j
    BY <2>1, <2>4, <2>5 DEF BackendOK
  <2>6. k \in DOMAIN slots' =>
          slots'[k].owner = b /\ ~slots'[k].committed /\ slots'[k].table = w.table
    BY <1>2, <1>5, <2>1 DEF BackendOK
  <2>. QED
    BY <2>2, <2>3, <2>5, <2>6 DEF BackendOK
<1>10. Becomes(b, "claim", w, local[b]) /\ "claim" \in Places
  BY <1>1, Unchanging DEF Becomes, Places
<1>11. ClaimsNothing(b, w)
  BY <1>2, <1>5 DEF ClaimsNothing
<1>. QED
  BY <1>1, <1>3, <1>5, <1>9, <1>10, <1>11, KeepFrame

(* A lost claim invalidates the reservation and those after it.            *)
LEMMA ClaimConflictOK ==
  ASSUME IInv, NEW b \in Backends, ClaimConflict(b)
  PROVE  IInv'
<1>. DEFINE k == local[b].ticket
            w == [work[b] EXCEPT !.reservation_valid = FALSE]
<1>1. /\ pc[b] = "claim" /\ pc' = [pc EXCEPT ![b] = "publish"]
      /\ work' = [work EXCEPT ![b] = w]
      /\ slots' = IF work[b].reservation_valid /\ k \in DOMAIN slots
                    THEN InvalidateFrom(slots, k) ELSE slots
      /\ UNCHANGED <<next_ticket, history, local, suspects>>
  BY DEF ClaimConflict, Goto
<1>2. /\ work[b] \in Work /\ work[b] # None /\ k \in Nat
      /\ slots \in [DOMAIN slots -> Slot]
      /\ BackendOK(b, slots, "claim", work[b], local[b], history)
  BY <1>1, Mine, NoneIsNoWork DEF NoWork
<1>3. Shrinks(slots, slots') /\ (k \in DOMAIN slots' => ~slots'[k].valid)
  <2>1. CASE work[b].reservation_valid /\ k \in DOMAIN slots
    BY <1>1, <1>2, <2>1, InvalidateOK
  <2>2. CASE ~(work[b].reservation_valid /\ k \in DOMAIN slots)
    <3>1. slots' = slots
      BY <1>1, <2>2
    <3>. QED
      BY <1>2, <2>2, <3>1, Mine DEF BackendOK, SlotOfWork
  <2>. QED
    BY <2>1, <2>2
<1>4. /\ w \in Work /\ w.claim = work[b].claim /\ w.table = work[b].table
      /\ w.seen = work[b].seen
  BY <1>2 DEF Work
<1>. HIDE DEF w
<1>5. w # None
  BY <1>4, NoneIsNoWork
<1>6. BackendOK(b, slots', "publish", w, local[b], history)
  <2>1. BackendOK(b, slots', "claim", work[b], local[b], history)
    BY <1>2, <1>3, BackendSurvives
  <2>. QED
    BY <1>2, <1>3, <1>4, <1>5, <2>1 DEF BackendOK, WorkOK, NoWork
<1>7. Becomes(b, "publish", w, local[b]) /\ "publish" \in Places
  BY <1>1, Unchanging DEF Becomes, Places
<1>8. ClaimsNothing(b, w)
  BY <1>2, <1>4 DEF ClaimsNothing
<1>. QED
  BY <1>1, <1>3, <1>4, <1>6, <1>7, <1>8, KeepFrame

(* The number after the latest one is the only one between it and its      *)
(* successor.                                                              *)
LEMMA NextOfTheLast ==
  ASSUME NEW m \in Nat, NEW n \in Nat, n <= m, m < n + 1
  PROVE  n + 1 = m + 1 /\ n + 1 \in Nat /\ n + 1 # 0
  BY SMT

(* The claim is the next snapshot of the catalog, and nobody else has it.  *)
LEMMA ClaimOK ==
  ASSUME IInv, NEW b \in Backends, Claim(b)
  PROVE  IInv'
<1>. DEFINE s == work[b].seen.snapshot_id + 1
            c == CatalogOf[work[b].table]
            w == [work[b] EXCEPT !.claim = s]
            l == [local[b] EXCEPT !.published = local[b].ticket # 0]
<1>1. /\ pc[b] = "claim" /\ pc' = [pc EXCEPT ![b] = "written"]
      /\ Len(history[c]) < s /\ ~KeyIsHeld(c, s)
      /\ work' = [work EXCEPT ![b] = w] /\ local' = [local EXCEPT ![b] = l]
      /\ UNCHANGED <<slots, next_ticket, history, suspects>>
  BY DEF Claim, Goto, FinalIds, SnapshotId
<1>2. /\ work[b] \in Work /\ work[b] # None /\ local[b] \in Locals
      /\ slots \in [DOMAIN slots -> Slot]
      /\ BackendOK(b, slots, "claim", work[b], local[b], history)
      /\ local[b].ticket \in Nat /\ local[b].ticket < next_ticket
  BY <1>1, Mine, NoneIsNoWork DEF NoWork
<1>3. s = Len(history[c]) + 1 /\ s \in Nat /\ s # 0
  <2>1. work[b].table \in Tables /\ work[b].seen.snapshot_id \in Nat
    BY <1>2 DEF Work, Ids
  <2>2. Len(history[c]) \in Nat
    BY <2>1, NextRowIdOK DEF SnapshotId
  <2>3. work[b].seen.snapshot_id <= Len(history[c])
    BY <1>2 DEF BackendOK, WorkOK
  <2>. QED
    <3>1. Len(history[c]) < work[b].seen.snapshot_id + 1
      BY <1>1
    <3>. QED
      BY <2>1, <2>2, <2>3, <3>1, NextOfTheLast
<1>4. s = work[b].seen.snapshot_id + 1 /\ c = CatalogOf[work[b].table]
  OBVIOUS
<1>. HIDE DEF s, c
<1>5. /\ w \in Work /\ w.claim = s /\ w.table = work[b].table
      /\ w.rows = work[b].rows /\ w.seen = work[b].seen
  BY <1>2, <1>3 DEF Work
<1>6. /\ l \in Locals /\ l.ticket = local[b].ticket
      /\ l.published <=> local[b].ticket # 0
  BY <1>2 DEF Locals
<1>. HIDE DEF w, l
<1>7. w # None
  BY <1>5, NoneIsNoWork
<1>8. BackendOK(b, slots, "written", w, l, history)
  <2>1. WorkOK("written", w, history)
    BY <1>2, <1>3, <1>4, <1>5, <1>7 DEF BackendOK, WorkOK, NoWork
  <2>2. ASSUME l.ticket \in DOMAIN slots, slots[l.ticket].valid
        PROVE  SlotOfWork(slots[l.ticket], "written", w, l.published, history)
    BY <1>2, <1>4, <1>5, <1>6, <2>2 DEF BackendOK, SlotOfWork
  <2>. QED
    BY <1>2, <1>5, <1>6, <1>7, <2>1, <2>2 DEF BackendOK, Turn
<1>9. \A a \in Backends : local'[a].ticket = local[a].ticket
  BY <1>1, <1>6 DEF IInv, TypeOK
<1>10. OwnersOK(slots', local')
  BY <1>1, <1>2, <1>9 DEF OwnersOK, IInv, Slot
<1>11. ClaimsAreUnique'
  <2>1. \A a \in Backends : work'[a] = IF a = b THEN w ELSE work[a]
    BY <1>1 DEF IInv, TypeOK
  <2>2. ASSUME NEW a \in Backends, work[a] # None, work[a].claim # 0,
               CatalogOf[work[a].table] = c
        PROVE  FALSE
    <3>1. work[a].claim = s
      BY <1>3, <2>2, Mine DEF BackendOK, WorkOK
    <3>. QED
      BY <1>1, <2>2, <3>1 DEF KeyIsHeld
  <2>. QED
    <3>1. SUFFICES ASSUME NEW a \in Backends, NEW e \in Backends, a # e,
                          work'[a] # None, work'[e] # None,
                          work'[a].claim # 0, work'[e].claim # 0,
                          CatalogOf[work'[a].table] = CatalogOf[work'[e].table]
                   PROVE  FALSE
      BY DEF ClaimsAreUnique
    <3>2. CASE a # b /\ e # b
      BY <2>1, <3>1, <3>2 DEF ClaimsAreUnique, IInv
    <3>3. CASE a = b
      BY <1>4, <1>5, <2>1, <2>2, <3>1, <3>3
    <3>4. CASE e = b
      BY <1>4, <1>5, <2>1, <2>2, <3>1, <3>4, ZenonT(30)
    <3>. QED
      BY <3>2, <3>3, <3>4
<1>12. Becomes(b, "written", w, l) /\ "written" \in Places
  BY <1>1, Unchanging DEF Becomes, Places
<1>13. /\ next_ticket' \in next_ticket .. MaxTicket /\ l.ticket < next_ticket'
       /\ DOMAIN slots' \subseteq 1 .. next_ticket' - 1
       /\ Cardinality(DOMAIN slots') <= Capacity
  BY <1>1, <1>2, <1>6, QueueConstants, SMT DEF IInv, TypeOK
<1>14. /\ InOrder(slots') /\ AnchorsOK(slots', history)
       /\ slots' \in [DOMAIN slots' -> Slot]
       /\ \A a \in Backends : BackendOK(a, slots', pc[a], work[a], local[a], history)
       /\ BackendOK(b, slots', "written", w, l, history)
  BY <1>1, <1>2, <1>8 DEF IInv
<1>. QED
  BY <1>1, <1>5, <1>6, <1>10, <1>11, <1>12, <1>13, <1>14, Frame

-----------------------------------------------------------------------------
(* The end of a transaction.                                               *)

Commits == [table : Tables, row_id : Nat, rows : Nat]

(* h is the history after the commit e of the catalog c; a holds no key of *)
(* that catalog.                                                           *)
Grows(h, c, e) == h = [history EXCEPT ![c] = Append(history[c], e)]

HoldsNoKey(a, c) ==
  work[a] = None \/ work[a].claim = 0 \/ CatalogOf[work[a].table] # c

(* A commit of the catalog c: what was true stays true, and so do the      *)
(* claims of the backends that hold no key of that catalog.                *)
LEMMA HistoryGrows ==
  ASSUME IInv, NEW c \in Catalogs, NEW e \in Commits, NEW h, Grows(h, c, e)
  PROVE  /\ h \in [Catalogs -> Seq(Commits)]
         /\ Len(history[c]) \in Nat /\ Len(history[c]) + 1 \in DOMAIN h[c]
         /\ h[c][Len(history[c]) + 1] = e
         /\ AnchorsOK(slots, h)
         /\ \A a \in Backends :
              HoldsNoKey(a, c) => BackendOK(a, slots, pc[a], work[a], local[a], h)
<1>. DEFINE H == history[c]
<1>1. history \in [Catalogs -> Seq(Commits)] /\ H \in Seq(Commits)
  BY DEF IInv, TypeOK, Commits
<1>2. /\ Append(H, e) \in Seq(Commits) /\ Len(Append(H, e)) = Len(H) + 1
      /\ Len(H) \in Nat /\ Append(H, e)[Len(H) + 1] = e
      /\ \A i \in 1 .. Len(H) : Append(H, e)[i] = H[i]
      /\ DOMAIN H = 1 .. Len(H) /\ DOMAIN Append(H, e) = 1 .. Len(H) + 1
  BY <1>1, SMT
<1>3. /\ h \in [Catalogs -> Seq(Commits)] /\ h[c] = Append(H, e)
      /\ \A d \in Catalogs : d # c => h[d] = history[d]
  BY <1>1, <1>2 DEF Grows
<1>. HIDE DEF H
<1>4. /\ Len(h[c]) = Len(H) + 1 /\ Len(H) + 1 \in DOMAIN h[c]
      /\ h[c][Len(H) + 1] = e
      /\ \A i \in DOMAIN H : i \in DOMAIN h[c] /\ h[c][i] = H[i]
  <2>1. Len(H) + 1 \in 1 .. Len(H) + 1 /\ 1 .. Len(H) \subseteq 1 .. Len(H) + 1
    BY <1>2, SMT
  <2>. QED
    BY <1>2, <1>3, <2>1
<1>5. ASSUME NEW s \in Slot, IsTrue(s, history)
      PROVE  IsTrue(s, h)
  <2>1. CatalogOf[s.table] \in Catalogs
    BY QueueConstants DEF Slot
  <2>2. CASE CatalogOf[s.table] = c
    BY <1>4, <1>5, <2>2 DEF IsTrue, H
  <2>3. CASE CatalogOf[s.table] # c
    BY <1>3, <1>5, <2>1, <2>3 DEF IsTrue
  <2>. QED
    BY <2>2, <2>3
<1>6. slots \in [DOMAIN slots -> Slot]
  BY DEF IInv, TypeOK
<1>7. AnchorsOK(slots, h)
  BY <1>5, <1>6 DEF AnchorsOK, IInv
<1>8. ASSUME NEW a \in Backends, HoldsNoKey(a, c)
      PROVE  BackendOK(a, slots, pc[a], work[a], local[a], h)
  <2>1. /\ BackendOK(a, slots, pc[a], work[a], local[a], history)
        /\ work[a] \in Work \cup {None}
    BY Mine
  <2>2. WorkOK(pc[a], work[a], history)
    BY <2>1 DEF BackendOK
  <2>3. WorkOK(pc[a], work[a], h)
    <3>1. CASE work[a] = None
      BY <2>2, <3>1 DEF WorkOK
    <3>2. CASE work[a] # None
      <4>1. work[a].table \in Tables /\ work[a].seen.snapshot_id \in Nat
        BY <2>1, <3>2 DEF Work, Ids
      <4>2. CatalogOf[work[a].table] \in Catalogs
        BY <4>1, QueueConstants
      <4>3. work[a].seen.snapshot_id <= Len(history[CatalogOf[work[a].table]])
        BY <2>2, <3>2 DEF WorkOK
      <4>4. CASE CatalogOf[work[a].table] = c
        <5>1. work[a].claim = 0 /\ work[a].seen.snapshot_id <= Len(H) + 1
          BY <1>2, <1>8, <3>2, <4>1, <4>3, <4>4, SMT DEF H, HoldsNoKey
        <5>. QED
          BY <1>4, <2>2, <4>4, <5>1 DEF WorkOK
      <4>5. CASE CatalogOf[work[a].table] # c
        BY <1>3, <2>2, <4>2, <4>5 DEF WorkOK
      <4>. QED
        BY <4>4, <4>5
    <3>. QED
      BY <3>1, <3>2
  <2>4. ASSUME local[a].ticket \in DOMAIN slots, slots[local[a].ticket].valid
        PROVE  SlotOfWork(slots[local[a].ticket], pc[a], work[a], local[a].published, h)
    <3>1. SlotOfWork(slots[local[a].ticket], pc[a], work[a], local[a].published, history)
      BY <2>1, <2>4 DEF BackendOK
    <3>2. slots[local[a].ticket] \in Slot
      BY <1>6, <2>4
    <3>. QED
      BY <1>5, <3>1, <3>2 DEF SlotOfWork
  <2>. QED
    BY <2>1, <2>3, <2>4 DEF BackendOK
<1>. QED
  BY <1>2, <1>3, <1>4, <1>7, <1>8 DEF H

(* A step that changes the history, and of the backends at most the work.  *)
LEMMA HistoryFrame ==
  ASSUME IInv, UNCHANGED <<slots, next_ticket, local, suspects>>,
         history' \in [Catalogs -> Seq(Commits)],
         pc' \in [Backends -> Places], work' \in [Backends -> Work \cup {None}],
         AnchorsOK(slots, history'), ClaimsAreUnique',
         \A a \in Backends : BackendOK(a, slots, pc'[a], work'[a], local[a], history')
  PROVE  IInv'
<1>1. TypeOK'
  BY DEF IInv, TypeOK, Commits
<1>2. TicketsOK'
  BY DEF IInv, TicketsOK
<1>. QED
  BY <1>1, <1>2 DEF IInv

(* A commit without a reservation extends the history, which leaves        *)
(* anchors in it, and cannot take a snapshot that a backend has claimed.   *)
LEMMA OtherCommitOK ==
  ASSUME IInv, NEW t \in Tables, OtherCommit(t)
  PROVE  IInv'
<1>. DEFINE c == CatalogOf[t]
<1>1. PICK n \in 0 .. MaxRows :
        history' = [history EXCEPT ![c] =
          Append(history[c], [table |-> t, row_id |-> NextRowId(t), rows |-> n])]
  BY DEF OtherCommit
<1>. DEFINE e == [table |-> t, row_id |-> NextRowId(t), rows |-> n]
<1>2. e \in Commits /\ c \in Catalogs
  <2>1. n \in Nat /\ NextRowId(t) \in Nat
    BY NextRowIdOK, QueueConstants, SMT
  <2>. QED
    BY <2>1, QueueConstants DEF Commits
<1>3. /\ ~KeyIsHeld(c, Len(history[c]) + 1)
      /\ UNCHANGED <<slots, next_ticket, pc, work, local, suspects>>
  BY DEF OtherCommit, SnapshotId
<1>4. Grows(history', c, e)
  BY <1>1 DEF Grows
<1>. HIDE DEF e
<1>5. ASSUME NEW a \in Backends
      PROVE  HoldsNoKey(a, c)
  BY <1>3, Mine, SMT DEF HoldsNoKey, KeyIsHeld, BackendOK, WorkOK
<1>. HIDE DEF c
<1>6. /\ history' \in [Catalogs -> Seq(Commits)] /\ AnchorsOK(slots, history')
      /\ \A a \in Backends : BackendOK(a, slots, pc[a], work[a], local[a], history')
  BY <1>2, <1>4, <1>5, HistoryGrows
<1>7. ClaimsAreUnique' /\ pc' \in [Backends -> Places]
        /\ work' \in [Backends -> Work \cup {None}]
  BY <1>3 DEF ClaimsAreUnique, IInv, TypeOK
<1>. QED
  BY <1>3, <1>6, <1>7, HistoryFrame

(* A commit puts the claimed entry into the history; the slot is still as  *)
(* it was, until the callback.                                             *)
LEMMA CommitTransactionOK ==
  ASSUME IInv, NEW b \in Backends, CommitTransaction(b)
  PROVE  IInv'
<1>. DEFINE w == work[b]
            c == CatalogOf[w.table]
            e == [table |-> w.table, row_id |-> w.seen.row_id, rows |-> w.rows]
            k == local[b].ticket
<1>1. /\ pc[b] = "written" /\ pc' = [pc EXCEPT ![b] = "committed"]
      /\ work' = [work EXCEPT ![b] = None]
      /\ history' = IF w.claim = 0 THEN history
                    ELSE [history EXCEPT ![c] = Append(history[c], e)]
      /\ UNCHANGED <<slots, next_ticket, local, suspects>>
  BY DEF CommitTransaction, Goto
<1>2. /\ w \in Work /\ w # None /\ slots \in [DOMAIN slots -> Slot]
      /\ BackendOK(b, slots, "written", w, local[b], history)
  BY <1>1, Mine, NoneIsNoWork DEF NoWork
<1>3. /\ pc' \in [Backends -> Places] /\ work' \in [Backends -> Work \cup {None}]
      /\ \A a \in Backends : /\ pc'[a] = IF a = b THEN "committed" ELSE pc[a]
                             /\ work'[a] = IF a = b THEN None ELSE work[a]
  BY <1>1 DEF IInv, TypeOK, Places
<1>4. ClaimsAreUnique'
  <2>1. ClaimsNothing(b, None)
    BY DEF ClaimsNothing
  <2>. QED
    BY <1>1, <2>1, ClaimsKept
<1>5. e \in Commits /\ c \in Catalogs
  BY <1>2, QueueConstants DEF Work, Ids, Commits
<1>6. /\ history' \in [Catalogs -> Seq(Commits)] /\ AnchorsOK(slots, history')
      /\ \A a \in Backends \ {b} :
           BackendOK(a, slots, pc[a], work[a], local[a], history')
  <2>1. CASE w.claim = 0
    BY <1>1, <2>1, Mine DEF IInv, TypeOK, Commits
  <2>2. CASE w.claim # 0
    <3>1. Grows(history', c, e)
      BY <1>1, <2>2 DEF Grows
    <3>2. ASSUME NEW a \in Backends \ {b}
          PROVE  HoldsNoKey(a, c)
      BY <1>2, <2>2 DEF HoldsNoKey, IInv, ClaimsAreUnique
    <3>. HIDE DEF c, e
    <3>. QED
      BY <1>5, <3>1, <3>2, HistoryGrows
  <2>. QED
    BY <2>1, <2>2
<1>7. ASSUME k \in DOMAIN slots, slots[k].valid, local[b].published
      PROVE  IsTrue(slots[k], history')
  <2>1. /\ SlotOfWork(slots[k], "written", w, local[b].published, history)
        /\ slots[k].table = w.table
    BY <1>2, <1>7 DEF BackendOK
  <2>2. /\ slots[k].row_count = w.rows /\ slots[k].row_id = w.seen.row_id
        /\ slots[k].snapshot_id = w.seen.snapshot_id + 1
        /\ w.claim = w.seen.snapshot_id + 1
    BY <1>7, <2>1 DEF SlotOfWork
  <2>3. w.claim # 0 /\ w.seen.snapshot_id \in Nat
    BY <1>2, <2>2, SMT DEF Work, Ids
  <2>4. w.claim = Len(history[c]) + 1
    BY <1>2, <2>3 DEF BackendOK, WorkOK
  <2>5. Grows(history', c, e)
    BY <1>1, <2>3 DEF Grows
  <2>6. /\ Len(history[c]) + 1 \in DOMAIN history'[c]
        /\ history'[c][Len(history[c]) + 1] = e
    <3>. HIDE DEF c, e
    <3>. QED
      BY <1>5, <2>5, HistoryGrows
  <2>. QED
    BY <2>1, <2>2, <2>4, <2>6 DEF IsTrue
<1>8. BackendOK(b, slots, "committed", None, local[b], history')
  <2>1. WorkOK("committed", None, history')
    BY DEF WorkOK, NoWork
  <2>2. ASSUME k \in DOMAIN slots, slots[k].valid
        PROVE  SlotOfWork(slots[k], "committed", None, local[b].published, history')
    BY <1>7, <2>2 DEF SlotOfWork
  <2>. QED
    BY <1>2, <2>1, <2>2 DEF BackendOK, Turn
<1>9. \A a \in Backends : BackendOK(a, slots, pc'[a], work'[a], local[a], history')
  BY <1>3, <1>6, <1>8
<1>. QED
  BY <1>1, <1>3, <1>4, <1>6, <1>9, HistoryFrame

(* An abort leaves the slot to the callback; until then it is as it was.   *)
LEMMA AbortTransactionOK ==
  ASSUME IInv, NEW b \in Backends, AbortTransaction(b)
  PROVE  IInv'
<1>1. /\ pc[b] \notin NoWork /\ pc' = [pc EXCEPT ![b] = "aborted"]
      /\ work' = [work EXCEPT ![b] = None]
      /\ suspects' = [suspects EXCEPT ![b] = {}]
      /\ UNCHANGED <<slots, next_ticket, history, local>>
  BY DEF AbortTransaction, Running, NoWork
<1>2. BackendOK(b, slots', "aborted", None, local[b], history)
  <2>1. WorkOK("aborted", None, history)
    BY DEF WorkOK, NoWork
  <2>2. \A s : SlotOfWork(s, "aborted", None, local[b].published, history)
    BY DEF SlotOfWork
  <2>. QED
    BY <1>1, <2>1, <2>2, Mine DEF BackendOK, Turn
<1>3. Becomes(b, "aborted", None, local[b]) /\ "aborted" \in Places
  <2>1. suspects' \in [Backends -> SUBSET (1 .. MaxTicket)]
    BY <1>1 DEF IInv, TypeOK
  <2>. QED
    BY <1>1, <2>1, Unchanging DEF Becomes, Places
<1>4. ClaimsNothing(b, None)
  BY DEF ClaimsNothing
<1>. QED
  BY <1>1, <1>2, <1>3, <1>4, Mine, KeepFrame

(* A transaction that leaves no anchor: its reservation goes, and with it  *)
(* the claims on it.                                                       *)
LEMMA ReservationRemoved ==
  ASSUME IInv, NEW b \in Backends, NEW p \in {"idle", "exiting"},
         p = "idle" => work[b] = None, p = "exiting" => pc[b] \notin NoWork,
         slots' = DropFrom(slots, local[b].ticket),
         local' = [local EXCEPT ![b] = NoReservation],
         pc' = [pc EXCEPT ![b] = p],
         suspects' \in [Backends -> SUBSET (1 .. MaxTicket)],
         UNCHANGED <<next_ticket, history, work>>
  PROVE  IInv'
<1>1. /\ slots \in [DOMAIN slots -> Slot] /\ local \in [Backends -> Locals]
      /\ work[b] \in Work \cup {None} /\ 0 \notin DOMAIN slots
      /\ next_ticket \in Nat /\ 0 < next_ticket
      /\ BackendOK(b, slots, pc[b], work[b], local[b], history)
  BY Mine, QueueConstants, SMT DEF IInv, TypeOK, Locals
<1>2. Shrinks(slots, slots') /\ local[b].ticket \notin DOMAIN slots'
  BY <1>1, DropFromOK
<1>3. OwnersOK(slots', local')
  <2>1. OwnersOK(slots', local)
    BY <1>1, <1>2, SlotsSurvive DEF IInv
  <2>2. SUFFICES ASSUME NEW k \in DOMAIN slots', ~slots'[k].committed
                 PROVE  local'[slots'[k].owner].ticket = k
    BY DEF OwnersOK
  <2>3. local[slots'[k].owner].ticket = k /\ slots'[k].owner \in Backends
    BY <1>2, <2>1, <2>2 DEF OwnersOK, Shrinks, Like, Slot
  <2>4. slots'[k].owner # b
    BY <1>2, <2>2, <2>3
  <2>. QED
    BY <1>1, <2>3, <2>4
<1>4. NoReservation \in Locals /\ NoReservation.ticket < next_ticket
  BY <1>1, QueueConstants, SMT DEF NoReservation, Locals
<1>5. NoReservation.ticket \notin DOMAIN slots' /\ ~NoReservation.published
  BY <1>1, <1>2 DEF Shrinks, NoReservation
<1>6. WorkOK(p, work[b], history)
  <2>1. WorkOK(pc[b], work[b], history)
    BY <1>1 DEF BackendOK
  <2>2. CASE p = "idle"
    BY <2>2 DEF WorkOK, NoWork
  <2>3. CASE p = "exiting"
    BY <2>1, <2>3 DEF WorkOK, NoWork
  <2>. QED
    BY <2>2, <2>3
<1>7. BackendOK(b, slots', p, work[b], NoReservation, history)
  BY <1>5, <1>6 DEF BackendOK
<1>8. Becomes(b, p, work[b], NoReservation) /\ p \in Places
  BY Unchanging DEF Becomes, Places
<1>9. ClaimsNothing(b, work[b])
  BY DEF ClaimsNothing
<1>. QED
  BY <1>1, <1>2, <1>3, <1>4, <1>7, <1>8, <1>9, ShrinkFrame

(* A transaction that published by its reservation leaves an anchor: t is  *)
(* the slot s, committed.                                                  *)
IsAnchorOf(t, s) ==
  /\ t \in Slot /\ t.committed /\ t.valid = s.valid /\ t.owner = s.owner
  /\ t.table = s.table /\ t.snapshot_id = s.snapshot_id
  /\ t.row_id = s.row_id /\ t.row_count = s.row_count
  /\ t.row_assigned = s.row_assigned /\ t.row_count_known = s.row_count_known

(* The slots after the commit callback: the own slot has become an anchor, *)
(* which names the entry the history has just got.                         *)
LEMMA AnchorSlots ==
  ASSUME IInv, NEW b \in Backends, pc[b] = "committed", HasValidSlot(b),
         local[b].published, NEW t, IsAnchorOf(t, slots[local[b].ticket]),
         NEW T, T = [slots EXCEPT ![local[b].ticket] = t],
         NEW l, l = [local EXCEPT ![b] = NoReservation]
  PROVE  /\ DOMAIN T = DOMAIN slots /\ T \in [DOMAIN T -> Slot]
         /\ InOrder(T) /\ AnchorsOK(T, history) /\ OwnersOK(T, l)
         /\ \A a \in Backends \ {b} :
              BackendOK(a, T, pc[a], work[a], local[a], history)
<1>. DEFINE k == local[b].ticket
<1>1. k \in DOMAIN slots /\ slots[k].valid /\ slots[k].owner = b
        /\ IsTrue(slots[k], history)
  <2>1. BackendOK(b, slots, "committed", work[b], local[b], history)
    BY Mine
  <2>2. k \in DOMAIN slots /\ slots[k].valid
    BY DEF HasValidSlot
  <2>3. slots[k].owner = b /\ SlotOfWork(slots[k], "committed", work[b],
                                         local[b].published, history)
    BY <2>1, <2>2 DEF BackendOK
  <2>. QED
    BY <2>2, <2>3 DEF SlotOfWork
<1>2. t \in Slot /\ t.owner = b /\ t.table = slots[k].table /\ t.committed
  BY <1>1 DEF IsAnchorOf
<1>3. /\ DOMAIN T = DOMAIN slots /\ T \in [DOMAIN T -> Slot]
      /\ \A i \in DOMAIN T : T[i] = IF i = k THEN t ELSE slots[i]
      /\ \A a \in Backends \ {b} :
           BackendOK(a, T, pc[a], work[a], local[a], history)
  BY <1>2, OwnSlot
<1>4. InOrder(T)
  <2>1. ASSUME NEW i \in DOMAIN T
        PROVE  /\ T[i].valid = slots[i].valid /\ T[i].table = slots[i].table
               /\ T[i].snapshot_id = slots[i].snapshot_id
               /\ T[i].row_id = slots[i].row_id
               /\ T[i].row_count = slots[i].row_count
               /\ T[i].row_assigned = slots[i].row_assigned
               /\ T[i].row_count_known = slots[i].row_count_known
    <3>1. CASE i = k
      BY <1>3, <2>1, <3>1 DEF IsAnchorOf
    <3>2. CASE i # k
      BY <1>3, <2>1, <3>2
    <3>. QED
      BY <3>1, <3>2
  <2>2. \A i, j \in DOMAIN T : Follows(slots[j], slots[i]) => Follows(T[j], T[i])
    BY <2>1, SMT DEF Follows
  <2>. QED
    BY <1>3, <2>1, <2>2, SMT DEF InOrder, IInv, Catalog
<1>5. AnchorsOK(T, history)
  <2>1. IsTrue(t, history)
    BY <1>1 DEF IsTrue, IsAnchorOf
  <2>. QED
    BY <1>3, <2>1 DEF AnchorsOK, IInv
<1>6. OwnersOK(T, l)
  <2>1. SUFFICES ASSUME NEW i \in DOMAIN T, ~T[i].committed
                 PROVE  l[T[i].owner].ticket = i
    BY DEF OwnersOK
  <2>2. i # k /\ T[i] = slots[i]
    BY <1>2, <1>3, <2>1
  <2>3. local[T[i].owner].ticket = i /\ T[i].owner \in Backends
    BY <1>3, <2>1, <2>2 DEF OwnersOK, IInv, Slot
  <2>4. T[i].owner # b
    BY <2>2, <2>3
  <2>. QED
    BY <2>3, <2>4 DEF IInv, TypeOK
<1>. QED
  BY <1>3, <1>4, <1>5, <1>6

(* The anchor replaces the older anchors of its table.                     *)
LEMMA AnchorLeft ==
  ASSUME IInv,
         NEW b \in Backends, work[b] = None, NEW T, DOMAIN T = DOMAIN slots,
         T \in [DOMAIN T -> Slot], InOrder(T), AnchorsOK(T, history),
         OwnersOK(T, local'),
         \A a \in Backends \ {b} : BackendOK(a, T, pc[a], work[a], local[a], history),
         Shrinks(T, slots'), local' = [local EXCEPT ![b] = NoReservation],
         pc' = [pc EXCEPT ![b] = "idle"],
         UNCHANGED <<next_ticket, history, work, suspects>>
  PROVE  IInv'
<1>1. /\ 0 \notin DOMAIN slots /\ next_ticket \in 1 .. MaxTicket
      /\ MaxTicket \in Nat /\ DOMAIN slots \subseteq 1 .. next_ticket - 1
      /\ suspects \in [Backends -> SUBSET (1 .. MaxTicket)]
  BY QueueConstants, SMT DEF IInv, TypeOK
<1>2. /\ InOrder(slots') /\ AnchorsOK(slots', history) /\ OwnersOK(slots', local')
      /\ slots' \in [DOMAIN slots' -> Slot] /\ DOMAIN slots' \subseteq DOMAIN slots
  BY SlotsSurvive DEF Shrinks
<1>3. \A a \in Backends \ {b} :
        BackendOK(a, slots', pc[a], work[a], local[a], history)
  BY BackendSurvives
<1>4. NoReservation \in Locals /\ NoReservation.ticket < next_ticket'
  BY <1>1, SMT DEF NoReservation, Locals
<1>5. BackendOK(b, slots', "idle", None, NoReservation, history)
  <2>1. NoReservation.ticket \notin DOMAIN slots' /\ ~NoReservation.published
    BY <1>1, <1>2 DEF NoReservation
  <2>2. WorkOK("idle", None, history)
    BY DEF WorkOK, NoWork
  <2>. QED
    BY <2>1, <2>2 DEF BackendOK
<1>6. Becomes(b, "idle", None, NoReservation) /\ "idle" \in Places
  BY <1>1, Unchanging DEF Becomes, Places
<1>7. /\ next_ticket' \in next_ticket .. MaxTicket
      /\ DOMAIN slots' \subseteq 1 .. next_ticket' - 1
  BY <1>1, <1>2, SMT
<1>8. Cardinality(DOMAIN slots') <= Capacity
  <2>1. /\ Cardinality(DOMAIN slots') <= Cardinality(DOMAIN slots)
        /\ Cardinality(DOMAIN slots') \in Nat /\ Cardinality(DOMAIN slots) \in Nat
    BY <1>2, TicketsAreFinite
  <2>. QED
    BY <2>1, QueueConstants, SMT DEF IInv, TicketsOK
<1>9. ClaimsAreUnique'
  BY DEF IInv, ClaimsAreUnique
<1>. QED
  BY <1>2, <1>3, <1>4, <1>5, <1>6, <1>7, <1>8, <1>9, Frame

(* The callback leaves an anchor after a commit that published the         *)
(* reservation, and gives the slot up otherwise.                           *)
LEMMA QueueXactCallbackOK ==
  ASSUME IInv, NEW b \in Backends, QueueXactCallback(b)
  PROVE  IInv'
<1>. DEFINE k == local[b].ticket
            older == {j \in OfTable(slots, PriorSlots(slots, k), slots[k].table) :
                        slots[j].committed}
            t == [slots[k] EXCEPT !.committed = TRUE, !.blocker = 0,
                                  !.deadline = "none"]
<1>1. /\ pc[b] \in {"committed", "aborted"}
      /\ slots' = RemoveLocalReservation(slots, local[b], pc[b] = "committed")
      /\ local' = [local EXCEPT ![b] = NoReservation]
      /\ pc' = [pc EXCEPT ![b] = "idle"]
      /\ UNCHANGED <<next_ticket, history, work, suspects>>
  BY DEF QueueXactCallback
<1>2. work[b] = None /\ suspects \in [Backends -> SUBSET (1 .. MaxTicket)]
  BY <1>1, Mine DEF BackendOK, WorkOK, NoWork, IInv, TypeOK
<1>3. CASE pc[b] = "committed" /\ local[b].published /\ HasValidSlot(b)
  <2>1. slots' = Without([slots EXCEPT ![k] = t], older)
    BY <1>1, <1>3 DEF RemoveLocalReservation, HasValidSlot
  <2>2. IsAnchorOf(t, slots[k])
    <3>1. slots[k] \in Slot
      BY <1>3, Mine DEF HasValidSlot
    <3>. QED
      BY <3>1 DEF IsAnchorOf, Slot
  <2>. HIDE DEF older, t
  <2>3. PICK T : T = [slots EXCEPT ![k] = t]
    OBVIOUS
  <2>4. /\ DOMAIN T = DOMAIN slots /\ T \in [DOMAIN T -> Slot]
        /\ InOrder(T) /\ AnchorsOK(T, history) /\ OwnersOK(T, local')
        /\ \A a \in Backends \ {b} :
             BackendOK(a, T, pc[a], work[a], local[a], history)
    BY <1>1, <1>3, <2>2, <2>3, AnchorSlots
  <2>5. Shrinks(T, slots')
    BY <2>1, <2>3, <2>4, WithoutOK
  <2>. QED
    BY <1>1, <1>2, <2>4, <2>5, AnchorLeft
<1>4. CASE ~(pc[b] = "committed" /\ local[b].published /\ HasValidSlot(b))
  <2>1. slots' = DropFrom(slots, k)
    BY <1>1, <1>4 DEF RemoveLocalReservation, HasValidSlot, DropFrom
  <2>. QED
    BY <1>1, <1>2, <2>1, ReservationRemoved
<1>. QED
  BY <1>3, <1>4

(* The exit callback of a terminated session gives up its slot before its  *)
(* transaction is aborted.                                                 *)
LEMMA QueueBackendExitOK ==
  ASSUME IInv, NEW b \in Backends, QueueBackendExit(b)
  PROVE  IInv'
<1>1. slots' = DropFrom(slots, local[b].ticket)
  BY DEF QueueBackendExit, RemoveLocalReservation, DropFrom
<1>2. suspects' \in [Backends -> SUBSET (1 .. MaxTicket)] /\ pc[b] \notin NoWork
  BY DEF QueueBackendExit, IInv, TypeOK, Running, NoWork
<1>. QED
  BY <1>1, <1>2, ReservationRemoved DEF QueueBackendExit

(* A wait that becomes overdue changes nothing that the properties speak   *)
(* of.                                                                     *)
LEMMA TimePassesOK ==
  ASSUME IInv, NEW k \in DOMAIN slots, TimePasses(k)
  PROVE  IInv'
<1>. DEFINE t == [slots[k] EXCEPT !.deadline = "expired"]
<1>1. slots \in [DOMAIN slots -> Slot] /\ slots[k] \in Slot
  BY DEF IInv, TypeOK
<1>2. t \in Slot /\ Like(t, slots[k]) /\ slots[k].owner \in Backends
  BY <1>1 DEF Slot, Like
<1>3. slots' = [slots EXCEPT ![k] = t]
  BY DEF TimePasses
<1>. HIDE DEF t
<1>4. Shrinks(slots, slots')
  BY <1>1, <1>2, <1>3, LikeSlot DEF Shrinks
<1>5. suspects' \in [Backends -> SUBSET (1 .. MaxTicket)]
  BY DEF TimePasses, IInv, TypeOK
<1>. QED
  BY <1>2, <1>4, <1>5, WaitsOn DEF TimePasses

-----------------------------------------------------------------------------
(* The invariant, and what follows from it.                                *)

(* Initially the queue is empty and nobody is in it.                       *)
LEMMA InitOK == Init => IInv
<1>. SUFFICES ASSUME Init
              PROVE  IInv
  OBVIOUS
<1>1. /\ DOMAIN slots = {} /\ next_ticket = 1
      /\ history = [c \in Catalogs |-> <<>>] /\ pc = [b \in Backends |-> "idle"]
      /\ work = [b \in Backends |-> None]
      /\ local = [b \in Backends |-> NoReservation]
      /\ suspects = [b \in Backends |-> {}]
  BY DEF Init
<1>2. Cardinality(DOMAIN slots) = 0
  BY <1>1, FS_EmptySet
<1>3. /\ 0 \in 0 .. MaxTicket /\ 1 \in 1 .. MaxTicket /\ 0 <= Capacity
      /\ MaxTicket \in Nat
  BY QueueConstants, SMT
<1>4. TypeOK
  <2>1. slots \in [DOMAIN slots -> Slot]
    BY DEF Init
  <2>2. history \in [Catalogs -> Seq([table : Tables, row_id : Nat, rows : Nat])]
    BY <1>1, SMT
  <2>3. local \in [Backends -> [ticket : 0 .. MaxTicket, published : BOOLEAN]]
    BY <1>1, <1>3 DEF NoReservation
  <2>4. pc \in [Backends -> Places]
    BY <1>1 DEF Places
  <2>. QED
    BY <1>1, <1>2, <1>3, <2>1, <2>2, <2>3, <2>4 DEF TypeOK
<1>5. NoReservation.ticket = 0 /\ ~NoReservation.published
  BY DEF NoReservation
<1>6. TicketsOK
  BY <1>1, <1>2, <1>3, <1>5, SMT DEF TicketsOK
<1>7. InOrder(slots) /\ AnchorsOK(slots, history) /\ OwnersOK(slots, local)
  BY <1>1 DEF InOrder, AnchorsOK, OwnersOK
<1>8. \A b \in Backends : BackendOK(b, slots, pc[b], work[b], local[b], history)
  BY <1>1, <1>5 DEF BackendOK, WorkOK, NoWork
<1>9. ClaimsAreUnique
  BY <1>1 DEF ClaimsAreUnique
<1>. QED
  BY <1>4, <1>6, <1>7, <1>8, <1>9 DEF IInv

(* Every step keeps the invariant.                                         *)
LEMMA StepOK == IInv /\ [Next]_vars => IInv'
<1>. SUFFICES ASSUME IInv, [Next]_vars
              PROVE  IInv'
  OBVIOUS
<1>1. ASSUME NEW b \in Backends, ReserveStep(b)
      PROVE  IInv'
  <2>1. PICK n \in Elsewhere :
          ReserveWhenFull(b, n) \/ ReserveWithoutTicket(b, n) \/ ReserveSlot(b, n)
    BY <1>1 DEF ReserveStep
  <2>. QED
    BY <2>1, NoReservationMade, ReserveSlotOK
<1>2. ASSUME NEW b \in Backends, PublishStep(b)
      PROVE  IInv'
  BY <1>2, ReadRowRangeOK, CompleteReservationOK, ReadPublicationStateOK,
     ValidateReservationOK, ClaimOK, ClaimConflictOK, CommitTransactionOK,
     QueueXactCallbackOK DEF PublishStep
<1>3. ASSUME NEW b \in Backends, FailureStep(b)
      PROVE  IInv'
  BY <1>3, AbortTransactionOK, QueueBackendExitOK DEF FailureStep
<1>4. CASE UNCHANGED vars
  <2>1. /\ TypeOK' /\ TicketsOK' /\ ClaimsAreUnique'
    BY <1>4 DEF vars, IInv, TypeOK, TicketsOK, ClaimsAreUnique
  <2>. QED
    BY <1>4, <2>1 DEF vars, IInv
<1>. QED
  BY <1>1, <1>2, <1>3, <1>4, ReadStateOK, WaitProgressOK, GiveUpOK, TimePassesOK,
     OtherCommitOK DEF Next, Idle

(* The queue keeps its books, whatever the backends do and wherever they   *)
(* stop: the slots fit the shared memory that                              *)
(* native_writer_reservation_queue_capacity asks for, tickets grow, every  *)
(* pending slot has its owner, and a claimed snapshot is the next one and  *)
(* claimed once.                                                           *)
THEOREM InvariantHolds == Spec => []IInv
  BY InitOK, StepOK, PTL DEF Spec

(* Reservations never overlap: in the order of their tickets, the valid    *)
(* slots of a catalog have growing snapshot IDs, and those of a table have *)
(* disjoint row ranges (ReserveNativeWriterPublication, WaitUntilReady,    *)
(* CompleteNativeWriterReservation).                                       *)
THEOREM ReservationsStayOrdered == Spec => []ReservationsAreOrdered
<1>1. IInv => ReservationsAreOrdered
  <2>1. SUFFICES ASSUME IInv, NEW j \in DOMAIN slots, NEW k \in DOMAIN slots,
                        slots[j].valid, slots[k].valid, j < k,
                        Catalog(slots, j) = Catalog(slots, k)
                 PROVE  /\ slots[j].snapshot_id < slots[k].snapshot_id
                        /\ slots[j].table = slots[k].table /\ slots[k].row_assigned =>
                             HasRange(slots, j) /\ RangeEnd(slots, j) <= slots[k].row_id
    BY SMTT(30) DEF ReservationsAreOrdered
  <2>2. Follows(slots[k], slots[j])
    BY <2>1 DEF IInv, InOrder
  <2>. QED
    BY <2>2, SMTT(30) DEF Follows, HasRange, RangeEnd
<1>. QED
  BY <1>1, InvariantHolds, PTL

(* An anchor that RemoveLocalReservation leaves behind names a snapshot    *)
(* that was committed, with the rows it reserved: a commit by anyone else, *)
(* a lost reservation or a retry with other IDs never leaves one.          *)
THEOREM AnchorsStayTrue == Spec => []AnchorsAreTrue
<1>1. IInv => AnchorsAreTrue
  BY ZenonT(30) DEF IInv, AnchorsOK, IsTrue, AnchorsAreTrue, Catalog
<1>. QED
  BY <1>1, InvariantHolds, PTL

(* A pending slot is the one its owner still remembers, so the owner's     *)
(* transaction callback or exit callback will remove it.                   *)
THEOREM SlotsAreOwned == Spec => []NoOrphanedSlot
<1>1. IInv => NoOrphanedSlot
  BY DEF IInv, OwnersOK, NoOrphanedSlot
<1>. QED
  BY <1>1, InvariantHolds, PTL

(* Two valid reservations of a catalog are in order, and only the first of *)
(* them has its turn.                                                      *)
LEMMA TurnsAreExclusive == IInv => OneTurnAtATime
<1>1. SUFFICES ASSUME IInv, NEW a \in Backends, NEW b \in Backends,
                      HasItsTurn(a), HasItsTurn(b),
                      Catalog(slots, local[a].ticket) = Catalog(slots, local[b].ticket)
               PROVE  a = b
  BY SMTT(30) DEF OneTurnAtATime
<1>2. ASSUME NEW e \in Backends, HasItsTurn(e)
      PROVE  LET k == local[e].ticket
             IN /\ k \in PendingSlots(slots, Catalog(slots, k)) /\ k \in Nat
                /\ slots[k].owner = e
                /\ \A j \in PendingSlots(slots, Catalog(slots, k)) : k <= j
  <2>. DEFINE k == local[e].ticket
  <2>1. k \in DOMAIN slots /\ slots[k].valid /\ Turn(pc[e], local[e].published)
    BY <1>2 DEF HasItsTurn, HasValidSlot, Turn
  <2>2. BackendOK(e, slots, pc[e], work[e], local[e], history) /\ k \in Nat
    BY <1>1, Mine, SMTT(30)
  <2>3. /\ ~slots[k].committed /\ slots[k].owner = e
        /\ \A j \in PendingSlots(slots, Catalog(slots, k)) : k <= j
    BY <2>1, <2>2 DEF BackendOK
  <2>. QED
    BY <2>1, <2>2, <2>3 DEF PendingSlots, ValidSlots
<1>3. /\ local[a].ticket <= local[b].ticket /\ local[b].ticket <= local[a].ticket
      /\ local[a].ticket \in Nat /\ local[b].ticket \in Nat
      /\ slots[local[a].ticket].owner = a /\ slots[local[b].ticket].owner = b
  BY <1>1, <1>2
<1>. QED
  BY <1>3, SMT

(* One publication of a catalog at a time, even when backends lose their   *)
(* patience, fail, or reclaim each other's slots: the backends that hold a *)
(* valid reservation and were told that it is their turn exclude each      *)
(* other until the transaction callback (IsReady, WaitUntilReady).         *)
THEOREM TurnsExcludeEachOther == Spec => []OneTurnAtATime
  BY TurnsAreExclusive, InvariantHolds, PTL

(* The same of the patient writers alone.                                  *)
THEOREM PatientTurnsExcludeEachOther == PatientSpec => []OneTurnAtATime
<1>1. [PatientNext]_vars => [Next]_vars
  BY DEF PatientNext, Next, FailureStep
<1>2. IInv /\ [PatientNext]_vars => IInv'
  BY <1>1, StepOK
<1>. QED
  BY <1>2, InitOK, TurnsAreExclusive, PTL DEF PatientSpec

(* The queue never takes more slots than it has                            *)
(* (native_writer_reservation_queue_capacity), and no ticket is used twice *)
(* (next_ticket).                                                          *)
THEOREM QueueStaysWithinCapacity ==
  Spec => [](/\ Cardinality(DOMAIN slots) <= Capacity
             /\ \A k \in DOMAIN slots : k < next_ticket)
<1>1. IInv => /\ Cardinality(DOMAIN slots) <= Capacity
              /\ \A k \in DOMAIN slots : k < next_ticket
  <2>1. ASSUME IInv
        PROVE  Cardinality(DOMAIN slots) <= Capacity
    BY <2>1 DEF IInv, TypeOK
  <2>2. ASSUME IInv, NEW k \in DOMAIN slots
        PROVE  k < next_ticket
    <3>1. next_ticket \in Nat /\ k \in 1 .. next_ticket - 1
      BY <2>2, QueueConstants, SMT DEF IInv, TypeOK
    <3>. QED
      BY <3>1, SMT
  <2>. QED
    BY <2>1, <2>2
<1>. QED
  BY <1>1, InvariantHolds, PTL

=============================================================================
