-------------------------- MODULE MotherDuckSyncProofs --------------------------
(***************************************************************************)
(* Safety of the MotherDuck sync, for any number of sessions, relations,   *)
(* catalog versions and failures.                                          *)
(*                                                                         *)
(* The argument: doing_motherduck_sync is set for as long as a process     *)
(* syncs, so nothing a sync drops is forwarded.  And the relations that a  *)
(* sync is done with are up to date (Mirrors): it either wrote their       *)
(* shells itself, with its own version, or gave up the cleanup; only       *)
(* another process can spoil that, and then the sync counts as disturbed.  *)
(***************************************************************************)
EXTENDS MotherDuckSync, SequenceTheorems, TLAPS

(* Most leaves are first-order: Zenon is tried unless another is named.    *)
USE Zenon

(* The shells of the relations that the sync q is done with are not        *)
(* outdated for it, if it will clean up.                                   *)
Mirrors(q, rels) ==
  q.phase = "relations" /\ q.ok /\ ~q.skipped /\ ~q.disturbed =>
    \A r \in q.view \ q.todo :
      rels[r].kind = "shell" => rels[r].version \in {0, q.version}

(* The sync variables q of process p, in a catalog of len versions.        *)
SyncOK(p, q, rels, len) ==
  /\ q \in Syncs
  /\ q.local <= len
  /\ p = Worker => q.doing
  /\ p # Worker => (q.doing <=> q.phase # "idle")
  /\ Mirrors(q, rels)

StateOK ==
  /\ catalog \in Seq(SUBSET Relations) /\ Len(catalog) \in 1..MaxVersion
  /\ schema \in {"absent", "denied", "granted"}
  /\ is_default_db \in BOOLEAN
  /\ relations \in [Relations -> RelationStates]
  /\ failures \in 0..MaxFailures

IInv ==
  /\ StateOK
  /\ proc \in [Processes -> Syncs]
  /\ \A p \in Processes : SyncOK(p, proc[p], relations, Len(catalog))

(* A step that writes no shell.                                            *)
NoNewShell ==
  \A r \in Relations : relations'[r].kind = "shell" => relations'[r] = relations[r]

-----------------------------------------------------------------------------
(* The sync variables of one process.                                      *)

(* A sync that is disturbed claims nothing of the shells, nor does a       *)
(* process that is idle.                                                   *)
LEMMA DisturbedOK ==
  ASSUME NEW p, NEW q, NEW rels, NEW len, NEW rels2, NEW len2 \in Nat,
         len \in Nat, len <= len2, SyncOK(p, q, rels, len)
  PROVE  SyncOK(p, IF q.phase # "idle" THEN [q EXCEPT !.disturbed = TRUE] ELSE q,
                rels2, len2)
<1>1. q.local \in Nat
  BY SyncConstants, SMT DEF SyncOK, Syncs
<1>2. CASE q.phase # "idle"
  <2>. DEFINE e == [q EXCEPT !.disturbed = TRUE]
  <2>1. /\ e \in Syncs /\ e.local = q.local /\ e.doing = q.doing
        /\ e.phase = q.phase /\ e.disturbed
    BY DEF SyncOK, Syncs
  <2>. HIDE DEF e
  <2>2. SyncOK(p, e, rels2, len2)
    BY <1>1, <2>1, SMT DEF SyncOK, Mirrors
  <2>. QED
    BY <1>2, <2>2 DEF e
<1>3. CASE q.phase = "idle"
  BY <1>1, <1>3, SMT DEF SyncOK, Mirrors
<1>. QED
  BY <1>2, <1>3

(* A step that writes no shell leaves every sync as it was.                *)
LEMMA KeptOK ==
  ASSUME NEW p, NEW q, NEW rels, NEW len \in Nat, NEW rels2, NEW len2 \in Nat,
         len <= len2, SyncOK(p, q, rels, len),
         \A r \in Relations : rels2[r].kind = "shell" => rels2[r] = rels[r]
  PROVE  SyncOK(p, q, rels2, len2)
<1>1. q.local \in Nat /\ q.view \subseteq Relations
  BY SyncConstants, SMT DEF SyncOK, Syncs
<1>2. q.local <= len2
  BY <1>1, SMT DEF SyncOK
<1>3. Mirrors(q, rels2)
  BY <1>1 DEF SyncOK, Mirrors
<1>. QED
  BY <1>2, <1>3 DEF SyncOK

(* The end of a sync, with or without an error.                            *)
LEMMA EndOK ==
  ASSUME NEW p, NEW q, NEW rels, NEW len \in Nat, NEW rels2, NEW len2 \in Nat,
         len <= len2, 1 <= len2, SyncOK(p, q, rels, len)
  PROVE  /\ SyncOK(p, EndSync(p, q), rels2, len2)
         /\ SyncOK(p, AfterError(p, q), rels2, len2)
         /\ EndSync(p, q).phase = "idle" /\ AfterError(p, q).phase = "idle"
<1>1. /\ 0 \in 0..MaxVersion /\ 1 \in 1..MaxVersion
      /\ q.local \in 1..MaxVersion /\ q.last_known \in 0..MaxVersion
      /\ q.local \in Nat /\ q.local <= len
  BY SyncConstants, SMT DEF SyncOK, Syncs
<1>. DEFINE d == p = Worker
            k == IF p = Worker THEN q.last_known ELSE 0
            e == EndSync(p, q)
<1>2. d \in BOOLEAN /\ k \in 0..MaxVersion
  BY <1>1
<1>3. e = [Idle EXCEPT !.local = q.local, !.doing = d, !.last_known = k]
  BY DEF EndSync
<1>. HIDE DEF d, k, e
<1>4. /\ e \in Syncs /\ e.local = q.local /\ e.phase = "idle" /\ e.doing = d
  BY <1>1, <1>2, <1>3 DEF Idle, Syncs
<1>5. SyncOK(p, e, rels2, len2)
  <2>1. e.local <= len2
    BY <1>1, <1>4, SMT
  <2>2. (p = Worker => e.doing) /\ (p # Worker => ~e.doing)
    BY <1>4 DEF d
  <2>3. Mirrors(e, rels2)
    BY <1>4 DEF Mirrors
  <2>. QED
    BY <1>4, <2>1, <2>2, <2>3 DEF SyncOK
<1>6. /\ Started \in Syncs /\ Started.local = 1 /\ Started.phase = "idle"
      /\ Started.doing
  BY <1>1 DEF Started, Idle, Syncs
<1>7. SyncOK(Worker, Started, rels2, len2)
  BY <1>6 DEF SyncOK, Mirrors
<1>. QED
  BY <1>4, <1>5, <1>6, <1>7 DEF e, AfterError

-----------------------------------------------------------------------------
(* All processes.                                                          *)

(* No process changes.                                                     *)
LEMMA NobodySteps ==
  ASSUME IInv, StateOK', Len(catalog) <= Len(catalog'), NoNewShell, proc' = proc
  PROVE  IInv'
<1>1. Len(catalog) \in Nat /\ Len(catalog') \in Nat
  BY SMT DEF IInv, StateOK
<1>2. \A p \in Processes : SyncOK(p, proc[p], relations', Len(catalog'))
  BY <1>1, KeptOK DEF IInv, NoNewShell
<1>. QED
  BY <1>2 DEF IInv

(* One process becomes q, and nothing is written.                          *)
LEMMA OneSteps ==
  ASSUME IInv, StateOK', Len(catalog) <= Len(catalog'), NoNewShell,
         NEW p \in Processes, NEW q, SyncOK(p, q, relations', Len(catalog')),
         proc' = [proc EXCEPT ![p] = q]
  PROVE  IInv'
<1>1. Len(catalog) \in Nat /\ Len(catalog') \in Nat
  BY SMT DEF IInv, StateOK
<1>2. \A o \in Processes : SyncOK(o, proc[o], relations', Len(catalog'))
  BY <1>1, KeptOK DEF IInv, NoNewShell
<1>3. \A o \in Processes : proc'[o] = IF o = p THEN q ELSE proc[o]
  BY DEF IInv
<1>4. \A o \in Processes : SyncOK(o, proc'[o], relations', Len(catalog'))
  BY <1>2, <1>3
<1>5. proc' \in [Processes -> Syncs]
  BY DEF IInv, SyncOK
<1>. QED
  BY <1>4, <1>5 DEF IInv

(* One process becomes q and may have written shells: the others are       *)
(* disturbed.                                                              *)
LEMMA OneWrites ==
  ASSUME IInv, StateOK', Len(catalog) <= Len(catalog'),
         NEW p \in Processes, NEW q, SyncOK(p, q, relations', Len(catalog')),
         proc' = [Disturb({p}) EXCEPT ![p] = q]
  PROVE  IInv'
<1>1. Len(catalog) \in Nat /\ Len(catalog') \in Nat
  BY SMT DEF IInv, StateOK
<1>. DEFINE e(o) == IF proc[o].phase # "idle"
                      THEN [proc[o] EXCEPT !.disturbed = TRUE] ELSE proc[o]
<1>2. \A o \in Processes : SyncOK(o, e(o), relations', Len(catalog'))
  BY <1>1, DisturbedOK DEF IInv
<1>3. \A o \in Processes : Disturb({p})[o] = IF o # p THEN e(o) ELSE proc[o]
  BY DEF Disturb
<1>. HIDE DEF e
<1>4. \A o \in Processes : proc'[o] = IF o = p THEN q ELSE e(o)
  BY <1>3 DEF Disturb
<1>5. \A o \in Processes : SyncOK(o, proc'[o], relations', Len(catalog'))
  BY <1>2, <1>4
<1>6. proc' \in [Processes -> Syncs]
  <2>1. DOMAIN proc' = Processes /\ proc' = [o \in Processes |-> proc'[o]]
    BY DEF Disturb
  <2>. QED
    BY <1>5, <2>1 DEF SyncOK
<1>. QED
  BY <1>5, <1>6 DEF IInv

(* Commit: the step went through, or it is kept and the sync ends.         *)
LEMMA CommitOK ==
  ASSUME IInv, NEW p \in Processes, NEW q,
         SyncOK(p, q, relations', Len(catalog')), Commit(p, q),
         catalog' = catalog, schema' \in {"absent", "denied", "granted"},
         is_default_db' = is_default_db,
         relations' \in [Relations -> RelationStates]
  PROVE  IInv'
<1>1. Len(catalog) \in Nat /\ 1 <= Len(catalog) /\ Len(catalog) <= Len(catalog')
  BY SMT DEF IInv, StateOK
<1>2. StateOK'
  BY SyncConstants, SMT DEF Commit, IInv, StateOK
<1>3. SyncOK(p, AfterError(p, proc[p]), relations', Len(catalog'))
  BY <1>1, EndOK DEF IInv
<1>4. Disturb({p})[p] = proc[p]
  BY DEF Disturb
<1>5. CASE proc' = [Disturb({p}) EXCEPT ![p] = q]
  BY <1>1, <1>2, <1>5, OneWrites
<1>6. CASE proc' = [Disturb({p}) EXCEPT ![p] = AfterError(p, @)]
  <2>1. proc' = [Disturb({p}) EXCEPT ![p] = AfterError(p, proc[p])]
    BY <1>4, <1>6
  <2>. QED
    BY <1>1, <1>2, <1>3, <2>1, OneWrites
<1>. QED
  BY <1>5, <1>6 DEF Commit

(* A step of a sync that wrote nothing.                                    *)
LEMMA GoOnOK ==
  ASSUME IInv, NEW p \in Processes, NEW q,
         SyncOK(p, q, relations, Len(catalog)), GoOn(p, q),
         catalog' = catalog, schema' \in {"absent", "denied", "granted"},
         is_default_db' = is_default_db
  PROVE  IInv'
<1>1. Len(catalog) \in Nat /\ Len(catalog) <= Len(catalog')
  BY SMT DEF IInv, StateOK
<1>2. StateOK' /\ NoNewShell
  BY DEF GoOn, IInv, StateOK, NoNewShell
<1>3. SyncOK(p, q, relations', Len(catalog'))
  BY DEF GoOn
<1>. QED
  BY <1>1, <1>2, <1>3, OneSteps DEF GoOn

-----------------------------------------------------------------------------
(* The actions.                                                            *)

(* What a step of MotherDuck or of a DDL command appends to the catalog.   *)
LEMMA AppendOK ==
  ASSUME IInv, NEW s \in SUBSET Relations, Len(catalog) < MaxVersion
  PROVE  /\ Append(catalog, s) \in Seq(SUBSET Relations)
         /\ Len(Append(catalog, s)) = Len(catalog) + 1
         /\ Len(Append(catalog, s)) \in 1..MaxVersion
         /\ Len(catalog) <= Len(Append(catalog, s))
<1>1. catalog \in Seq(SUBSET Relations) /\ Len(catalog) \in Nat
  BY SMT DEF IInv, StateOK
<1>2. /\ Append(catalog, s) \in Seq(SUBSET Relations)
      /\ Len(Append(catalog, s)) = Len(catalog) + 1
  BY <1>1, AppendProperties
<1>. QED
  BY <1>1, <1>2, SyncConstants, SMT

(* What MotherDuck's catalog lists are relations.                          *)
LEMMA UpstreamOK ==
  ASSUME IInv
  PROVE  Upstream \subseteq Relations
<1>1. catalog \in Seq(SUBSET Relations) /\ Len(catalog) \in 1..MaxVersion
  BY DEF IInv, StateOK
<1>2. catalog[Len(catalog)] \in SUBSET Relations
  BY <1>1, SyncConstants, ElementOfSeq, SMT
<1>. QED
  BY <1>2 DEF Upstream, Last

(* MotherDuck changes, and a process fetches the change.                   *)
LEMMA MotherDuckOK ==
  ASSUME IInv,
         \/ \E r \in Relations : CatalogChanges(r)
         \/ \E p \in Processes : Fetch(p)
  PROVE  IInv'
<1>1. ASSUME NEW r \in Relations, CatalogChanges(r)
      PROVE  IInv'
  <2>1. Toggle(r) \in SUBSET Relations
    BY UpstreamOK DEF Toggle
  <2>2. StateOK' /\ NoNewShell /\ Len(catalog) <= Len(catalog')
    BY <1>1, <2>1, AppendOK DEF CatalogChanges, IInv, StateOK, NoNewShell
  <2>. QED
    BY <1>1, <2>2, NobodySteps DEF CatalogChanges
<1>2. ASSUME NEW p \in Processes, Fetch(p)
      PROVE  IInv'
  <2>. DEFINE q == [proc[p] EXCEPT !.local = Len(catalog)]
  <2>1. /\ Len(catalog) \in 1..MaxVersion /\ Len(catalog) \in Nat
        /\ SyncOK(p, proc[p], relations, Len(catalog))
    BY SMT DEF IInv, StateOK
  <2>2. /\ q \in Syncs /\ q.local = Len(catalog) /\ q.phase = proc[p].phase
        /\ q.doing = proc[p].doing /\ q.ok = proc[p].ok
        /\ q.skipped = proc[p].skipped /\ q.disturbed = proc[p].disturbed
        /\ q.view = proc[p].view /\ q.todo = proc[p].todo
        /\ q.version = proc[p].version
    BY <2>1 DEF SyncOK, Syncs
  <2>3. proc' = [proc EXCEPT ![p] = q]
    BY <1>2 DEF Fetch
  <2>. HIDE DEF q
  <2>4. SyncOK(p, q, relations, Len(catalog))
    BY <2>1, <2>2, SMT DEF SyncOK, Mirrors
  <2>5. StateOK' /\ NoNewShell /\ Len(catalog) <= Len(catalog')
        /\ SyncOK(p, q, relations', Len(catalog'))
    BY <1>2, <2>1, <2>4, SMT DEF Fetch, IInv, StateOK, NoNewShell
  <2>. QED
    BY <2>3, <2>5, OneSteps
<1>. QED
  BY <1>1, <1>2

(* A session that is idle writes a shell.                                  *)
LEMMA IdleWrites ==
  ASSUME IInv, StateOK', Len(catalog) <= Len(catalog'),
         NEW b \in Processes, proc[b].phase = "idle", proc' = Disturb({b})
  PROVE  IInv'
<1>1. Len(catalog) \in Nat /\ Len(catalog') \in Nat
  BY SMT DEF IInv, StateOK
<1>2. SyncOK(b, proc[b], relations', Len(catalog'))
  BY <1>1, DisturbedOK DEF IInv
<1>3. proc' = [Disturb({b}) EXCEPT ![b] = proc[b]]
  BY DEF Disturb
<1>. QED
  BY <1>2, <1>3, OneWrites

(* The version a shell is registered with.                                 *)
LEMMA RegisteredOK ==
  ASSUME IInv, NEW p \in Processes
  PROVE  /\ Shell(RegisteredVersion(p)) \in RelationStates
         /\ Absent \in RelationStates /\ User \in RelationStates
<1>1. RegisteredVersion(p) \in 0..MaxVersion
  BY SyncConstants, SMT DEF RegisteredVersion, IInv, SyncOK, Syncs
<1>. QED
  BY <1>1 DEF RelationStates

(* DDL of the users.                                                       *)
LEMMA UsersOK ==
  ASSUME IInv,
         \/ \E r \in Relations : UserCreates(r) \/ UserDrops(r)
         \/ \E b \in Backends, r \in Relations :
              UserCreatesShell(b, r) \/ UserDropsShell(b, r)
         \/ ChangeGrant
  PROVE  IInv'
<1>1. Len(catalog) \in Nat /\ Upstream \subseteq Relations
  BY UpstreamOK, SMT DEF IInv, StateOK
<1>2. ASSUME NEW r \in Relations, UserCreates(r) \/ UserDrops(r)
      PROVE  IInv'
  <2>1. \E s \in {Absent, User} : relations' = [relations EXCEPT ![r] = s]
    BY <1>2 DEF UserCreates, UserDrops
  <2>2. relations' \in [Relations -> RelationStates]
    BY <2>1 DEF IInv, StateOK, RelationStates
  <2>3. NoNewShell
    BY <2>1, SMT DEF NoNewShell, IInv, StateOK, Absent, User
  <2>4. StateOK' /\ Len(catalog) <= Len(catalog') /\ proc' = proc
    BY <1>1, <1>2, <2>2, SMT DEF UserCreates, UserDrops, IInv, StateOK
  <2>. QED
    BY <2>3, <2>4, NobodySteps
<1>3. ASSUME NEW b \in Backends, NEW r \in Relations, UserCreatesShell(b, r)
      PROVE  IInv'
  <2>1. b \in Processes
    BY DEF Processes
  <2>2. relations' \in [Relations -> RelationStates]
    BY <1>3, <2>1, RegisteredOK DEF UserCreatesShell, IInv, StateOK
  <2>3. /\ catalog' \in Seq(SUBSET Relations) /\ Len(catalog') \in 1..MaxVersion
        /\ Len(catalog) <= Len(catalog')
    <3>1. CASE Forwards(b)
      BY <1>1, <1>3, <3>1, AppendOK DEF UserCreatesShell
    <3>2. CASE ~Forwards(b)
      BY <1>1, <1>3, <3>2, SMT DEF UserCreatesShell, IInv, StateOK
    <3>. QED
      BY <3>1, <3>2
  <2>4. StateOK'
    BY <1>3, <2>2, <2>3 DEF UserCreatesShell, IInv, StateOK
  <2>. QED
    BY <1>3, <2>1, <2>3, <2>4, IdleWrites DEF UserCreatesShell
<1>4. ASSUME NEW b \in Backends, NEW r \in Relations, UserDropsShell(b, r)
      PROVE  IInv'
  <2>1. b \in Processes
    BY DEF Processes
  <2>2. relations' \in [Relations -> RelationStates]
    BY <1>4, <2>1, RegisteredOK DEF UserDropsShell, IInv, StateOK
  <2>3. /\ catalog' \in Seq(SUBSET Relations) /\ Len(catalog') \in 1..MaxVersion
        /\ Len(catalog) <= Len(catalog')
    <3>1. CASE catalog' = Append(catalog, Upstream \ {r})
      BY <1>1, <1>4, <3>1, AppendOK DEF UserDropsShell
    <3>2. CASE catalog' = catalog
      BY <1>1, <3>2, SMT DEF IInv, StateOK
    <3>. QED
      BY <1>4, <3>1, <3>2 DEF UserDropsShell, DropForwarded
  <2>4. StateOK'
    BY <1>4, <2>2, <2>3 DEF UserDropsShell, IInv, StateOK
  <2>. QED
    BY <1>4, <2>1, <2>3, <2>4, IdleWrites DEF UserDropsShell
<1>5. CASE ChangeGrant
  <2>1. StateOK' /\ NoNewShell /\ Len(catalog) <= Len(catalog') /\ proc' = proc
    BY <1>1, <1>5, SMT DEF ChangeGrant, IInv, StateOK, NoNewShell
  <2>. QED
    BY <2>1, NobodySteps
<1>. QED
  BY <1>2, <1>3, <1>4, <1>5

(* The beginning of a sync, and its end by an error or a signal.           *)
LEMMA SyncStartsOrThrows ==
  ASSUME IInv,
         \/ BackgroundWorkerCheck
         \/ \E b \in Backends : ForceMotherDuckSync(b)
         \/ \E p \in Processes : SyncThrows(p)
  PROVE  IInv'
<1>1. /\ Len(catalog) \in Nat /\ 1 <= Len(catalog) /\ Worker \in Processes
      /\ \A b \in Backends : b \in Processes /\ b # Worker
  BY SyncConstants, SMT DEF IInv, StateOK, Processes
<1>2. ASSUME NEW p \in Processes, NEW q \in Syncs, q.local = proc[p].local,
             q.last_known # q.local, q.doing,
             proc' = [proc EXCEPT ![p] = BeginSync(q)],
             UNCHANGED <<catalog, schema, is_default_db, relations, failures>>
      PROVE  IInv'
  <2>. DEFINE e == BeginSync(q)
  <2>1. q.local \in 0..MaxVersion /\ q.local <= Len(catalog)
    BY <1>2, SyncConstants, SMT DEF IInv, SyncOK, Syncs
  <2>2. /\ e \in Syncs /\ e.phase = "schema" /\ e.doing /\ e.local = q.local
    BY <1>2, <2>1 DEF BeginSync, Syncs
  <2>. HIDE DEF e
  <2>3. SyncOK(p, e, relations', Len(catalog'))
    BY <1>2, <2>1, <2>2 DEF SyncOK, Mirrors
  <2>4. StateOK' /\ NoNewShell /\ Len(catalog) <= Len(catalog')
    BY <1>1, <1>2, SMT DEF IInv, StateOK, NoNewShell
  <2>. QED
    BY <1>2, <2>3, <2>4, OneSteps, ZenonT(30) DEF e
<1>3. CASE BackgroundWorkerCheck
  <2>1. proc[Worker] \in Syncs /\ proc[Worker].doing
    BY <1>1 DEF IInv, SyncOK
  <2>2. proc' = [proc EXCEPT ![Worker] = BeginSync(proc[Worker])]
    BY <1>3 DEF BackgroundWorkerCheck
  <2>. QED
    BY <1>1, <1>2, <1>3, <2>1, <2>2 DEF BackgroundWorkerCheck
<1>4. ASSUME NEW b \in Backends, ForceMotherDuckSync(b)
      PROVE  IInv'
  <2>. DEFINE q == [proc[b] EXCEPT !.last_known = 0, !.doing = TRUE]
  <2>1. 0 \in 0..MaxVersion /\ proc[b] \in Syncs /\ proc[b].local \in 1..MaxVersion
    BY <1>1, SyncConstants, SMT DEF IInv, SyncOK, Syncs
  <2>2. q \in Syncs /\ q.local = proc[b].local /\ q.doing /\ q.last_known = 0
    BY <2>1 DEF Syncs
  <2>3. proc' = [proc EXCEPT ![b] = BeginSync(q)]
    BY <1>4 DEF ForceMotherDuckSync
  <2>. HIDE DEF q
  <2>4. q.last_known # q.local
    BY <2>1, <2>2, SMT
  <2>. QED
    BY <1>1, <1>2, <1>4, <2>2, <2>3, <2>4 DEF ForceMotherDuckSync
<1>5. ASSUME NEW p \in Processes, SyncThrows(p)
      PROVE  IInv'
  <2>1. SyncOK(p, AfterError(p, proc[p]), relations', Len(catalog'))
    BY <1>1, <1>5, EndOK, SMT DEF SyncThrows, IInv
  <2>2. StateOK' /\ NoNewShell /\ Len(catalog) <= Len(catalog')
    BY <1>1, <1>5, SyncConstants, SMT DEF SyncThrows, IInv, StateOK, NoNewShell
  <2>3. proc' = [proc EXCEPT ![p] = AfterError(p, proc[p])]
    BY <1>5 DEF SyncThrows
  <2>. QED
    BY <2>1, <2>2, <2>3, OneSteps, ZenonT(30)
<1>. QED
  BY <1>3, <1>4, <1>5

(* A process that syncs forwards nothing.                                  *)
LEMMA NothingForwarded ==
  ASSUME IInv, NEW p \in Processes, proc[p].phase # "idle"
  PROVE  /\ proc[p].doing /\ \A rs : DropForwarded(p, rs) = catalog
         /\ RegisteredVersion(p) = proc[p].version
  BY DEF IInv, SyncOK, DropForwarded, Forwards, RegisteredVersion

(* Creating a schema in a sync keeps the invariant and sends nothing to    *)
(* MotherDuck.                                                             *)
LEMMA SchemaStepOK ==
  ASSUME IInv, NEW p \in Processes, CreateSchemaIfNotExists(p)
  PROVE  IInv' /\ catalog' = catalog
<1>. DEFINE view == catalog[proc[p].local]
            synced == [proc[p] EXCEPT !.phase = "relations", !.view = view, !.todo = view]
            passed == [proc[p] EXCEPT !.phase = "relations", !.view = view,
                                      !.skipped = TRUE]
<1>1. /\ SyncOK(p, proc[p], relations, Len(catalog)) /\ proc[p] \in Syncs
      /\ proc[p].phase = "schema" /\ proc[p].doing
      /\ relations \in [Relations -> RelationStates]
  BY NothingForwarded DEF CreateSchemaIfNotExists, IInv, SyncOK, StateOK
<1>2. view \in SUBSET Relations
  <2>1. catalog \in Seq(SUBSET Relations) /\ proc[p].local \in 1..Len(catalog)
    BY <1>1, SyncConstants, SMT DEF IInv, StateOK, SyncOK, Syncs
  <2>. QED
    BY <2>1, ElementOfSeq
<1>3. /\ \/ schema = "granted" /\ GoOn(p, synced) /\ UNCHANGED schema
         \/ schema # "granted" /\ GoOn(p, passed) /\ UNCHANGED schema
         \/ schema' = "granted" /\ GoOn(p, synced)
         \/ schema' = "granted" /\ Commit(p, synced) /\ UNCHANGED relations
      /\ UNCHANGED <<catalog, is_default_db>>
  BY DEF CreateSchemaIfNotExists
<1>. HIDE DEF view
<1>4. /\ synced \in Syncs /\ synced.local = proc[p].local /\ synced.phase = "relations"
      /\ synced.doing = proc[p].doing /\ synced.view = synced.todo
      /\ passed \in Syncs /\ passed.local = proc[p].local /\ passed.phase = "relations"
      /\ passed.doing = proc[p].doing /\ passed.skipped
  BY <1>1, <1>2 DEF Syncs
<1>. HIDE DEF synced, passed
<1>5. /\ SyncOK(p, synced, relations, Len(catalog))
      /\ SyncOK(p, passed, relations, Len(catalog))
  BY <1>1, <1>4 DEF SyncOK, Mirrors
<1>6. schema' \in {"absent", "denied", "granted"}
  BY <1>3 DEF IInv, StateOK
<1>7. ASSUME NEW q, GoOn(p, q), SyncOK(p, q, relations, Len(catalog))
      PROVE  IInv'
  BY <1>3, <1>6, <1>7, GoOnOK
<1>8. CASE Commit(p, synced) /\ UNCHANGED relations
  <2>1. /\ SyncOK(p, synced, relations', Len(catalog')) /\ Commit(p, synced)
        /\ relations' \in [Relations -> RelationStates]
    BY <1>1, <1>3, <1>5, <1>8
  <2>. QED
    BY <1>3, <1>6, <2>1, CommitOK
<1>. QED
  BY <1>3, <1>5, <1>7, <1>8

(* The relation r is done: p goes on as q.                                 *)
LEMMA RelationStepOK ==
  ASSUME IInv, NEW p \in Processes, NEW r \in Relations,
         CreateTable(p, r) \/ CreateView(p, r)
  PROVE  IInv' /\ catalog' = catalog
<1>1. /\ SyncOK(p, proc[p], relations, Len(catalog)) /\ proc[p] \in Syncs
      /\ proc[p].phase = "relations" /\ proc[p].doing
      /\ RegisteredVersion(p) = proc[p].version
      /\ \A rs : DropForwarded(p, rs) = catalog
  BY NothingForwarded DEF CreateTable, CreateView, IInv, SyncOK
<1>2. /\ \/ GoOn(p, Unmapped(p, r)) /\ UNCHANGED catalog
         \/ NotCreated(p, r)
         \/ Recreate(p, r, Shell(RegisteredVersion(p)))
         \/ Recreate(p, r, User)
      /\ UNCHANGED <<schema, is_default_db>>
  BY DEF CreateTable, CreateView
<1>. DEFINE done == Done(p, r)
<1>3. /\ done \in Syncs /\ done.local = proc[p].local /\ done.phase = "relations"
      /\ done.doing /\ done.ok = proc[p].ok /\ done.skipped = proc[p].skipped
      /\ done.disturbed = proc[p].disturbed /\ done.view = proc[p].view
      /\ done.todo = proc[p].todo \ {r} /\ done.version = proc[p].version
  BY <1>1 DEF Done, Syncs
<1>4. schema' \in {"absent", "denied", "granted"} /\ is_default_db' = is_default_db
  BY <1>2 DEF IInv, StateOK
<1>5. CASE GoOn(p, Unmapped(p, r)) /\ UNCHANGED catalog
  <2>. DEFINE q == Unmapped(p, r)
  <2>1. q = [done EXCEPT !.view = done.view \ {r}]
    BY DEF Unmapped
  <2>. HIDE DEF done, q
  <2>2. /\ q \in Syncs /\ q.local = done.local /\ q.phase = "relations" /\ q.doing
        /\ q.ok = done.ok /\ q.skipped = done.skipped /\ q.disturbed = done.disturbed
        /\ q.view = done.view \ {r} /\ q.todo = done.todo /\ q.version = done.version
    BY <1>3, <2>1 DEF Syncs
  <2>3. SyncOK(p, q, relations, Len(catalog))
    BY <1>1, <1>3, <2>2 DEF SyncOK, Mirrors
  <2>. QED
    BY <1>4, <1>5, <2>3, GoOnOK DEF q
<1>6. CASE NotCreated(p, r)
  <2>. DEFINE q == Failed(p, r)
  <2>1. q = [done EXCEPT !.ok = FALSE]
    BY DEF Failed
  <2>. HIDE DEF done, q
  <2>2. q \in Syncs /\ q.local = done.local /\ q.phase = "relations" /\ q.doing /\ ~q.ok
    BY <1>3, <2>1 DEF Syncs
  <2>3. SyncOK(p, q, relations, Len(catalog))
    BY <1>1, <1>3, <2>2 DEF SyncOK, Mirrors
  <2>. QED
    BY <1>4, <1>6, <2>3, GoOnOK DEF q, NotCreated
<1>7. ASSUME NEW s \in {Shell(RegisteredVersion(p)), User}, Recreate(p, r, s)
      PROVE  IInv' /\ catalog' = catalog
  <2>1. /\ relations' = [relations EXCEPT ![r] = s] /\ catalog' = catalog
        /\ Commit(p, done)
    BY <1>1, <1>7 DEF Recreate
  <2>. HIDE DEF done
  <2>2. relations' \in [Relations -> RelationStates]
    BY <2>1, RegisteredOK DEF IInv, StateOK
  <2>3. s.kind = "shell" => s.version = proc[p].version
    BY <1>1, SMT DEF Shell, User
  <2>4. Mirrors(done, relations')
    <3>1. \A x \in Relations : relations'[x] = IF x = r THEN s ELSE relations[x]
      BY <2>1 DEF IInv, StateOK
    <3>2. proc[p].view \subseteq Relations
      BY <1>1 DEF Syncs
    <3>. QED
      BY <1>1, <1>3, <2>3, <3>1, <3>2, SMT DEF SyncOK, Mirrors
  <2>5. SyncOK(p, done, relations', Len(catalog'))
    BY <1>1, <1>3, <2>1, <2>4 DEF SyncOK
  <2>. QED
    BY <1>4, <2>1, <2>2, <2>5, CommitOK
<1>. QED
  BY <1>2, <1>5, <1>6, <1>7 DEF NotCreated

(* The cleanup at the end of a round keeps the invariant and sends nothing *)
(* to MotherDuck, because the sync flag is up.                             *)
LEMMA CleanupOK ==
  ASSUME IInv, NEW p \in Processes, DropOutdated(p)
  PROVE  IInv' /\ catalog' = catalog
<1>1. /\ SyncOK(p, proc[p], relations, Len(catalog)) /\ proc[p].phase = "relations"
      /\ \A rs : DropForwarded(p, rs) = catalog
  BY NothingForwarded DEF DropOutdated, IInv
<1>2. /\ UNCHANGED <<schema, is_default_db, catalog>>
      /\ schema' \in {"absent", "denied", "granted"}
      /\ Len(catalog) \in Nat /\ 1 <= Len(catalog)
  BY <1>1, SMT DEF DropOutdated, IInv, StateOK
<1>3. CASE GoOn(p, EndSync(p, proc[p]))
  <2>1. SyncOK(p, EndSync(p, proc[p]), relations, Len(catalog))
    BY <1>1, <1>2, EndOK, SMT
  <2>. QED
    BY <1>2, <1>3, <2>1, GoOnOK
<1>4. CASE /\ Commit(p, EndSync(p, proc[p]))
           /\ \E dropped \in SUBSET Outdated(p) :
                relations' = [r \in Relations |-> IF r \in dropped THEN Absent
                                                  ELSE relations[r]]
  <2>1. relations' \in [Relations -> RelationStates]
    BY <1>4, RegisteredOK DEF IInv, StateOK
  <2>2. SyncOK(p, EndSync(p, proc[p]), relations', Len(catalog'))
    BY <1>1, <1>2, EndOK, SMT
  <2>. QED
    BY <1>2, <1>4, <2>1, <2>2, CommitOK
<1>. QED
  BY <1>2, <1>3, <1>4 DEF DropOutdated

(* Initially no sync is under way.                                         *)
LEMMA InitOK ==
  ASSUME Init
  PROVE  IInv
<1>1. 0 \in 0..MaxVersion /\ 1 \in 1..MaxVersion /\ 0 \in 0..MaxFailures
  BY SyncConstants, SMT
<1>2. PICK s \in SUBSET Relations : catalog = <<s>>
  BY DEF Init
<1>3. catalog \in Seq(SUBSET Relations) /\ Len(catalog) = 1
  BY <1>2, SMT
<1>4. relations \in [Relations -> RelationStates]
  BY DEF Init, RelationStates
<1>5. StateOK
  BY <1>1, <1>3, <1>4 DEF Init, StateOK
<1>6. /\ Started \in Syncs /\ Started.local = 1 /\ Started.phase = "idle"
      /\ Started.doing /\ Idle \in Syncs /\ Idle.local = 1 /\ Idle.phase = "idle"
      /\ ~Idle.doing
  BY <1>1 DEF Started, Idle, Syncs
<1>7. /\ SyncOK(Worker, Started, relations, 1)
      /\ \A p : p # Worker => SyncOK(p, Idle, relations, 1)
  BY <1>6, SMT DEF SyncOK, Mirrors
<1>8. proc \in [Processes -> Syncs]
  BY <1>6 DEF Init
<1>9. \A p \in Processes : SyncOK(p, proc[p], relations, Len(catalog))
  BY <1>3, <1>7 DEF Init
<1>. QED
  BY <1>5, <1>8, <1>9 DEF IInv

(* Every step of the worker, of a session and of MotherDuck keeps the      *)
(* invariant.                                                              *)
LEMMA StepOK ==
  ASSUME IInv, [Next]_vars
  PROVE  IInv'
<1>1. CASE UNCHANGED vars
  <2>1. StateOK' /\ NoNewShell /\ Len(catalog) <= Len(catalog') /\ proc' = proc
    BY <1>1, SMT DEF vars, IInv, StateOK, NoNewShell
  <2>. QED
    BY <2>1, NobodySteps
<1>2. CASE \E p \in Processes : SyncStep(p)
  BY <1>2, SchemaStepOK, RelationStepOK, CleanupOK DEF SyncStep
<1>. QED
  BY <1>1, <1>2, MotherDuckOK, UsersOK, SyncStartsOrThrows DEF Next

-----------------------------------------------------------------------------
(* Who does what.                                                          *)

(* No step of one process changes what another is doing.                   *)
LEMMA CommitKeepsOthers ==
  ASSUME IInv, NEW p \in Processes, NEW q, Commit(p, q) \/ GoOn(p, q),
         NEW o \in Processes, o # p
  PROVE  proc'[o].phase = proc[o].phase /\ proc'[o].todo = proc[o].todo
<1>1. proc[o] \in Syncs /\ proc \in [Processes -> Syncs]
  BY DEF IInv
<1>2. [proc[o] EXCEPT !.disturbed = TRUE].phase = proc[o].phase
      /\ [proc[o] EXCEPT !.disturbed = TRUE].todo = proc[o].todo
  BY <1>1 DEF Syncs
<1>3. \/ proc'[o] = proc[o]
      \/ proc'[o] = [proc[o] EXCEPT !.disturbed = TRUE]
  BY <1>1 DEF Commit, GoOn, Disturb
<1>. QED
  BY <1>2, <1>3

(* A session's own DDL may disturb a sync under way but does not move it.  *)
LEMMA SessionsKeepAll ==
  ASSUME IInv, NEW b, proc' = proc \/ proc' = Disturb({b}), NEW o \in Processes
  PROVE  proc'[o].phase = proc[o].phase /\ proc'[o].todo = proc[o].todo
<1>1. proc[o] \in Syncs
  BY DEF IInv
<1>2. [proc[o] EXCEPT !.disturbed = TRUE].phase = proc[o].phase
      /\ [proc[o] EXCEPT !.disturbed = TRUE].todo = proc[o].todo
  BY <1>1 DEF Syncs
<1>. QED
  BY <1>2 DEF Disturb

(* Only users, and MotherDuck itself, change MotherDuck's catalog.         *)
LEMMA WhoWritesUpstream ==
  ASSUME IInv, Next, catalog' # catalog
  PROVE  \A o \in Processes : proc'[o].phase = proc[o].phase /\ proc'[o].todo = proc[o].todo
<1>1. ~ \E p \in Processes : SyncStep(p)
  BY SchemaStepOK, RelationStepOK, CleanupOK DEF SyncStep
<1>2. \/ \E r \in Relations : CatalogChanges(r)
      \/ \E b \in Backends, r \in Relations :
           UserCreatesShell(b, r) \/ UserDropsShell(b, r)
  BY <1>1
  DEF Next, UserCreates, UserDrops, ForceMotherDuckSync, ChangeGrant,
      BackgroundWorkerCheck, Fetch, SyncThrows
<1>3. \E b : proc' = proc \/ proc' = Disturb({b})
  BY <1>2 DEF CatalogChanges, UserCreatesShell, UserDropsShell
<1>. QED
  BY <1>3, SessionsKeepAll

(* How the relation r can change.                                          *)
LEMMA WhoWritesRelations ==
  ASSUME IInv, Next, NEW r \in Relations, relations'[r] # relations[r]
  PROVE  \/ UserCreates(r) \/ UserDrops(r)
         \/ \E b \in Backends : UserCreatesShell(b, r) \/ UserDropsShell(b, r)
         \/ \E p \in Processes :
              Recreate(p, r, Shell(RegisteredVersion(p))) \/ Recreate(p, r, User)
         \/ \E p \in Processes :
              /\ DropOutdated(p) /\ r \in Outdated(p) /\ proc[p].ok
              /\ Commit(p, EndSync(p, proc[p])) /\ relations'[r] = Absent
<1>1. relations \in [Relations -> RelationStates]
  BY DEF IInv, StateOK
<1>2. CASE \E o \in Relations : UserCreates(o) \/ UserDrops(o)
  BY <1>1, <1>2 DEF UserCreates, UserDrops
<1>3. CASE \E b \in Backends, o \in Relations :
             UserCreatesShell(b, o) \/ UserDropsShell(b, o)
  BY <1>1, <1>3 DEF UserCreatesShell, UserDropsShell
<1>4. ASSUME NEW p \in Processes, CreateSchemaIfNotExists(p)
      PROVE  FALSE
  BY <1>4 DEF CreateSchemaIfNotExists, GoOn
<1>5. ASSUME NEW p \in Processes, NEW o \in Relations, CreateTable(p, o) \/ CreateView(p, o)
      PROVE  Recreate(p, r, Shell(RegisteredVersion(p))) \/ Recreate(p, r, User)
  <2>1. Recreate(p, o, Shell(RegisteredVersion(p))) \/ Recreate(p, o, User)
    BY <1>5 DEF CreateTable, CreateView, NotCreated, GoOn
  <2>2. o = r
    BY <1>1, <2>1 DEF Recreate
  <2>. QED
    BY <2>1, <2>2
<1>6. ASSUME NEW p \in Processes, DropOutdated(p)
      PROVE  /\ r \in Outdated(p) /\ proc[p].ok
             /\ Commit(p, EndSync(p, proc[p])) /\ relations'[r] = Absent
  BY <1>1, <1>6 DEF DropOutdated, GoOn
<1>. QED
  BY <1>2, <1>3, <1>4, <1>5, <1>6
  DEF Next, SyncStep, CatalogChanges, ForceMotherDuckSync, ChangeGrant,
      BackgroundWorkerCheck, Fetch, SyncThrows

-----------------------------------------------------------------------------

(* The inductive invariant holds in every reachable state.                 *)
THEOREM InvariantHolds == Spec => []IInv
  BY InitOK, StepOK, PTL DEF Spec

(* The variables have their types.                                         *)
THEOREM TypeCorrect == Spec => []TypeOK
<1>1. IInv => TypeOK
  BY DEF IInv, StateOK, SyncOK, TypeOK
<1>. QED
  BY <1>1, InvariantHolds, PTL

(* doing_motherduck_sync is set exactly while a session syncs, however its *)
(* earlier syncs ended, and always in the worker.                          *)
THEOREM ForwardingIsExact == Spec => []ForwardingFollowsSync
<1>1. IInv => ForwardingFollowsSync
  BY SyncConstants DEF IInv, SyncOK, ForwardingFollowsSync, Processes
<1>. QED
  BY <1>1, InvariantHolds, PTL

(* No step of a sync changes MotherDuck's catalog: the DROPs and CREATEs   *)
(* of a sync are not forwarded.                                            *)
THEOREM SyncsWriteNothing == Spec => SyncNeverWritesUpstream
<1>1. IInv /\ [Next]_vars =>
        [\A p \in Processes : proc'[p].todo # proc[p].todo \/ CleansUp(p)
                              => catalog' = catalog]_vars
  BY WhoWritesUpstream DEF CleansUp
<1>. QED
  BY <1>1, InvariantHolds, PTL DEF Spec, SyncNeverWritesUpstream

(* Only its user drops a relation that is the user's own, and no sync      *)
(* replaces it.                                                            *)
THEOREM UserRelationsAreKept == Spec => UserRelationsSurvive
<1>1. ASSUME IInv, Next, NEW r \in Relations, relations[r] = User, relations'[r] # User
      PROVE  relations'[r] = Absent /\ proc' = proc
  <2>1. /\ relations[r].kind = "user" /\ relations[r] # Absent
        /\ relations \in [Relations -> RelationStates]
    BY <1>1, SMT DEF User, Absent, IInv, StateOK
  <2>2. UserDrops(r)
    BY <1>1, <2>1, WhoWritesRelations
    DEF UserCreates, UserCreatesShell, UserDropsShell, Recreate, Replaceable, Outdated
  <2>. QED
    BY <2>1, <2>2 DEF UserDrops
<1>2. IInv /\ [Next]_vars =>
        [\A r \in Relations : relations[r] = User /\ relations'[r] # User
                              => relations'[r] = Absent /\ proc' = proc]_vars
  BY <1>1
<1>. QED
  BY <1>2, InvariantHolds, PTL DEF Spec, UserRelationsSurvive

(* A cleanup drops the shell of a relation that MotherDuck still has only  *)
(* if the sync passed its schema over or was disturbed.                    *)
THEOREM CleanupIsSafe == Spec => CleanupDropsGoneTables
<1>1. ASSUME IInv, Next, NEW p \in Processes, NEW r \in Relations, CleansUp(p),
             relations[r].kind = "shell", relations'[r] = Absent,
             r \in proc[p].view
      PROVE  proc[p].skipped \/ proc[p].disturbed
  <2>1. proc[p].phase = "relations" /\ proc[p].todo = {} /\ proc'[p].phase = "idle"
    BY <1>1 DEF CleansUp
  <2>2. /\ relations'[r] # relations[r] /\ relations[r] # Absent
        /\ relations[r] # User /\ relations \in [Relations -> RelationStates]
        /\ User # Absent /\ \A v : Shell(v) # Absent
    BY <1>1, SMT DEF User, Absent, Shell, IInv, StateOK
  <2>3. ~ \E b \in Backends : UserDropsShell(b, r)
    BY <1>1, <2>1, SessionsKeepAll DEF UserDropsShell
  <2>4. PICK o \in Processes : /\ DropOutdated(o) /\ r \in Outdated(o) /\ proc[o].ok
                               /\ Commit(o, EndSync(o, proc[o]))
    <3>1. ~UserCreates(r) /\ ~UserDrops(r)
          /\ ~ \E b \in Backends : UserCreatesShell(b, r)
      BY <2>2 DEF UserCreates, UserDrops, UserCreatesShell
    <3>2. ASSUME NEW o, NEW s, s # Absent
          PROVE  ~Recreate(o, r, s)
      BY <1>1, <2>2, <3>2 DEF Recreate
    <3>. QED
      BY <1>1, <2>2, <2>3, <3>1, <3>2, WhoWritesRelations
  <2>5. o = p
    BY <1>1, <2>1, <2>4, CommitKeepsOthers
  <2>6. Mirrors(proc[p], relations)
    BY <1>1 DEF IInv, SyncOK
  <2>7. proc[p].skipped \in BOOLEAN /\ proc[p].disturbed \in BOOLEAN
    BY <1>1 DEF IInv, Syncs
  <2>. QED
    BY <1>1, <2>1, <2>4, <2>5, <2>6, <2>7 DEF Mirrors, Outdated
<1>2. IInv /\ [Next]_vars =>
        [\A p \in Processes, r \in Relations :
           CleansUp(p) /\ relations[r].kind = "shell" /\ relations'[r] = Absent
           => \/ r \notin proc[p].view
              \/ proc[p].skipped
              \/ proc[p].disturbed]_vars
  BY <1>1
<1>. QED
  BY <1>2, InvariantHolds, PTL DEF Spec, CleanupDropsGoneTables

=============================================================================
