------------------------- MODULE CatalogSyncProofs -------------------------
(***************************************************************************)
(* Safety of the two catalogs, for any names and any number of indexes.    *)
(*                                                                         *)
(* The argument: what the session sees of a name it has not changed is     *)
(* what is committed, unless an external client changed the name after the *)
(* session's DuckDB transaction opened; and a transaction that has changed *)
(* such a name cannot commit.  So a name is committed either as the        *)
(* session left it in both catalogs at once, or as a client did.           *)
(***************************************************************************)
EXTENDS CatalogSync, TLAPS

(* Most leaves are first-order: Zenon is tried unless another is named.    *)
USE Zenon

(* What the properties say of one name.                                    *)
Found(pg, lake, n) == pg[n] = "ducklake" => lake[n] # NoTable

Indexed(pg, idx, lake, n) ==
  pg[n] = "ducklake" /\ lake[n] # NoTable /\ lake[n].sorted => idx[n] > 0

Placed(lake, n) == lake[n] # NoTable => lake[n].path = lake[n].asked

(* How the session's view and the committed catalogs are related.          *)
Views ==
  /\ wrote \subseteq touched
  /\ stale # {} => active
  /\ wrote # {} => active \/ tx = "statement"
  /\ \A n \in Names \ touched :
       mine.pg[n] = cat.pg[n] /\ mine.idx[n] = cat.idx[n]
  /\ \A n \in Names \ (wrote \cup stale) : mine.lake[n] = cat.lake[n]

(* A DuckLake table the session created or changed is one it forwarded.    *)
ExistInv ==
  /\ \A n \in Names : Found(cat.pg, cat.lake, n)
  /\ \A n \in touched :
       mine.pg[n] = "ducklake" => n \in wrote /\ Exists(mine, n)

(* The session's own view may lack an index: it then holds a table that    *)
(* was sorted when its DuckDB transaction opened and no longer is.         *)
SortInv ==
  /\ \A n \in Names : Indexed(cat.pg, cat.idx, cat.lake, n)
  /\ wrote \cap stale = {} =>
       \A n \in touched : Indexed(mine.pg, mine.idx, mine.lake, n)

PathInv ==
  /\ options = "default"
  /\ \A n \in Names : Placed(cat.lake, n) /\ Placed(mine.lake, n)

Inv ==
  /\ TypeOK /\ Views
  /\ leaked = 0 => /\ ~syncing /\ ExistInv
                   /\ ~SortedRenames => SortInv
                   /\ ~PathWithIfNotExists => PathInv

---------------------------------------------------------------------------
(***************************************************************************)
(* Facts about tables and catalogs.                                        *)
(***************************************************************************)

PgClasses == [Names -> {"none", "heap", "ducklake"}]
Indexes == [Names -> 0 .. MaxIndexes]
Metadata == [Names -> LakeTables \cup {NoTable}]

(* A table is not the absence of one.                                      *)
LEMMA TablesAreTables == \A t \in LakeTables : t # NoTable
  BY SMT DEF LakeTables, NoTable, Paths

(* The tables that statements and clients make.                            *)
LEMMA MadeTables ==
  /\ NewTable \in LakeTables /\ NewTable.sorted = FALSE
  /\ NewTable.path = NewTable.asked
  /\ \A p, a \in Paths :
       LET t == [path |-> p, asked |-> a, sorted |-> FALSE]
       IN t \in LakeTables /\ t.sorted = FALSE /\ t.path = p /\ t.asked = a
  /\ \A t \in LakeTables, b \in BOOLEAN :
       LET u == [t EXCEPT !.sorted = b]
       IN u \in LakeTables /\ u.sorted = b /\ u.path = t.path /\ u.asked = t.asked
  BY SMT DEF NewTable, LakeTables, Paths

(* A catalog is three functions.                                           *)
LEMMA CatalogParts ==
  /\ \A c \in Catalogs :
       c.pg \in PgClasses /\ c.idx \in Indexes /\ c.lake \in Metadata
  /\ \A p \in PgClasses, i \in Indexes, l \in Metadata :
       LET c == [pg |-> p, idx |-> i, lake |-> l]
       IN c \in Catalogs /\ c.pg = p /\ c.idx = i /\ c.lake = l
  BY SMT DEF Catalogs, PgClasses, Indexes, Metadata

(* Initially there are no tables.                                          *)
LEMMA InitOK == Init => Inv
<1>. SUFFICES ASSUME Init PROVE Inv
  OBVIOUS
<1>1. /\ cat.pg = [n \in Names |-> "none"] /\ cat.idx = [n \in Names |-> 0]
      /\ cat.lake = [n \in Names |-> NoTable]
  BY SMT DEF Init
<1>2. cat \in Catalogs
  <2>1. 0 \in 0 .. MaxIndexes
    BY BoundsAssumption, SMT
  <2>2. /\ [n \in Names |-> "none"] \in PgClasses
        /\ [n \in Names |-> 0] \in Indexes
        /\ [n \in Names |-> NoTable] \in Metadata
    BY <2>1 DEF PgClasses, Indexes, Metadata
  <2>. QED
    BY <2>2, CatalogParts DEF Init
<1>3. TypeOK
  <2>1. leaked \in 0 .. MaxLeaked + 1
    BY BoundsAssumption, SMT DEF Init
  <2>. QED
    BY <1>2, <2>1 DEF Init, TypeOK, Paths
<1>4. \A n \in Names : cat.pg[n] = "none" /\ cat.lake[n] = NoTable
  BY <1>1
<1>5. Views
  BY DEF Init, Views
<1>. QED
  BY <1>3, <1>4, <1>5
  DEF Init, Inv, ExistInv, SortInv, PathInv, Found, Indexed, Placed

---------------------------------------------------------------------------
(***************************************************************************)
(* The session's transactions.                                             *)
(***************************************************************************)

(* What the properties say of a whole catalog.                             *)
Sound(c) ==
  /\ \A n \in Names : Found(c.pg, c.lake, n)
  /\ ~SortedRenames => \A n \in Names : Indexed(c.pg, c.idx, c.lake, n)
  /\ ~PathWithIfNotExists => \A n \in Names : Placed(c.lake, n)

(* The backend's variables, as a statement leaves them.                    *)
BackendOK ==
  /\ options' \in Paths /\ syncing' \in BOOLEAN
  /\ leaked' \in 0 .. MaxLeaked + 1
  /\ leaked' = 0 => leaked = 0 /\ ~syncing'
  /\ leaked' = 0 /\ ~PathWithIfNotExists => options' = "default"

(* A transaction may end with a sound catalog.                             *)
LEMMA EndsOK ==
  ASSUME Inv, NEW c \in Catalogs, Ends(c), BackendOK, leaked' = 0 => Sound(c)
  PROVE  Inv'
<1>1. TypeOK'
  BY DEF Ends, BackendOK, TypeOK
<1>2. Views'
  BY DEF Ends, Views
<1>3. ASSUME leaked' = 0
      PROVE  /\ ExistInv'
             /\ ~SortedRenames => SortInv'
             /\ ~PathWithIfNotExists => PathInv'
  BY <1>3 DEF Ends, Sound, ExistInv, SortInv, PathInv, BackendOK
<1>. QED
  BY <1>1, <1>2, <1>3 DEF Inv, BackendOK

(* The committed catalog is sound.                                         *)
LEMMA CommittedIsSound == Inv => cat \in Catalogs /\ (leaked = 0 => Sound(cat))
  BY DEF Inv, TypeOK, ExistInv, SortInv, PathInv, Sound

(* An error goes back to the committed catalog.                            *)
LEMMA FailsOK ==
  ASSUME Inv, NEW o \in Paths, Fails(o),
         leaked = 0 /\ ~PathWithIfNotExists => o = "default"
  PROVE  Inv'
<1>1. BackendOK
  BY DEF Inv, TypeOK, Fails, BackendOK
<1>2. Ends(cat) /\ leaked' = leaked
  BY DEF Fails
<1>. QED
  BY <1>1, <1>2, EndsOK, CommittedIsSound

(* A statement's changes may be made.  They are confined to the names in   *)
(* ns and ls, and a DuckLake table among them is left in both catalogs.    *)
Fits(ns, p, i, ls, l) ==
  /\ tx # "none"
  /\ p \in PgClasses /\ i \in Indexes /\ l \in Metadata
  /\ ls \subseteq ns /\ ns \subseteq Names
  /\ \A n \in Names \ ns : p[n] = mine.pg[n] /\ i[n] = mine.idx[n]
  /\ \A n \in Names \ ls : l[n] = mine.lake[n]
  /\ leaked = 0 =>
       /\ \A n \in ns : p[n] = "ducklake" => n \in ls /\ l[n] # NoTable
       /\ ~SortedRenames /\ (wrote \cup ls) \cap stale = {} =>
            \A n \in ns : Indexed(p, i, l, n)
       /\ ~PathWithIfNotExists => \A n \in ls : Placed(l, n)

(* A statement whose changes fit keeps the invariant, in the session's     *)
(* view and, at COMMIT, in the catalogs.                                   *)
LEMMA DoesOK ==
  ASSUME Inv, BackendOK, NEW ns, NEW p, NEW i, NEW ls, NEW l,
         Fits(ns, p, i, ls, l), Does(ns, p, i, ls, l)
  PROVE  Inv'
<1>1. /\ mine' \in Catalogs /\ mine'.pg = p /\ mine'.idx = i /\ mine'.lake = l
  BY CatalogParts DEF Fits, Does
<1>2. /\ cat' = cat /\ tx' = tx /\ stale' = stale /\ touched' = touched \cup ns
      /\ wrote' = wrote \cup ls /\ active' = (active \/ (tx = "block" /\ ls # {}))
  BY DEF Does
<1>3. tx # "none" /\ ls \subseteq ns /\ ns \subseteq Names
  BY DEF Fits
<1>4. TypeOK'
  <2>1. active' \in BOOLEAN /\ (active' => tx' = "block")
    BY <1>2 DEF Inv, TypeOK
  <2>. QED
    BY <1>1, <1>2, <1>3, <2>1 DEF Inv, TypeOK, BackendOK
<1>5. Views'
  <2>1. wrote' \subseteq touched'
    BY <1>2, <1>3 DEF Inv, Views
  <2>2. (stale' # {} => active') /\ (wrote' # {} => active' \/ tx' = "statement")
    BY <1>2, <1>3 DEF Inv, Views, TypeOK
  <2>3. \A n \in Names \ touched' : mine'.pg[n] = cat'.pg[n] /\ mine'.idx[n] = cat'.idx[n]
    BY <1>1, <1>2 DEF Inv, Views, Fits
  <2>4. \A n \in Names \ (wrote' \cup stale') : mine'.lake[n] = cat'.lake[n]
    BY <1>1, <1>2 DEF Inv, Views, Fits
  <2>. QED
    BY <2>1, <2>2, <2>3, <2>4 DEF Views
<1>6. ASSUME leaked' = 0
      PROVE  /\ ExistInv'
             /\ ~SortedRenames => SortInv'
             /\ ~PathWithIfNotExists => PathInv'
  <2>1. leaked = 0
    BY <1>6 DEF BackendOK
  <2>2. ExistInv'
    <3>1. ASSUME NEW n \in touched', p[n] = "ducklake"
          PROVE  n \in wrote' /\ l[n] # NoTable
      <4>1. CASE n \in ns
        BY <1>2, <2>1, <3>1, <4>1 DEF Fits
      <4>2. CASE n \notin ns
        <5>1. n \in touched /\ n \in Names /\ n \notin ls
          BY <1>2, <1>3, <4>2 DEF Inv, TypeOK
        <5>2. mine.pg[n] = "ducklake" /\ l[n] = mine.lake[n]
          BY <3>1, <4>2, <5>1 DEF Fits
        <5>. QED
          BY <1>2, <2>1, <5>1, <5>2 DEF Inv, ExistInv, Exists
      <4>. QED
        BY <4>1, <4>2
    <3>. QED
      BY <1>1, <1>2, <2>1, <3>1 DEF Inv, ExistInv, Exists
  <2>3. ASSUME ~SortedRenames PROVE SortInv'
    <3>1. ASSUME wrote' \cap stale' = {}, NEW n \in touched'
          PROVE  Indexed(p, i, l, n)
      <4>1. CASE n \in ns
        BY <1>2, <2>1, <2>3, <3>1, <4>1 DEF Fits
      <4>2. CASE n \notin ns
        <5>1. n \in touched /\ n \in Names /\ n \notin ls
          BY <1>2, <1>3, <4>2 DEF Inv, TypeOK
        <5>2. mine.pg[n] = p[n] /\ l[n] = mine.lake[n] /\ i[n] = mine.idx[n]
          BY <4>2, <5>1 DEF Fits
        <5>3. wrote \cap stale = {}
          BY <1>2, <3>1
        <5>. QED
          BY <2>1, <2>3, <5>1, <5>2, <5>3 DEF Inv, SortInv, Indexed
      <4>. QED
        BY <4>1, <4>2
    <3>. QED
      BY <1>1, <1>2, <2>1, <2>3, <3>1 DEF Inv, SortInv
  <2>4. ASSUME ~PathWithIfNotExists PROVE PathInv'
    <3>1. ASSUME NEW n \in Names PROVE Placed(l, n)
      BY <2>1, <2>4 DEF Fits, Inv, PathInv, Placed
    <3>. QED
      BY <1>1, <1>2, <1>6, <2>1, <2>4, <3>1 DEF Inv, PathInv, BackendOK
  <2>. QED
    BY <2>2, <2>3, <2>4
<1>. QED
  BY <1>4, <1>5, <1>6 DEF Inv, BackendOK

(* BEGIN, ROLLBACK and the first query of a block.                         *)
LEMMA TransactionsOK == ASSUME Inv, Begin \/ Rollback \/ Query PROVE Inv'
<1>1. CASE Begin
  <2>1. BackendOK
    BY <1>1, BoundsAssumption, SMT DEF Inv, TypeOK, PathInv, Begin, BackendOK
  <2>2. TypeOK'
    BY <1>1, <2>1 DEF Inv, TypeOK, Begin, BackendOK
  <2>3. Views'
    BY <1>1 DEF Inv, TypeOK, Views, Begin
  <2>. QED
    BY <1>1, <2>1, <2>2, <2>3
    DEF Inv, ExistInv, SortInv, PathInv, Exists, Begin, BackendOK
<1>2. CASE Rollback
  BY <1>2, FailsOK DEF Inv, TypeOK, PathInv, Rollback
<1>3. CASE Query
  BY <1>3 DEF Inv, TypeOK, Views, ExistInv, SortInv, PathInv, Exists, Query
<1>. QED
  BY <1>1, <1>2, <1>3

(* COMMIT: a name is taken from the session in both catalogs or in none.   *)
LEMMA CommitOK == ASSUME Inv, Commit PROVE Inv'
<1>1. BackendOK /\ leaked' = leaked
  BY DEF Inv, TypeOK, PathInv, Commit, BackendOK
<1>2. CASE wrote \cap stale # {}
  BY <1>1, <1>2, EndsOK, CommittedIsSound DEF Commit
<1>3. CASE wrote \cap stale = {}
  <2>. DEFINE p == [n \in Names |-> IF n \in touched THEN mine.pg[n] ELSE cat.pg[n]]
              i == [n \in Names |-> IF n \in touched THEN mine.idx[n] ELSE cat.idx[n]]
              l == [n \in Names |-> IF n \in wrote THEN mine.lake[n] ELSE cat.lake[n]]
              c == [pg |-> p, idx |-> i, lake |-> l]
  <2>1. Ends(c)
    BY <1>3 DEF Commit
  <2>2. p \in PgClasses /\ i \in Indexes /\ l \in Metadata
    <3>1. /\ mine.pg \in PgClasses /\ mine.idx \in Indexes /\ mine.lake \in Metadata
          /\ cat.pg \in PgClasses /\ cat.idx \in Indexes /\ cat.lake \in Metadata
      BY CatalogParts DEF Inv, TypeOK
    <3>. QED
      BY <3>1 DEF PgClasses, Indexes, Metadata
  <2>3. c \in Catalogs /\ c.pg = p /\ c.idx = i /\ c.lake = l
    BY <2>2, CatalogParts
  <2>4. ASSUME NEW n \in Names
        PROVE  /\ n \in touched => p[n] = mine.pg[n] /\ i[n] = mine.idx[n]
               /\ n \notin touched => /\ p[n] = cat.pg[n] /\ i[n] = cat.idx[n]
                                     /\ l[n] = cat.lake[n]
               /\ n \in wrote => l[n] = mine.lake[n]
               /\ n \notin wrote => l[n] = cat.lake[n]
    BY DEF Inv, Views
  <2>. HIDE DEF p, i, l, c
  <2>5. ASSUME leaked = 0 PROVE Sound(c)
    <3>1. ASSUME NEW n \in Names PROVE Found(p, l, n)
      BY <2>4, <2>5 DEF Inv, ExistInv, Exists, Found
    <3>2. ASSUME ~SortedRenames, NEW n \in Names PROVE Indexed(p, i, l, n)
      <4>1. CASE n \in touched
        BY <1>3, <2>4, <2>5, <3>2, <4>1 DEF Inv, ExistInv, SortInv, Exists, Indexed
      <4>2. CASE n \notin touched
        BY <2>4, <2>5, <3>2, <4>2 DEF Inv, SortInv, Indexed
      <4>. QED
        BY <4>1, <4>2
    <3>3. ASSUME ~PathWithIfNotExists, NEW n \in Names PROVE Placed(l, n)
      BY <2>4, <2>5, <3>3 DEF Inv, PathInv, Placed
    <3>. QED
      BY <2>3, <3>1, <3>2, <3>3 DEF Sound
  <2>. QED
    BY <1>1, <2>1, <2>3, <2>5, EndsOK
<1>. QED
  BY <1>2, <1>3

---------------------------------------------------------------------------
(***************************************************************************)
(* External clients.                                                       *)
(***************************************************************************)

(* A snapshot changes no table it does not name, and what it begins is     *)
(* there afterwards, not sorted.                                           *)
Snapshot(lake, begun, ended, resorted) ==
  /\ lake \in Metadata
  /\ begun \subseteq Names /\ ended \subseteq Names /\ resorted \subseteq Names
  /\ \A n \in Names \ (begun \cup ended \cup resorted) : lake[n] = cat.lake[n]
  /\ leaked = 0 =>
       /\ \A n \in Names \ ended :
            n \in begun \/ cat.lake[n] # NoTable => lake[n] # NoTable
       /\ ~SortedRenames =>
            \A n \in Names \ (ended \cup resorted) :
              lake[n] # NoTable /\ lake[n].sorted =>
                n \notin begun /\ lake[n] = cat.lake[n]
       /\ ~PathWithIfNotExists => \A n \in Names : Placed(lake, n)

(* A client's commit and the snapshot trigger in it: the trigger brings    *)
(* what began and ended into pg_class, and the session's view follows, but *)
(* for the names it has changed and the metadata it reads at an older      *)
(* snapshot.                                                               *)
LEMMA ExternalCommitOK ==
  ASSUME Inv, NEW lake, NEW begun, NEW ended, NEW resorted,
         Snapshot(lake, begun, ended, resorted),
         ExternalCommit(lake, begun, ended, resorted)
  PROVE  Inv'
<1>. DEFINE p1 == SyncNewTables(cat.pg, begun)
            p == SyncDroppedTables(p1, ended)
            i == SyncSortKeys(p, cat.idx, lake, resorted)
            c == [pg |-> p, idx |-> i, lake |-> lake]
            mp == [n \in Names |-> IF n \in touched THEN mine.pg[n] ELSE c.pg[n]]
            mi == [n \in Names |-> IF n \in touched THEN mine.idx[n] ELSE c.idx[n]]
            ml == IF active THEN mine.lake ELSE c.lake
            changed == begun \cup ended \cup resorted
<1>1. /\ mine.pg \in PgClasses /\ mine.idx \in Indexes /\ mine.lake \in Metadata
      /\ cat.pg \in PgClasses /\ cat.idx \in Indexes /\ cat.lake \in Metadata
  BY CatalogParts DEF Inv, TypeOK
<1>2. p \in PgClasses /\ lake \in Metadata
  BY <1>1 DEF SyncNewTables, SyncDroppedTables, PgClasses, Snapshot
<1>3. i \in Indexes
  <2>1. 0 \in 0 .. MaxIndexes /\ 1 \in 0 .. MaxIndexes
    BY BoundsAssumption, SMT
  <2>. HIDE DEF p
  <2>. QED
    BY <1>1, <2>1, SMT DEF SyncSortKeys, Indexes
<1>4. ASSUME NEW n \in Names
      PROVE  /\ n \in ended => p[n] = "none"
             /\ n \notin ended /\ n \notin begun => p[n] = cat.pg[n]
             /\ p[n] = "ducklake" => n \in begun \/ cat.pg[n] = "ducklake"
             /\ n \in resorted /\ p[n] # "none" /\ lake[n].sorted => i[n] > 0
             /\ n \notin resorted /\ p[n] # "none" => i[n] = cat.idx[n]
  <2>1. /\ n \in ended => p[n] = "none"
        /\ n \notin ended /\ n \notin begun => p[n] = cat.pg[n]
        /\ p[n] = "ducklake" => n \in begun \/ cat.pg[n] = "ducklake"
    BY DEF SyncNewTables, SyncDroppedTables
  <2>. HIDE DEF p
  <2>2. /\ n \in resorted /\ p[n] # "none" /\ lake[n].sorted => i[n] > 0
        /\ n \notin resorted /\ p[n] # "none" => i[n] = cat.idx[n]
    BY SMT DEF SyncSortKeys
  <2>. QED
    BY <2>1, <2>2
<1>. HIDE DEF p, i
<1>5. c \in Catalogs /\ c.pg = p /\ c.idx = i /\ c.lake = lake
  BY <1>2, <1>3, CatalogParts
<1>6. /\ cat' = c /\ mine' = [pg |-> mp, idx |-> mi, lake |-> ml]
      /\ stale' = (IF active THEN stale \cup changed ELSE stale)
      /\ tx = "statement" => wrote = {}
      /\ UNCHANGED <<tx, touched, wrote, active, options, syncing, leaked>>
  BY DEF ExternalCommit, p, i
<1>. HIDE DEF c
<1>7. mp \in PgClasses /\ mi \in Indexes /\ ml \in Metadata
  BY <1>1, <1>2, <1>3, <1>5 DEF PgClasses, Indexes
<1>8. ASSUME NEW n \in Names
      PROVE  /\ n \in touched => mp[n] = mine.pg[n] /\ mi[n] = mine.idx[n]
             /\ n \notin touched => mp[n] = p[n] /\ mi[n] = i[n]
  BY <1>5
<1>9. \/ active /\ ml = mine.lake
      \/ ~active /\ ml = lake /\ wrote = {} /\ stale = {}
  BY <1>5, <1>6 DEF Inv, TypeOK, Views
<1>10. touched = {} /\ ~active => cat' = mine'
  <2>1. p = [n \in Names |-> p[n]] /\ i = [n \in Names |-> i[n]]
    BY <1>2, <1>3 DEF PgClasses, Indexes
  <2>. QED
    BY <1>5, <1>6, <2>1 DEF c
<1>. HIDE DEF mp, mi, ml
<1>11. mine' \in Catalogs /\ mine'.pg = mp /\ mine'.idx = mi /\ mine'.lake = ml
  BY <1>6, <1>7, CatalogParts
<1>12. cat' \in Catalogs /\ cat'.pg = p /\ cat'.idx = i /\ cat'.lake = lake
  BY <1>5, <1>6
<1>13. changed \subseteq Names
  BY DEF Snapshot
<1>14. TypeOK'
  BY <1>6, <1>11, <1>12, <1>13, <1>10 DEF Inv, TypeOK
<1>15. Views'
  <2>1. ASSUME NEW n \in Names \ touched
        PROVE  mp[n] = p[n] /\ mi[n] = i[n]
    BY <1>8
  <2>2. ASSUME NEW n \in Names, n \notin wrote, n \notin stale'
        PROVE  ml[n] = lake[n]
    <3>1. CASE active
      <4>1. n \notin stale /\ n \notin changed
        BY <1>6, <2>2, <3>1
      <4>. QED
        BY <1>9, <2>2, <3>1, <4>1 DEF Inv, Views, Snapshot
    <3>2. CASE ~active
      BY <1>9, <3>2
    <3>. QED
      BY <3>1, <3>2
  <2>3. stale' # {} => active
    BY <1>6 DEF Inv, Views
  <2>. QED
    BY <1>6, <1>11, <1>12, <2>1, <2>2, <2>3 DEF Inv, Views
<1>16. ASSUME leaked = 0 PROVE ExistInv'
  <2>1. ASSUME NEW n \in Names PROVE Found(p, lake, n)
    BY <1>4, <1>16 DEF Inv, ExistInv, Found, Snapshot
  <2>2. ASSUME NEW n \in touched, mp[n] = "ducklake"
        PROVE  n \in wrote /\ ml[n] # NoTable
    BY <1>8, <1>9, <1>16, <2>2 DEF Inv, TypeOK, ExistInv, Exists
  <2>. QED
    BY <1>6, <1>11, <1>12, <2>1, <2>2 DEF ExistInv, Exists
<1>17. ASSUME leaked = 0, ~SortedRenames PROVE SortInv'
  <2>1. ASSUME NEW n \in Names PROVE Indexed(p, i, lake, n)
    <3>1. CASE n \in resorted
      BY <1>4, <3>1 DEF Indexed
    <3>2. CASE n \notin resorted
      BY <1>4, <1>17, <3>2 DEF Inv, SortInv, Indexed, Snapshot
    <3>. QED
      BY <3>1, <3>2
  <2>2. ASSUME NEW n \in touched, wrote \cap stale' = {}
        PROVE  Indexed(mp, mi, ml, n)
    <3>1. wrote \cap stale = {}
      BY <1>6, <2>2
    <3>2. mp[n] = mine.pg[n] /\ mi[n] = mine.idx[n]
      BY <1>8 DEF Inv, TypeOK
    <3>3. CASE active
      BY <1>9, <1>17, <3>1, <3>2, <3>3 DEF Inv, SortInv, Indexed
    <3>4. CASE ~active
      BY <1>9, <1>17, <3>2, <3>4 DEF Inv, ExistInv, Indexed
    <3>. QED
      BY <3>3, <3>4
  <2>. QED
    BY <1>6, <1>11, <1>12, <2>1, <2>2 DEF SortInv
<1>18. ASSUME leaked = 0, ~PathWithIfNotExists PROVE PathInv'
  BY <1>6, <1>9, <1>11, <1>12, <1>18 DEF Inv, PathInv, Snapshot
<1>. QED
  BY <1>6, <1>14, <1>15, <1>16, <1>17, <1>18 DEF Inv

(* The snapshots of the clients are as ExternalCommitOK asks.              *)
LEMMA ClientsOK ==
  ASSUME Inv, NEW n \in LakeNames,
         \/ ExternalCreate(n) \/ ExternalDrop(n) \/ ExternalReplace(n)
         \/ ExternalSort(n) \/ \E m \in LakeNames \ {n} : ExternalRename(n, m)
  PROVE  Inv'
<1>1. n \in Names /\ cat.lake \in Metadata
  BY CatalogParts DEF Inv, TypeOK, Names
<1>2. /\ NewTable \in LakeTables /\ NewTable # NoTable /\ ~NewTable.sorted
      /\ NewTable.path = NewTable.asked
  BY MadeTables, TablesAreTables
<1>3. leaked = 0 /\ ~PathWithIfNotExists => \A k \in Names : Placed(cat.lake, k)
  BY DEF Inv, PathInv
<1>4. ASSUME NEW t \in {NewTable, NoTable}, NEW begun \in SUBSET {n},
             NEW ended \in SUBSET {n}, t = NewTable \/ n \in ended,
             begun \cup ended = {n}
      PROVE  Snapshot([cat.lake EXCEPT ![n] = t], begun, ended, {})
  <2>. DEFINE l == [cat.lake EXCEPT ![n] = t]
  <2>1. l \in Metadata /\ l[n] = t /\ \A k \in Names \ {n} : l[k] = cat.lake[k]
    BY <1>1, <1>2 DEF Metadata
  <2>. HIDE DEF l
  <2>2. Placed(l, n)
    BY <1>2, <2>1 DEF Placed
  <2>3. ~PathWithIfNotExists /\ leaked = 0 => \A k \in Names : Placed(l, k)
    BY <1>3, <2>1, <2>2 DEF Placed
  <2>4. ASSUME NEW k \in Names \ ended
        PROVE  /\ k \in begun \/ cat.lake[k] # NoTable => l[k] # NoTable
               /\ l[k] # NoTable /\ l[k].sorted => k \notin begun /\ l[k] = cat.lake[k]
    <3>1. CASE k = n
      BY <1>2, <1>4, <2>1, <3>1
    <3>2. CASE k # n
      BY <1>4, <2>1, <3>2
    <3>. QED
      BY <3>1, <3>2
  <2>5. begun \subseteq Names /\ ended \subseteq Names /\ begun \cup ended \cup {} = {n}
    BY <1>1, <1>4
  <2>6. Snapshot(l, begun, ended, {})
    BY <2>1, <2>3, <2>4, <2>5 DEF Snapshot
  <2>. QED
    BY <2>6 DEF l
<1>5. CASE ExternalCreate(n)
  BY <1>4, <1>5, ExternalCommitOK DEF ExternalCreate
<1>6. CASE ExternalDrop(n)
  BY <1>4, <1>6, ExternalCommitOK DEF ExternalDrop
<1>7. CASE ExternalReplace(n)
  BY <1>4, <1>7, ExternalCommitOK DEF ExternalReplace
<1>8. CASE ExternalSort(n)
  <2>1. PICK b \in BOOLEAN :
          ExternalCommit([cat.lake EXCEPT ![n].sorted = b], {}, {}, {n})
    BY <1>8 DEF ExternalSort
  <2>. DEFINE l == [cat.lake EXCEPT ![n].sorted = b]
              t == [cat.lake[n] EXCEPT !.sorted = b]
  <2>2. cat.lake[n] \in LakeTables
    BY <1>1, <1>8 DEF ExternalSort, Exists, Metadata
  <2>3. /\ t \in LakeTables /\ t # NoTable
        /\ t.path = cat.lake[n].path /\ t.asked = cat.lake[n].asked
    BY <2>2, MadeTables, TablesAreTables, SMT
  <2>4. l = [cat.lake EXCEPT ![n] = t]
    BY <1>1, SMT DEF Metadata
  <2>. HIDE DEF t
  <2>5. l \in Metadata /\ l[n] = t /\ \A k \in Names \ {n} : l[k] = cat.lake[k]
    BY <1>1, <2>3, <2>4 DEF Metadata
  <2>. HIDE DEF l
  <2>6. leaked = 0 /\ ~PathWithIfNotExists => \A k \in Names : Placed(l, k)
    BY <1>1, <1>3, <1>8, <2>3, <2>5 DEF Placed, ExternalSort, Exists
  <2>7. Snapshot(l, {}, {}, {n})
    BY <1>1, <2>3, <2>5, <2>6 DEF Snapshot
  <2>. QED
    BY <2>1, <2>7, ExternalCommitOK DEF l
<1>9. ASSUME NEW m \in LakeNames \ {n}, ExternalRename(n, m) PROVE Inv'
  <2>. DEFINE l == [cat.lake EXCEPT ![n] = NoTable, ![m] = cat.lake[n]]
  <2>1. /\ l \in Metadata /\ l[n] = NoTable /\ l[m] = cat.lake[n] /\ m \in Names
        /\ \A k \in Names \ {n, m} : l[k] = cat.lake[k]
    BY <1>1, SMT DEF Metadata, Names
  <2>. HIDE DEF l
  <2>2. cat.lake[n] # NoTable /\ (cat.lake[n].sorted => SortedRenames)
    BY <1>9 DEF ExternalRename, Exists
  <2>3. leaked = 0 /\ ~PathWithIfNotExists => \A k \in Names : Placed(l, k)
    <3>1. Placed(l, n)
      BY <2>1 DEF Placed
    <3>2. leaked = 0 /\ ~PathWithIfNotExists => Placed(l, m)
      BY <1>1, <1>3, <2>1, <2>2 DEF Placed
    <3>. QED
      BY <1>3, <2>1, <3>1, <3>2 DEF Placed
  <2>4. Snapshot(l, {m}, {n}, {})
    BY <1>1, <2>1, <2>2, <2>3 DEF Snapshot
  <2>. QED
    BY <1>9, <2>4, ExternalCommitOK DEF ExternalRename, l
<1>. QED
  BY <1>5, <1>6, <1>7, <1>8, <1>9

---------------------------------------------------------------------------
(***************************************************************************)
(* DDL of the session.                                                     *)
(***************************************************************************)

(* A statement that leaves the backend's variables alone.                  *)
LEMMA Unchanged ==
  ASSUME Inv, UNCHANGED <<options, syncing, leaked>>
  PROVE  BackendOK
  BY DEF Inv, TypeOK, PathInv, BackendOK

(* The session's view, taken apart.                                        *)
LEMMA ViewParts ==
  ASSUME Inv
  PROVE  mine.pg \in PgClasses /\ mine.idx \in Indexes /\ mine.lake \in Metadata
  BY CatalogParts DEF Inv, TypeOK

(* What a table the session has in pg_class looks like to it, as long as   *)
(* nobody has changed it behind the session's back.                        *)
LEMMA ViewIsIndexed ==
  ASSUME Inv, leaked = 0, ~SortedRenames, wrote \cap stale = {},
         NEW n \in Names \ stale
  PROVE  Indexed(mine.pg, mine.idx, mine.lake, n)
<1>1. CASE n \in touched
  BY <1>1 DEF Inv, SortInv
<1>2. CASE n \notin touched
  BY <1>2 DEF Inv, Views, SortInv, Indexed
<1>. QED
  BY <1>1, <1>2

(* CREATE TABLE .. USING ducklake, whichever way it ends: passed over,     *)
(* refused by PostgreSQL or by DuckLake, or carried out in both.           *)
LEMMA CreateDucklakeTableOK ==
  ASSUME Inv, NEW n \in LakeNames, NEW o \in Paths, NEW e \in BOOLEAN,
         CreateDucklakeTable(n, o, e)
  PROVE  Inv'
<1>. DEFINE put == [path |-> Stripped(o), asked |-> o, sorted |-> FALSE]
            p == [mine.pg EXCEPT ![n] = "ducklake"]
            l == [mine.lake EXCEPT ![n] = put]
<1>1. /\ n \in Names /\ mine.pg \in PgClasses /\ mine.idx \in Indexes
      /\ mine.lake \in Metadata /\ tx # "none"
  BY ViewParts DEF Names, CreateDucklakeTable
<1>2. Stripped(o) \in Paths /\ AfterFailedCreate(o) \in Paths /\ "default" \in Paths
  BY DEF Inv, TypeOK, Stripped, AfterFailedCreate, Paths
<1>3. leaked = 0 /\ ~PathWithIfNotExists =>
        /\ options = "default" /\ Stripped(o) = o /\ AfterFailedCreate(o) = "default"
        /\ e => o = "default"
  BY DEF Inv, PathInv, Stripped, AfterFailedCreate, CreateDucklakeTable
<1>4. /\ p \in PgClasses /\ p[n] = "ducklake"
      /\ \A k \in Names \ {n} : p[k] = mine.pg[k]
  BY <1>1 DEF PgClasses
<1>5. /\ put \in LakeTables /\ put # NoTable /\ ~put.sorted
      /\ put.path = Stripped(o) /\ put.asked = o
  BY <1>2, MadeTables, TablesAreTables
<1>. HIDE DEF put
<1>6. /\ l \in Metadata /\ l[n] = put
      /\ \A k \in Names \ {n} : l[k] = mine.lake[k]
  BY <1>1, <1>5 DEF Metadata
<1>. HIDE DEF p, l
<1>7. CASE /\ e /\ options' = Stripped(o)
           /\ UNCHANGED <<cat, mine, tx, touched, wrote, active, stale, syncing, leaked>>
  BY <1>2, <1>3, <1>7
  DEF Inv, TypeOK, Views, ExistInv, SortInv, PathInv, Exists
<1>8. CASE Fails(AfterFailedCreate(o))
  BY <1>2, <1>3, <1>8, FailsOK
<1>9. CASE /\ syncing /\ Does({n}, p, mine.idx, {}, mine.lake)
           /\ options' = Stripped(o) /\ UNCHANGED <<syncing, leaked>>
  <2>1. leaked # 0
    BY <1>9 DEF Inv
  <2>2. BackendOK
    BY <1>2, <1>9, <2>1 DEF Inv, TypeOK, BackendOK
  <2>3. Fits({n}, p, mine.idx, {}, mine.lake)
    BY <1>1, <1>4, <2>1 DEF Fits
  <2>. QED
    BY <1>9, <2>2, <2>3, DoesOK
<1>10. CASE Fails("default")
  BY <1>2, <1>10, FailsOK
<1>11. CASE /\ ~syncing /\ Does({n}, p, mine.idx, {n}, l)
            /\ options' = "default" /\ UNCHANGED <<syncing, leaked>>
  <2>1. BackendOK
    BY <1>2, <1>11 DEF Inv, TypeOK, BackendOK
  <2>2. Indexed(p, mine.idx, l, n)
    BY <1>5, <1>6 DEF Indexed
  <2>3. leaked = 0 /\ ~PathWithIfNotExists => Placed(l, n)
    BY <1>3, <1>5, <1>6 DEF Placed
  <2>4. Fits({n}, p, mine.idx, {n}, l)
    BY <1>1, <1>4, <1>5, <1>6, <2>2, <2>3 DEF Fits
  <2>. QED
    BY <1>11, <2>1, <2>4, DoesOK
<1>. QED
  BY <1>7, <1>8, <1>9, <1>10, <1>11 DEF CreateDucklakeTable, put, p, l

(* Other tables are not forwarded; DROP leaves nothing in pg_class,        *)
(* whether DuckLake has the table or not.                                  *)
LEMMA HeapAndDropOK ==
  ASSUME Inv, NEW n \in Names, CreateHeapTable(n) \/ DropTable(n)
  PROVE  Inv'
<1>1. /\ mine.pg \in PgClasses /\ mine.idx \in Indexes
      /\ mine.lake \in Metadata
  BY ViewParts
<1>2. CASE CreateHeapTable(n)
  <2>. DEFINE p == [mine.pg EXCEPT ![n] = "heap"]
  <2>1. /\ p \in PgClasses /\ p[n] = "heap"
        /\ \A k \in Names \ {n} : p[k] = mine.pg[k]
    BY <1>1 DEF PgClasses
  <2>. HIDE DEF p
  <2>2. Fits({n}, p, mine.idx, {}, mine.lake)
    BY <1>1, <1>2, <2>1 DEF Fits, Indexed, CreateHeapTable
  <2>. QED
    BY <1>2, <2>2, DoesOK, Unchanged DEF CreateHeapTable, p
<1>3. CASE DropTable(n)
  <2>. DEFINE p == [mine.pg EXCEPT ![n] = "none"]
              i == [mine.idx EXCEPT ![n] = 0]
              gone == IF (~syncing /\ DropTargetIsDucklakeTable(n)) /\ Exists(mine, n)
                        THEN {n} ELSE {}
              l == [m \in Names |-> IF m \in gone THEN NoTable ELSE mine.lake[m]]
  <2>1. Does({n}, p, i, gone, l) /\ tx # "none" /\ UNCHANGED <<options, syncing, leaked>>
    BY <1>3 DEF DropTable
  <2>2. gone \subseteq {n}
    OBVIOUS
  <2>. HIDE DEF gone
  <2>3. /\ p \in PgClasses /\ p[n] = "none"
        /\ \A k \in Names \ {n} : p[k] = mine.pg[k]
    BY <1>1 DEF PgClasses
  <2>4. /\ i \in Indexes /\ \A k \in Names \ {n} : i[k] = mine.idx[k]
    <3>1. 0 \in 0 .. MaxIndexes
      BY BoundsAssumption, SMT
    <3>. QED
      BY <1>1, <3>1 DEF Indexes
  <2>5. /\ l \in Metadata /\ \A k \in gone : l[k] = NoTable
        /\ \A k \in Names \ gone : l[k] = mine.lake[k]
    BY <1>1, <2>2 DEF Metadata
  <2>. HIDE DEF p, i, l
  <2>6. Fits({n}, p, i, gone, l)
    BY <2>1, <2>2, <2>3, <2>4, <2>5 DEF Fits, Indexed, Placed
  <2>. QED
    BY <2>1, <2>6, DoesOK, Unchanged
<1>. QED
  BY <1>2, <1>3

(* ALTER TABLE .. RENAME: the index and the sort keys move together.       *)
LEMMA RenameTableOK ==
  ASSUME Inv, NEW n \in LakeNames, NEW m \in LakeNames \ {n}, RenameTable(n, m)
  PROVE  Inv'
<1>. DEFINE p == [mine.pg EXCEPT ![n] = "none", ![m] = "ducklake"]
            i == [mine.idx EXCEPT ![n] = 0, ![m] = mine.idx[n]]
            l == [mine.lake EXCEPT ![n] = NoTable, ![m] = mine.lake[n]]
<1>1. /\ n \in Names /\ m \in Names /\ n # m /\ mine.pg \in PgClasses
      /\ mine.idx \in Indexes /\ mine.lake \in Metadata
      /\ tx # "none" /\ mine.pg[n] = "ducklake"
  BY ViewParts DEF Names, RenameTable
<1>2. /\ p \in PgClasses /\ p[n] = "none" /\ p[m] = "ducklake"
      /\ \A k \in Names \ {n, m} : p[k] = mine.pg[k]
  BY <1>1, SMT DEF PgClasses
<1>3. /\ i \in Indexes /\ i[m] = mine.idx[n]
      /\ \A k \in Names \ {n, m} : i[k] = mine.idx[k]
  BY <1>1, BoundsAssumption, SMT DEF Indexes
<1>4. /\ l \in Metadata /\ l[n] = NoTable /\ l[m] = mine.lake[n]
      /\ \A k \in Names \ {n, m} : l[k] = mine.lake[k]
  BY <1>1, SMT DEF Metadata
<1>. HIDE DEF p, i, l
<1>5. CASE /\ syncing /\ Does({n, m}, p, i, {}, mine.lake)
           /\ UNCHANGED <<options, syncing, leaked>>
  <2>1. Fits({n, m}, p, i, {}, mine.lake)
    BY <1>1, <1>2, <1>3, <1>5 DEF Fits, Inv
  <2>. QED
    BY <1>5, <2>1, DoesOK, Unchanged
<1>6. CASE /\ ~syncing /\ Exists(mine, n) /\ Does({n, m}, p, i, {n, m}, l)
           /\ UNCHANGED <<options, syncing, leaked>>
  <2>1. ASSUME leaked = 0, ~SortedRenames, (wrote \cup {n, m}) \cap stale = {}
        PROVE  Indexed(p, i, l, m)
    <3>1. Indexed(mine.pg, mine.idx, mine.lake, n)
      BY <1>1, <2>1, ViewIsIndexed
    <3>. QED
      BY <1>1, <1>3, <1>4, <3>1 DEF Indexed
  <2>2. Indexed(p, i, l, n) /\ Placed(l, n)
    BY <1>2, <1>4 DEF Indexed, Placed
  <2>3. leaked = 0 /\ ~PathWithIfNotExists => Placed(l, m)
    BY <1>1, <1>4 DEF Inv, PathInv, Placed
  <2>4. Fits({n, m}, p, i, {n, m}, l)
    BY <1>1, <1>2, <1>3, <1>4, <1>6, <2>1, <2>2, <2>3 DEF Fits, Exists
  <2>. QED
    BY <1>6, <2>4, DoesOK, Unchanged
<1>7. CASE Fails(options)
  BY <1>7, FailsOK DEF Inv, TypeOK, PathInv
<1>. QED
  BY <1>5, <1>6, <1>7 DEF RenameTable, p, i, l

(* A change of sort keys: the index is there whenever the keys are.        *)
LEMMA SortsOK ==
  ASSUME Inv, tx # "none", NEW n \in Names, NEW b \in BOOLEAN,
         NEW j \in 0 .. MaxIndexes, NEW s \in BOOLEAN,
         Sorts(n, b, j, s), b => j > 0, leaked = 0 => ~s
  PROVE  Inv'
<1>1. /\ mine.pg \in PgClasses /\ mine.idx \in Indexes
      /\ mine.lake \in Metadata
  BY ViewParts
<1>2. CASE Fails(options)
  BY <1>2, FailsOK DEF Inv, TypeOK, PathInv
<1>3. CASE Exists(mine, n)
  <2>. DEFINE i == [mine.idx EXCEPT ![n] = j]
              l == [mine.lake EXCEPT ![n].sorted = b]
              t == [mine.lake[n] EXCEPT !.sorted = b]
  <2>1. /\ Does({n}, mine.pg, i, {n}, l) /\ syncing' = s
        /\ UNCHANGED <<options, leaked>>
    BY <1>3 DEF Sorts, SetSorted
  <2>2. mine.lake[n] \in LakeTables /\ mine.lake[n] # NoTable
    BY <1>1, <1>3 DEF Exists, Metadata
  <2>3. /\ t \in LakeTables /\ t # NoTable /\ t.sorted = b
        /\ t.path = mine.lake[n].path /\ t.asked = mine.lake[n].asked
    BY <2>2, MadeTables, TablesAreTables, SMT
  <2>4. l = [mine.lake EXCEPT ![n] = t]
    BY <1>1, SMT DEF Metadata
  <2>. HIDE DEF t
  <2>5. /\ l \in Metadata /\ l[n] = t
        /\ \A k \in Names \ {n} : l[k] = mine.lake[k]
    BY <1>1, <2>3, <2>4 DEF Metadata
  <2>6. i \in Indexes /\ i[n] = j /\ \A k \in Names \ {n} : i[k] = mine.idx[k]
    BY <1>1 DEF Indexes
  <2>. HIDE DEF i, l
  <2>7. BackendOK
    BY <2>1 DEF Inv, TypeOK, PathInv, BackendOK
  <2>8. Indexed(mine.pg, i, l, n)
    BY <2>3, <2>5, <2>6 DEF Indexed
  <2>9. leaked = 0 /\ ~PathWithIfNotExists => Placed(l, n)
    BY <2>2, <2>3, <2>5 DEF Inv, PathInv, Placed
  <2>10. Fits({n}, mine.pg, i, {n}, l)
    BY <1>1, <2>3, <2>5, <2>6, <2>8, <2>9 DEF Fits
  <2>. QED
    BY <2>1, <2>7, <2>10, DoesOK
<1>. QED
  BY <1>2, <1>3 DEF Sorts

(* CREATE INDEX, DROP INDEX, set_sort and reset_sort, with the error in    *)
(* set_sort that leaves the flag raised.                                   *)
LEMMA SortStatementsOK ==
  ASSUME Inv, NEW n \in LakeNames,
         \/ CreateSortedIndex(n) \/ DropSortedIndex(n) \/ IndexWhileSyncing(n)
         \/ SetSort(n) \/ ResetSort(n)
  PROVE  Inv'
<1>1. n \in Names /\ mine.idx \in Indexes /\ mine.pg \in PgClasses
  BY ViewParts DEF Names
<1>2. mine.idx[n] \in 0 .. MaxIndexes
  BY <1>1 DEF Indexes
<1>3. CASE CreateSortedIndex(n)
  <2>1. mine.idx[n] + 1 \in 0 .. MaxIndexes /\ mine.idx[n] + 1 > 0
    BY <1>2, <1>3, BoundsAssumption, SMT DEF CreateSortedIndex
  <2>. QED
    BY <1>1, <1>3, <2>1, SortsOK DEF CreateSortedIndex, Inv, TypeOK
<1>4. CASE DropSortedIndex(n)
  <2>1. mine.idx[n] - 1 \in 0 .. MaxIndexes
    BY <1>2, <1>4, BoundsAssumption, SMT DEF DropSortedIndex
  <2>. QED
    BY <1>1, <1>4, <2>1, SortsOK DEF DropSortedIndex, Inv, TypeOK
<1>5. CASE IndexWhileSyncing(n)
  <2>1. PICK j \in 0 .. MaxIndexes :
          Does({n}, mine.pg, [mine.idx EXCEPT ![n] = j], {}, mine.lake)
    BY <1>5 DEF IndexWhileSyncing
  <2>. DEFINE i == [mine.idx EXCEPT ![n] = j]
  <2>2. i \in Indexes /\ \A k \in Names \ {n} : i[k] = mine.idx[k]
    BY <1>1 DEF Indexes
  <2>. HIDE DEF i
  <2>3. Fits({n}, mine.pg, i, {}, mine.lake)
    BY <1>1, <1>5, <2>2, ViewParts DEF Fits, Inv, IndexWhileSyncing
  <2>. QED
    BY <1>5, <2>1, <2>3, DoesOK, Unchanged DEF IndexWhileSyncing, i
<1>6. CASE SetSort(n)
  <2>1. 1 \in 0 .. MaxIndexes /\ 1 > 0 /\ 1 \in 0 .. MaxLeaked + 1 /\ 1 # 0
    BY BoundsAssumption, SMT
  <2>2. CASE Sorts(n, TRUE, 1, FALSE)
    BY <1>1, <1>6, <2>1, <2>2, SortsOK DEF SetSort
  <2>3. CASE Ends(cat) /\ syncing' = TRUE /\ leaked' = 1 /\ UNCHANGED options
    <3>1. BackendOK /\ leaked' # 0
      BY <2>1, <2>3 DEF Inv, TypeOK, BackendOK
    <3>. QED
      BY <2>3, <3>1, EndsOK, CommittedIsSound
  <2>. QED
    BY <1>6, <2>2, <2>3 DEF SetSort, SetSortIndexes
<1>7. CASE ResetSort(n)
  <2>1. 0 \in 0 .. MaxIndexes
    BY BoundsAssumption, SMT
  <2>. QED
    BY <1>1, <1>7, <2>1, SortsOK DEF ResetSort
<1>. QED
  BY <1>3, <1>4, <1>5, <1>6, <1>7

---------------------------------------------------------------------------
(***************************************************************************)
(* The theorems.                                                           *)
(***************************************************************************)

(* The invariant holds in every state that DDL of the session and the      *)
(* snapshots of other clients reach: TypeOK, how the session's view is     *)
(* related to what is committed, and, while no failing set_sort has left   *)
(* the sync flag raised, the properties below.                             *)
THEOREM InvariantHolds == Spec => []Inv
<1>1. ASSUME Inv, Next PROVE Inv'
  <2>1. CASE Begin \/ Rollback \/ Query
    BY <1>1, <2>1, TransactionsOK
  <2>2. CASE Commit
    BY <1>1, <2>2, CommitOK
  <2>3. ASSUME NEW n \in LakeNames, NEW o \in Paths, NEW e \in BOOLEAN,
               CreateDucklakeTable(n, o, e)
        PROVE  Inv'
    BY <1>1, <2>3, CreateDucklakeTableOK
  <2>4. ASSUME NEW n \in LakeNames,
               \/ CreateSortedIndex(n) \/ DropSortedIndex(n)
               \/ IndexWhileSyncing(n) \/ SetSort(n) \/ ResetSort(n)
        PROVE  Inv'
    BY <1>1, <2>4, SortStatementsOK
  <2>5. ASSUME NEW n \in LakeNames,
               \/ ExternalCreate(n) \/ ExternalDrop(n) \/ ExternalReplace(n)
               \/ ExternalSort(n)
               \/ \E m \in LakeNames \ {n} : ExternalRename(n, m)
        PROVE  Inv'
    BY <1>1, <2>5, ClientsOK
  <2>6. ASSUME NEW n \in LakeNames, NEW m \in LakeNames \ {n}, RenameTable(n, m)
        PROVE  Inv'
    BY <1>1, <2>6, RenameTableOK
  <2>7. ASSUME NEW n \in Names, CreateHeapTable(n) \/ DropTable(n) PROVE Inv'
    BY <1>1, <2>7, HeapAndDropOK
  <2>8. HeapNames \subseteq Names
    BY DEF Names
  <2>. QED
    BY <1>1, <2>1, <2>2, <2>3, <2>4, <2>5, <2>6, <2>7, <2>8 DEF Next
<1>2. ASSUME Inv, UNCHANGED vars PROVE Inv'
  BY <1>2 DEF vars, Inv, TypeOK, Views, ExistInv, SortInv, PathInv, Exists
<1>. QED
  BY <1>1, <1>2, InitOK, PTL DEF Spec

(* No DuckLake table of pg_class is missing in DuckLake, with all three    *)
(* switches on or off: whatever the event triggers forward and the         *)
(* snapshot trigger brings back, commit or conflict, happens in both.      *)
THEOREM PgTablesAlwaysExist == Spec => []PgTablesExist
<1>1. Inv => PgTablesExist
  BY DEF Inv, ExistInv, Found, Exists, PgTablesExist
<1>. QED
  BY <1>1, InvariantHolds, PTL

(* Sorted tables have their ducklake_sorted index, if no client renames a  *)
(* sorted table.  A session that renames a table with stale sort keys is   *)
(* the hard case: DuckLake refuses its commit.                             *)
THEOREM SortedTablesKeepTheirIndex ==
  ASSUME ~SortedRenames
  PROVE  Spec => []SortedTablesHaveIndex
<1>1. Inv => SortedTablesHaveIndex
  BY DEF Inv, SortInv, Indexed, Exists, SortedTablesHaveIndex
<1>. QED
  BY <1>1, InvariantHolds, PTL

(* Every table lies where its CREATE asked, if table_path is not used      *)
(* together with IF NOT EXISTS: nothing else leaves a pending option       *)
(* behind for the next CREATE.                                             *)
THEOREM PathsStayAsRequested ==
  ASSUME ~PathWithIfNotExists
  PROVE  Spec => []PathsAsRequested
<1>1. Inv => PathsAsRequested
  BY DEF Inv, PathInv, Placed, Exists, PathsAsRequested
<1>. QED
  BY <1>1, InvariantHolds, PTL

===========================================================================
