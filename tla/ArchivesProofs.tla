---------------------------- MODULE ArchivesProofs ----------------------------
(***************************************************************************)
(* The archives, for every number of items, publications, failures and     *)
(* restarts and every retention count: the files of an archived row are    *)
(* in the files table, the archives are those of ArchiveStore, and what is *)
(* left over is bounded by what went wrong.                                *)
(*                                                                         *)
(* ArchivedHasFiles is not inductive: removing the files of a dropped row  *)
(* must not take a file of another.  So the rows are unique for an item    *)
(* and a revision, no two of them share a file, the row being archived     *)
(* owns its files alone, and what is being removed belongs to nobody.      *)
(***************************************************************************)
EXTENDS Archives, FiniteSetTheorems, WellFoundedInduction, TLAPS

Same(r, s) == r.item = s.item /\ r.rev = s.rev
Files(r) == {r.file, r.original} \ {0}

Unique(set) == \A r \in set, s \in set : Same(r, s) => r = s
Stocked(set) == \A r \in set : Files(r) \subseteq files
Disjoint(set) == \A r \in set, s \in set : r # s => Files(r) \cap Files(s) = {}

\* What the import adds is new and has no files.
Loading ==
    work.pc = "load" =>
        /\ kind # "extract"
        /\ \A c \in work.todo \union work.new : Files(c) = {}
        /\ \A c \in work.new : \A r \in rows : ~Same(c, r)
        /\ Unique(work.new)

\* The row at work owns its files alone.
Placing ==
    work.pc \in {"place", "original", "record"} =>
        /\ \E r \in rows : Same(r, work.row)
        /\ Files(work.row) \subseteq files
        /\ \A s \in rows : ~Same(s, work.row) => Files(s) \cap Files(work.row) = {}

\* Retention drops rows that are there and removes files nobody owns.
Dropping ==
    /\ work.pc \in {"drop", "remove"} => work.todo \subseteq rows
    /\ work.pc = "remove" => \A r \in rows : Files(r) \cap work.remove = {}

\* The number of the next extract is new.
Numbered == kind = "extract" => \A r \in rows : r.rev <= published

Tables == Unique(rows) /\ Stocked(rows) /\ Disjoint(rows) /\ Numbered
IInv == TypeOK /\ Tables /\ Loading /\ Placing /\ Dropping

-----------------------------------------------------------------------------
LEMMA Constants ==
    /\ MaxPublished \in Nat /\ MaxFailures \in Nat /\ MaxCrashes \in Nat /\ MaxChanges \in Nat
    /\ FileIds \subseteq Nat \ {0}
    /\ KeepCount # 0
BY BoundAssumption, FileAssumption, KeepAssumption

LEMMA RowIsRow ==
    ASSUME NEW i \in Items, NEW t \in {0} \union Times
    PROVE  Row(i, t) \in Rows /\ Files(Row(i, t)) = {} /\ Row(i, t).item = i /\ Row(i, t).rev = t
BY DEF Row, Rows, Files

LEMMA IdleIsIdle ==
    /\ Idle \in Works
    /\ Idle.pc = "idle" /\ Idle.row \in Rows /\ Idle.new = {} /\ Idle.todo = {}
<1>1. (CHOOSE i \in Items : TRUE) \in Items
    BY ItemAssumption
<1>2. Row(CHOOSE i \in Items : TRUE, 0) \in Rows
    BY <1>1, RowIsRow
<1> QED
    BY <1>2 DEF Idle, Works

\* A free id is one that nobody has.
LEMMA FreeIdIsFree ==
    ASSUME HasFreeId
    PROVE  FreeId \in FileIds /\ FreeId \notin files \union Owned \union InHand
BY DEF HasFreeId, FreeId

LEMMA OwnedFiles ==
    ASSUME NEW r \in rows
    PROVE  Files(r) \subseteq Owned
BY DEF Files, Owned

LEMMA StoredIsStored ==
    ASSUME NEW c, \E r \in rows : Same(r, c)
    PROVE  Stored(c) \in rows /\ Same(Stored(c), c)
BY DEF Stored, Same

LEMMA InitIInv == Init => IInv
<1> SUFFICES ASSUME Init PROVE IInv
    OBVIOUS
<1>1. TypeOK
    BY IdleIsIdle, Constants DEF Init, TypeOK
<1> QED
    BY <1>1, IdleIsIdle
    DEF Init, IInv, Tables, Unique, Stocked, Disjoint, Numbered, Loading, Placing, Dropping

-----------------------------------------------------------------------------
\* Steps that leave the command idle and add no row and take no file.
LEMMA BackToIdle ==
    ASSUME IInv, work' = Idle, kind' = kind, files' = files, rows' \subseteq rows,
           published' = published, tableau' = tableau, known' = known,
           retain' \in {0, KeepCount}, failures' \in Nat, crashes' \in Nat, changes' \in Nat
    PROVE  IInv'
<1>1. TypeOK'
    BY IdleIsIdle DEF IInv, TypeOK, Works
<1>2. Tables'
    BY DEF IInv, Tables, Unique, Stocked, Disjoint, Numbered
<1> QED
    BY <1>1, <1>2, IdleIsIdle DEF IInv, Loading, Placing, Dropping

LEMMA TableauKeepsIInv ==
    ASSUME IInv, NEW i \in Items, Publish(i) \/ Unpublish(i) \/ SetRetain
    PROVE  IInv'
<1>1. work' = work /\ rows' = rows /\ files' = files /\ kind' = kind /\ known' = known
      /\ failures' = failures /\ crashes' = crashes
    BY DEF Publish, Unpublish, SetRetain
<1>2. published' \in {0} \union Times /\ changes' \in Nat /\ retain' \in {0, KeepCount}
      /\ tableau' \in [Items -> {0} \union Times]
    BY Constants DEF IInv, TypeOK, Works, Times, Publish, Unpublish, SetRetain
<1>3. kind = "extract" => published' = published
    BY DEF Publish, Unpublish, SetRetain
<1>4. TypeOK'
    BY <1>1, <1>2 DEF IInv, TypeOK, Works
<1> QED
    BY <1>1, <1>3, <1>4
    DEF IInv, Tables, Unique, Stocked, Disjoint, Numbered, Loading, Placing, Dropping

LEMMA AddExtractKeepsIInv ==
    ASSUME IInv, NEW i \in Items, AddExtract(i)
    PROVE  IInv'
<1> DEFINE new == Row(i, published')
<1>1. published' \in Times /\ published' > published /\ published \in Nat
    BY Constants DEF IInv, TypeOK, Works, Times, AddExtract
<1>2. new \in Rows /\ Files(new) = {} /\ new.item = i /\ new.rev = published'
    BY <1>1, RowIsRow
<1>3. rows' \subseteq rows \union {new} /\ rows \subseteq rows'
    BY DEF AddExtract
<1>4. \A r \in rows : r.rev \in Nat /\ r.rev <= published /\ ~Same(r, new) /\ ~Same(new, r)
    BY <1>1, <1>2 DEF IInv, TypeOK, Works, Tables, Numbered, AddExtract, Rows, Times, Same
<1> HIDE DEF new
<1>5. TypeOK'
    BY <1>1, <1>2, <1>3 DEF IInv, TypeOK, Works, AddExtract
<1>6. Unique(rows')
    BY <1>3, <1>4 DEF IInv, Tables, Unique
<1>7. Stocked(rows)' /\ Disjoint(rows')
    BY <1>2, <1>3 DEF IInv, Tables, Stocked, Disjoint, AddExtract
<1>8. Numbered'
  <2> SUFFICES ASSUME NEW r \in rows' PROVE r.rev <= published'
      BY DEF Numbered
  <2>1. CASE r = new
      BY <1>1, <1>2, <2>1 DEF Times
  <2>2. CASE r \in rows
      BY <1>1, <1>4, <2>2 DEF Times
  <2> QED
      BY <1>3, <2>1, <2>2
<1>9. Loading' /\ Placing' /\ Dropping'
    BY <1>2, <1>3 DEF IInv, Loading, Placing, Dropping, AddExtract
<1> QED
    BY <1>5, <1>6, <1>7, <1>8, <1>9 DEF IInv, Tables

-----------------------------------------------------------------------------
LEMMA ImportKeepsIInv ==
    ASSUME IInv, ImportWorkbooks \/ ImportDataSources
    PROVE  IInv'
<1>1. PICK set : set \subseteq Items /\ Import(set) /\ kind # "extract"
    BY DEF ImportWorkbooks, ImportDataSources
<1> DEFINE todo == {Row(i, tableau[i]) : i \in {j \in set : tableau[j] > Cursor}}
<1>2. \A c \in todo : c \in Rows /\ Files(c) = {}
  <2> SUFFICES ASSUME NEW c \in todo PROVE c \in Rows /\ Files(c) = {}
      OBVIOUS
  <2>1. PICK i \in Items : c = Row(i, tableau[i])
      BY <1>1
  <2>2. tableau[i] \in {0} \union Times
      BY DEF IInv, TypeOK
  <2> QED
      BY <2>1, <2>2, RowIsRow
<1> HIDE DEF todo
<1>3. work' = [Idle EXCEPT !.pc = "load", !.todo = todo]
    BY <1>1 DEF Import, todo
<1>4. work'.pc = "load" /\ work'.todo = todo /\ work'.new = {}
    BY <1>3, IdleIsIdle
<1>5. rows' = rows /\ files' = files /\ kind' = kind /\ published' = published
    BY <1>1 DEF Import
<1>6. TypeOK'
    BY <1>1, <1>2, <1>3, IdleIsIdle DEF IInv, TypeOK, Works, Import
<1>7. Loading' /\ Placing' /\ Dropping'
    BY <1>1, <1>2, <1>4, <1>5 DEF Loading, Placing, Dropping, Unique
<1> QED
    BY <1>5, <1>6, <1>7 DEF IInv, Tables, Unique, Stocked, Disjoint, Numbered

\* Rows without files and with keys of their own may join the table.
LEMMA Joining ==
    ASSUME IInv, work.pc = "load", NEW set, set = rows \union work.new
    PROVE  Unique(set) /\ Stocked(set) /\ Disjoint(set)
<1>1. /\ \A c \in work.new : Files(c) = {} /\ \A r \in rows : ~Same(c, r)
      /\ Unique(work.new)
    BY DEF IInv, Loading
<1>2. Unique(rows) /\ Stocked(rows) /\ Disjoint(rows)
    BY DEF IInv, Tables
<1>3. \A c \in work.new, r \in rows : ~Same(r, c)
    BY <1>1 DEF Same
<1>4. Unique(set)
    BY <1>1, <1>2, <1>3 DEF Unique
<1>5. Stocked(set)
    BY <1>1, <1>2 DEF Stocked
<1>6. Disjoint(set)
    BY <1>1, <1>2 DEF Disjoint
<1> QED
    BY <1>4, <1>5, <1>6

LEMMA LoadRowKeepsIInv ==
    ASSUME IInv, LoadRow
    PROVE  IInv'
<1>1. PICK c \in work.todo :
         /\ known' = [known EXCEPT ![c.item] = c.rev]
         /\ rows' = rows \union work.new
         /\ LET new == IF \E r \in rows' : r.item = c.item /\ r.rev = c.rev THEN {} ELSE {c}
            IN  work' = [work EXCEPT !.todo = @ \ {c}, !.new = new, !.updates = @ \union new]
    BY DEF LoadRow
<1> DEFINE new == IF \E r \in rows' : r.item = c.item /\ r.rev = c.rev THEN {} ELSE {c}
<1>2. new \subseteq {c} /\ \A d \in new : \A r \in rows' : ~Same(d, r)
    BY DEF Same
<1>3. work' = [work EXCEPT !.todo = @ \ {c}, !.new = new, !.updates = @ \union new]
    BY <1>1
<1> HIDE DEF new
<1>4. work.pc = "load" /\ kind' = kind /\ kind # "extract" /\ files' = files /\ published' = published
    BY DEF LoadRow, IInv, Loading
<1>5. c \in Rows /\ c.item \in Items /\ c.rev \in {0} \union Times
      /\ work.new \subseteq Rows /\ work.todo \subseteq Rows /\ work.updates \subseteq Rows
    BY DEF IInv, TypeOK, Works, Rows
<1>6. work'.pc = "load" /\ work'.todo = work.todo \ {c} /\ work'.new = new
    BY <1>3, <1>4 DEF IInv, TypeOK, Works
<1>7. TypeOK'
  <2>1. work' \in Works
      BY <1>2, <1>3, <1>5 DEF IInv, TypeOK, Works
  <2>2. known' \in [Items -> {0} \union Times]
      BY <1>1, <1>5 DEF IInv, TypeOK, Works
  <2>3. rows' \subseteq Rows
      BY <1>1, <1>5 DEF IInv, TypeOK, Works
  <2> QED
      BY <2>1, <2>2, <2>3 DEF IInv, TypeOK, Works, LoadRow
<1>8. Tables'
    BY <1>1, <1>4, Joining DEF Tables, Stocked, Numbered
<1>9. Loading'
  <2>1. \A d \in work.todo \union work.new : Files(d) = {}
      BY <1>4 DEF IInv, Loading
  <2>2. Unique(new)
      BY <1>2 DEF Unique
  <2> QED
      BY <1>2, <1>4, <1>6, <2>1, <2>2 DEF Loading
<1> QED
    BY <1>6, <1>7, <1>8, <1>9 DEF IInv, Placing, Dropping

LEMMA LoadDoneKeepsIInv ==
    ASSUME IInv, LoadDone
    PROVE  IInv'
<1> DEFINE all == rows \union work.new
<1>1. work.pc = "load" /\ kind' = kind /\ kind # "extract" /\ files' = files
      /\ published' = published /\ rows' \subseteq all
    BY DEF LoadDone, IInv, Loading
<1>2. Unique(all) /\ Stocked(all) /\ Disjoint(all) /\ all \subseteq Rows
    BY <1>1, Joining DEF IInv, TypeOK, Works
<1> HIDE DEF all
<1>3. Tables'
    BY <1>1, <1>2 DEF Tables, Unique, Stocked, Disjoint, Numbered
<1>4. work' = Idle \/ work' = [work EXCEPT !.pc = "each", !.todo = work.updates, !.new = {}]
    BY DEF LoadDone
<1>5. work'.pc \in {"idle", "each"}
    BY <1>4, IdleIsIdle DEF IInv, TypeOK, Works
<1>6. TypeOK'
  <2>1. work' \in Works
      BY <1>4, IdleIsIdle DEF IInv, TypeOK, Works
  <2>2. failures' \in Nat
      BY DEF LoadDone, IInv, TypeOK, Works
  <2> QED
      BY <1>1, <1>2, <2>1, <2>2 DEF IInv, TypeOK, Works, LoadDone
<1> QED
    BY <1>3, <1>5, <1>6 DEF IInv, Loading, Placing, Dropping

LEMMA BeginKeepsIInv ==
    ASSUME IInv, Fixup \/ Refresh \/ Query
    PROVE  IInv'
<1>1. PICK todo, pc : /\ todo \subseteq Rows /\ pc \in {"query", "each"}
                      /\ work' = [Idle EXCEPT !.pc = pc, !.todo = todo]
  <2>1. CASE Fixup
      BY <2>1 DEF Fixup, Unarchived, IInv, TypeOK
  <2>2. CASE Refresh
      <3>1. [Idle EXCEPT !.pc = "query"] = [Idle EXCEPT !.pc = "query", !.todo = {}]
          BY IdleIsIdle DEF Works
      <3> QED
          BY <2>2, <3>1 DEF Refresh
  <2>3. CASE Query
      BY <2>3 DEF Query, Unarchived, IInv, TypeOK
  <2> QED
      BY <2>1, <2>2, <2>3
<1>2. work'.pc \in {"query", "each"} /\ work' \in Works
    BY <1>1, IdleIsIdle DEF Works
<1>3. rows' \subseteq rows /\ files' = files /\ kind' = kind /\ published' = published
    BY DEF Fixup, Refresh, Query
<1>4. TypeOK'
    BY <1>2, <1>3 DEF IInv, TypeOK, Fixup, Refresh, Query
<1>5. Tables'
    BY <1>3 DEF IInv, Tables, Unique, Stocked, Disjoint, Numbered
<1> QED
    BY <1>2, <1>4, <1>5 DEF IInv, Loading, Placing, Dropping

LEMMA EndLoopKeepsIInv ==
    ASSUME IInv, EndLoop
    PROVE  IInv'
<1>1. rows' = rows /\ files' = files /\ kind' = kind /\ published' = published
      /\ failures' \in Nat /\ work' = Retention
    BY DEF EndLoop, IInv, TypeOK
<1>2. CASE work' = Idle
    BY <1>1, <1>2, BackToIdle DEF EndLoop, IInv, TypeOK
<1>3. CASE work' = [Idle EXCEPT !.pc = "drop", !.keep = retain, !.todo = Excess(retain)]
  <2>1. Excess(retain) \subseteq rows
      BY DEF Excess, Archived
  <2>2. work' \in Works /\ work'.pc = "drop" /\ work'.todo \subseteq rows
      BY <1>3, <2>1, IdleIsIdle DEF Works, IInv, TypeOK
  <2>3. TypeOK'
      BY <1>1, <2>2 DEF IInv, TypeOK, EndLoop
  <2>4. Tables'
      BY <1>1 DEF IInv, Tables, Unique, Stocked, Disjoint, Numbered
  <2> QED
      BY <1>1, <2>2, <2>3, <2>4 DEF IInv, Loading, Placing, Dropping
<1> QED
    BY <1>1, <1>2, <1>3 DEF Retention

LEMMA ArchiveKeepsIInv ==
    ASSUME IInv, Archive
    PROVE  IInv'
<1>1. work.pc = "each" /\ kind' = kind /\ files' = files /\ published' = published
      /\ tableau' = tableau /\ known' = known /\ crashes' = crashes /\ changes' = changes
    BY DEF Archive
<1>2. PICK c \in work.todo : /\ Refreshed(c)
                             /\ Got(c) \/ Fails(c, 0) \/ Fails(c, 1) \/ NotFound(c, 0)
                                \/ NotFound(c, 1) \/ Denied
    BY DEF Archive, FetchWorkbook, FetchDataSource, FetchExtract
<1>3. Stored(c) \in rows /\ Same(Stored(c), c)
    BY <1>2, StoredIsStored DEF Refreshed, Same
<1>4. CASE Got(c)
  <2>1. work' = [work EXCEPT !.pc = "place", !.todo = @ \ {c}, !.row = Stored(c)]
        /\ rows' = rows /\ retain' = retain /\ failures' = failures
      BY <1>4 DEF Got
  <2>2. work' \in Works /\ work'.pc = "place" /\ work'.row = Stored(c)
      BY <1>3, <2>1 DEF Works, IInv, TypeOK
  <2>3. TypeOK'
      BY <1>1, <2>1, <2>2 DEF IInv, TypeOK
  <2>4. Tables'
      BY <1>1, <2>1 DEF IInv, Tables, Unique, Stocked, Disjoint, Numbered
  <2>5. /\ \E r \in rows : Same(r, Stored(c))
        /\ Files(Stored(c)) \subseteq files
        /\ \A s \in rows : ~Same(s, Stored(c)) => Files(s) \cap Files(Stored(c)) = {}
      BY <1>3 DEF IInv, Tables, Stocked, Disjoint, Same
  <2>6. Placing'
      BY <1>1, <2>1, <2>2, <2>5 DEF Placing
  <2> QED
      BY <2>2, <2>3, <2>4, <2>6 DEF IInv, Loading, Dropping
<1>5. CASE Fails(c, 0) \/ Fails(c, 1) \/ NotFound(c, 0) \/ NotFound(c, 1)
  <2>1. PICK n \in {0, 1} : work' = [work EXCEPT !.todo = @ \ {c}, !.count = @ + n]
      BY <1>5 DEF Fails, NotFound
  <2>2. rows' \subseteq rows /\ retain' = retain /\ failures' \in Nat
      BY <1>5 DEF Fails, NotFound, IInv, TypeOK
  <2>3. work' \in Works /\ work'.pc = "each"
    <3>1. work.count + n \in Nat /\ work \in Works
        BY DEF IInv, TypeOK, Works
    <3>2. work.todo \ {c} \subseteq Rows
        BY <3>1 DEF Works
    <3> QED
        BY <1>1, <2>1, <3>1, <3>2 DEF Works
  <2>4. TypeOK'
      BY <1>1, <2>2, <2>3 DEF IInv, TypeOK
  <2>5. Tables'
      BY <1>1, <2>2 DEF IInv, Tables, Unique, Stocked, Disjoint, Numbered
  <2> QED
      BY <2>3, <2>4, <2>5 DEF IInv, Loading, Placing, Dropping
<1>6. CASE Denied
    BY <1>1, <1>6, BackToIdle DEF Denied, IInv, TypeOK
<1> QED
    BY <1>2, <1>4, <1>5, <1>6

-----------------------------------------------------------------------------
\* The id of the new file is nobody's.
LEMMA NewFile ==
    ASSUME IInv, HasFreeId
    PROVE  /\ FreeId \in FileIds /\ FreeId # 0
           /\ \A r \in rows : FreeId \notin Files(r)
<1>1. FreeId \in FileIds /\ FreeId \notin Owned
    BY FreeIdIsFree
<1> QED
    BY <1>1, OwnedFiles, Constants

LEMMA PlaceKeepsIInv ==
    ASSUME IInv, Place
    PROVE  IInv'
<1>1. /\ work.pc = "place" /\ files' = files \union {FreeId} /\ rows' = rows
      /\ kind' = kind /\ published' = published
    BY DEF Place
<1>2. PICK next \in {"original", "record"} :
         work' = [work EXCEPT !.pc = next, !.row.file = FreeId]
    BY DEF Place
<1>3. FreeId \in FileIds /\ FreeId # 0 /\ \A r \in rows : FreeId \notin Files(r)
    BY NewFile DEF Place
<1>4. /\ work' \in Works /\ work'.pc = next /\ work'.row \in Rows
      /\ work'.row.item = work.row.item /\ work'.row.rev = work.row.rev
      /\ work'.row.file = FreeId /\ work'.row.original = work.row.original
    BY <1>2, <1>3 DEF Works, Rows, IInv, TypeOK
<1>5. TypeOK'
    BY <1>1, <1>3, <1>4 DEF IInv, TypeOK, Place
<1>6. Tables'
    BY <1>1 DEF IInv, Tables, Unique, Stocked, Disjoint, Numbered
<1>7. /\ \E r \in rows : Same(r, work.row)
      /\ Files(work.row) \subseteq files
      /\ \A s \in rows : ~Same(s, work.row) => Files(s) \cap Files(work.row) = {}
    BY <1>1 DEF IInv, Placing
<1>8. Files(work'.row) \subseteq Files(work.row) \union {FreeId}
    BY <1>4 DEF Files
<1>9. /\ \E r \in rows : Same(r, work'.row)
      /\ \A s \in rows : ~Same(s, work'.row) => Files(s) \cap Files(work'.row) = {}
  <2>1. \A s \in rows : Same(s, work'.row) <=> Same(s, work.row)
      BY <1>4 DEF Same
  <2> QED
      BY <1>3, <1>7, <1>8, <2>1
<1>10. Placing'
    BY <1>1, <1>7, <1>8, <1>9 DEF Placing
<1> QED
    BY <1>4, <1>5, <1>6, <1>10 DEF IInv, Loading, Dropping

\* Writing the row at work back keeps the tables.
LEMMA Writing ==
    ASSUME IInv, work.pc \in {"original", "record"}, kind' = kind, published' = published,
           NEW row, row \in Rows, Same(row, work.row), Files(row) = Files(work.row),
           Put(row), files \subseteq files'
    PROVE  /\ Tables' /\ rows' \subseteq Rows
           /\ \A s \in rows' : s = row \/ (s \in rows /\ ~Same(s, row))
           /\ row \in rows'
<1>1. /\ \E r \in rows : Same(r, work.row)
      /\ Files(row) \subseteq files
      /\ \A s \in rows : ~Same(s, work.row) => Files(s) \cap Files(row) = {}
    BY DEF IInv, Placing
<1>2. \A s \in rows : Same(s, row) <=> Same(s, work.row)
    BY DEF Same
<1>3. Stored(row) \in rows /\ Same(Stored(row), row)
    BY <1>1, <1>2, StoredIsStored
<1>4. \A s \in rows : Same(s, row) => s = Stored(row)
    BY <1>3 DEF IInv, Tables, Unique, Same
<1>5. \A s \in rows' : s = row \/ (s \in rows /\ ~Same(s, row))
    BY <1>4 DEF Put
<1>6. \A s \in rows : Same(row, s) => Same(s, row)
    BY DEF Same
<1>7. Unique(rows')
    BY <1>5, <1>6 DEF IInv, Tables, Unique
<1>8. Stocked(rows)'
    BY <1>1, <1>5 DEF IInv, Tables, Stocked
<1>9. Disjoint(rows')
  <2>1. \A s \in rows : ~Same(s, row) => Files(s) \cap Files(row) = {}
      BY <1>1, <1>2
  <2> QED
      BY <1>5, <2>1 DEF IInv, Tables, Disjoint
<1>10. Numbered'
    BY <1>3, <1>5 DEF IInv, Tables, Numbered, Same
<1>11. rows' \subseteq Rows
    BY <1>5 DEF IInv, TypeOK
<1> QED
    BY <1>5, <1>7, <1>8, <1>9, <1>10, <1>11 DEF Tables, Put

LEMMA PlaceOriginalKeepsIInv ==
    ASSUME IInv, PlaceOriginal
    PROVE  IInv'
<1>1. /\ work.pc = "original" /\ files' = files \union {FreeId} /\ Put(work.row)
      /\ kind' = kind /\ published' = published
      /\ work' = [work EXCEPT !.pc = "record", !.row.original = FreeId]
    BY DEF PlaceOriginal
<1>2. FreeId \in FileIds /\ FreeId # 0 /\ \A r \in rows : FreeId \notin Files(r)
    BY NewFile DEF PlaceOriginal
<1>3. work.row \in Rows /\ Same(work.row, work.row)
    BY DEF IInv, TypeOK, Works, Same
<1>4. /\ Tables' /\ rows' \subseteq Rows
      /\ \A s \in rows' : s = work.row \/ (s \in rows /\ ~Same(s, work.row))
      /\ work.row \in rows'
    BY <1>1, <1>3, Writing
<1>5. /\ work' \in Works /\ work'.pc = "record" /\ work'.row \in Rows
      /\ work'.row.item = work.row.item /\ work'.row.rev = work.row.rev
      /\ work'.row.file = work.row.file /\ work'.row.original = FreeId
    BY <1>1, <1>2 DEF Works, Rows, IInv, TypeOK
<1>6. TypeOK'
    BY <1>1, <1>2, <1>4, <1>5 DEF IInv, TypeOK, PlaceOriginal
<1>7. /\ Files(work.row) \subseteq files
      /\ \A s \in rows : ~Same(s, work.row) => Files(s) \cap Files(work.row) = {}
    BY <1>1 DEF IInv, Placing
<1>8. Files(work'.row) \subseteq Files(work.row) \union {FreeId}
    BY <1>5 DEF Files
<1>9. \A s \in rows' : Same(s, work'.row) <=> Same(s, work.row)
    BY <1>5 DEF Same
<1>10. /\ \E r \in rows' : Same(r, work'.row)
       /\ \A s \in rows' : ~Same(s, work'.row) => Files(s) \cap Files(work'.row) = {}
    BY <1>2, <1>3, <1>4, <1>7, <1>8, <1>9
<1>11. Placing'
    BY <1>1, <1>7, <1>8, <1>10 DEF Placing
<1> QED
    BY <1>4, <1>5, <1>6, <1>11 DEF IInv, Loading, Dropping

LEMMA RecordKeepsIInv ==
    ASSUME IInv, Record
    PROVE  IInv'
<1> DEFINE row == [work.row EXCEPT !.done = TRUE]
<1>1. /\ work.pc = "record" /\ files' = files /\ Put(row)
      /\ kind' = kind /\ published' = published
      /\ work' = [work EXCEPT !.pc = "each", !.row = Idle.row, !.count = @ + 1]
    BY DEF Record
<1>2. row \in Rows /\ Same(row, work.row) /\ Files(row) = Files(work.row)
    BY DEF IInv, TypeOK, Works, Rows, Same, Files
<1> HIDE DEF row
<1>3. Tables' /\ rows' \subseteq Rows
    BY <1>1, <1>2, Writing
<1>4. work' \in Works /\ work'.pc = "each"
  <2>1. work.count + 1 \in Nat /\ work \in Works
      BY DEF IInv, TypeOK, Works
  <2> QED
      BY <1>1, <2>1, IdleIsIdle DEF Works
<1>5. TypeOK'
    BY <1>1, <1>3, <1>4 DEF IInv, TypeOK, Record
<1> QED
    BY <1>3, <1>4, <1>5 DEF IInv, Loading, Placing, Dropping

-----------------------------------------------------------------------------
LEMMA DropKeepsIInv ==
    ASSUME IInv, Drop
    PROVE  IInv'
<1>1. PICK r \in work.todo :
         /\ rows' = rows \ {r}
         /\ work' = [work EXCEPT !.pc = "remove", !.todo = @ \ {r},
                                 !.remove = {r.file, r.original} \ {0}]
    BY DEF Drop
<1>2. /\ work.pc = "drop" /\ files' = files /\ kind' = kind /\ published' = published
      /\ work.todo \subseteq rows /\ r \in Rows
    BY DEF Drop, IInv, Dropping, TypeOK
<1>3. /\ work' \in Works /\ work'.pc = "remove" /\ work'.todo = work.todo \ {r}
      /\ work'.remove = Files(r)
    BY <1>1, <1>2 DEF Works, Rows, Files, IInv, TypeOK
<1>4. TypeOK'
    BY <1>1, <1>3 DEF IInv, TypeOK, Drop
<1>5. Tables'
    BY <1>1, <1>2 DEF IInv, Tables, Unique, Stocked, Disjoint, Numbered
<1>6. \A s \in rows' : Files(s) \cap Files(r) = {}
    BY <1>1, <1>2 DEF IInv, Tables, Disjoint
<1>7. Dropping'
    BY <1>1, <1>2, <1>3, <1>6 DEF Dropping
<1> QED
    BY <1>3, <1>4, <1>5, <1>7 DEF IInv, Loading, Placing

LEMMA RemoveFileKeepsIInv ==
    ASSUME IInv, RemoveFile
    PROVE  IInv'
<1>1. PICK f \in work.remove :
         /\ work' = [work EXCEPT !.remove = @ \ {f},
                                 !.pc = IF work.remove = {f} THEN "drop" ELSE "remove"]
         /\ files' = files \ {f} \/ files' = files
         /\ failures' \in Nat
  <2>1. failures \in Nat /\ failures + 1 \in Nat
      BY DEF IInv, TypeOK
  <2>2. PICK f \in work.remove :
           /\ work' = [work EXCEPT !.remove = @ \ {f},
                                   !.pc = IF work.remove = {f} THEN "drop" ELSE "remove"]
           /\ \/ files' = files \ {f} /\ failures' = failures
              \/ failures' = failures + 1 /\ files' = files
      BY DEF RemoveFile
  <2> QED
      BY <2>1, <2>2
<1>2. /\ work.pc = "remove" /\ rows' = rows /\ kind' = kind /\ published' = published
      /\ work.todo \subseteq rows /\ \A r \in rows : Files(r) \cap work.remove = {}
    BY DEF RemoveFile, IInv, Dropping
<1>3. /\ work' \in Works /\ work'.pc \in {"drop", "remove"} /\ work'.todo = work.todo
      /\ work'.remove \subseteq work.remove
    BY <1>1 DEF Works, IInv, TypeOK
<1>4. TypeOK'
    BY <1>1, <1>2, <1>3 DEF IInv, TypeOK, RemoveFile
<1>5. Tables'
    BY <1>1, <1>2 DEF IInv, Tables, Unique, Stocked, Disjoint, Numbered
<1> QED
    BY <1>2, <1>3, <1>4, <1>5 DEF IInv, Loading, Placing, Dropping

LEMMA EndsKeepIInv ==
    ASSUME IInv, EndRetention \/ Crash
    PROVE  IInv'
BY BackToIdle DEF EndRetention, Crash, IInv, TypeOK

LEMMA NextKeepsIInv == IInv /\ [Next]_vars => IInv'
<1> SUFFICES ASSUME IInv, [Next]_vars PROVE IInv'
    OBVIOUS
<1>1. ASSUME NEW i \in Items, Publish(i) \/ Unpublish(i) PROVE IInv'
    BY <1>1, TableauKeepsIInv
<1>2. ASSUME NEW i \in Items, AddExtract(i) PROVE IInv'
    BY <1>2, AddExtractKeepsIInv
<1>3. CASE SetRetain
    BY <1>3, TableauKeepsIInv, ItemAssumption
<1>4. CASE ImportWorkbooks \/ ImportDataSources
    BY <1>4, ImportKeepsIInv
<1>5. CASE Fixup \/ Refresh \/ Query
    BY <1>5, BeginKeepsIInv
<1>6. CASE Step /\ ~ Query
    BY <1>6, LoadRowKeepsIInv, LoadDoneKeepsIInv, EndLoopKeepsIInv, ArchiveKeepsIInv,
       PlaceKeepsIInv, PlaceOriginalKeepsIInv, RecordKeepsIInv, DropKeepsIInv,
       RemoveFileKeepsIInv, EndsKeepIInv DEF Step
<1>7. CASE Crash
    BY <1>7, EndsKeepIInv
<1>8. CASE Disabled \/ UNCHANGED vars
  <2>1. UNCHANGED vars
      BY <1>8 DEF Disabled
  <2> QED
      BY <2>1 DEF vars, IInv, TypeOK, Tables, Unique, Stocked, Disjoint, Numbered,
                  Loading, Placing, Dropping
<1> QED
    BY <1>1, <1>2, <1>3, <1>4, <1>5, <1>6, <1>7, <1>8 DEF Next

LEMMA Invariance == Spec => []IInv
BY InitIInv, NextKeepsIInv, PTL DEF Spec

\* Every archive the tables show can be downloaded: the commits of the archive
\* row and of its files (workbooks.py _archive_twb, _retain_some) are in an
\* order that no crash, no failure and no later retention can tear apart.
THEOREM ArchivesHaveFiles == Spec => []ArchivedHasFiles
<1>1. IInv => ArchivedHasFiles
    BY DEF IInv, Tables, Stocked, Files, ArchivedHasFiles, Archived
<1> QED
    BY <1>1, Invariance, PTL

\* The tables and the command at work keep their types: no file id 0 is ever
\* removed, the retention is the one the user set or none.
THEOREM TypesCorrect == Spec => []TypeOK
<1>1. IInv => TypeOK
    BY DEF IInv
<1> QED
    BY <1>1, Invariance, PTL

-----------------------------------------------------------------------------
(***************************************************************************)
(* What the other properties need besides: the rows a command has still to *)
(* do, and the one at work, are not archived in the meantime by anybody.   *)
(***************************************************************************)
AtWork == {"place", "original", "record"}
Busy == {"each"} \union AtWork
Retaining == {"drop", "remove"}

Awaiting ==
    /\ \A r \in rows : ~r.done => r.original = 0
    /\ work.pc = "load" =>
          /\ work.updates \subseteq rows \union work.new
          /\ \A c \in work.todo \union work.updates \union work.new : ~c.done /\ c.original = 0
    /\ work.pc \in Busy =>
          /\ Unique(work.todo)
          /\ \A c \in work.todo, r \in rows : Same(r, c) => ~r.done
    /\ work.pc \in AtWork =>
          /\ ~work.row.done
          /\ work.pc # "record" => work.row.original = 0
          /\ \A c \in work.todo : ~Same(c, work.row)
          /\ \A r \in rows : Same(r, work.row) => ~r.done
    /\ work.pc \notin AtWork => Files(work.row) = {}
    /\ IF work.pc = "remove" THEN \E r \in Rows : work.remove \subseteq Files(r)
                             ELSE work.remove = {}

LEMMA IdleHasNothing ==
    /\ Files(Idle.row) = {} /\ Idle.remove = {} /\ Idle.updates = {}
    /\ Idle.count = 0 /\ Idle.keep = 0
<1>1. (CHOOSE i \in Items : TRUE) \in Items
    BY ItemAssumption
<1>2. Files(Row(CHOOSE i \in Items : TRUE, 0)) = {}
    BY <1>1, RowIsRow
<1> QED
    BY <1>2 DEF Idle

LEMMA RowIsNew ==
    ASSUME NEW i, NEW t
    PROVE  ~Row(i, t).done /\ Row(i, t).original = 0
BY DEF Row

LEMMA IdleAwaits ==
    ASSUME work' = Idle, \A r \in rows' : ~r.done => r.original = 0
    PROVE  Awaiting'
BY IdleIsIdle, IdleHasNothing DEF Awaiting, Busy, AtWork

LEMMA InitAwaiting == Init => Awaiting
BY IdleIsIdle, IdleHasNothing DEF Init, Awaiting, Busy, AtWork

\* The import.
LEMMA ImportAwaits ==
    ASSUME IInv, Awaiting, ImportWorkbooks \/ ImportDataSources
    PROVE  Awaiting'
<1>1. PICK set : Import(set)
    BY DEF ImportWorkbooks, ImportDataSources
<1> DEFINE todo == {Row(i, tableau[i]) : i \in {j \in set : tableau[j] > Cursor}}
<1>2. \A c \in todo : ~c.done /\ c.original = 0
    BY RowIsNew
<1> HIDE DEF todo
<1>3. work' = [Idle EXCEPT !.pc = "load", !.todo = todo] /\ rows' = rows
    BY <1>1 DEF Import, todo
<1>4. /\ work'.pc = "load" /\ work'.todo = todo /\ work'.new = {} /\ work'.updates = {}
      /\ work'.row = Idle.row /\ work'.remove = {}
    BY <1>3, IdleIsIdle, IdleHasNothing DEF Works
<1> QED
    BY <1>2, <1>3, <1>4, IdleHasNothing DEF Awaiting, Busy, AtWork

LEMMA LoadRowAwaits ==
    ASSUME IInv, Awaiting, LoadRow
    PROVE  Awaiting'
<1>1. PICK c \in work.todo :
         /\ rows' = rows \union work.new
         /\ LET new == IF \E r \in rows' : r.item = c.item /\ r.rev = c.rev THEN {} ELSE {c}
            IN  work' = [work EXCEPT !.todo = @ \ {c}, !.new = new, !.updates = @ \union new]
    BY DEF LoadRow
<1> DEFINE new == IF \E r \in rows' : r.item = c.item /\ r.rev = c.rev THEN {} ELSE {c}
<1>2. new \subseteq {c}
    OBVIOUS
<1>3. work' = [work EXCEPT !.todo = @ \ {c}, !.new = new, !.updates = @ \union new]
    BY <1>1
<1> HIDE DEF new
<1>4. /\ work.pc = "load" /\ work'.pc = "load" /\ work'.todo = work.todo \ {c} /\ work'.new = new
      /\ work'.updates = work.updates \union new /\ work'.row = work.row
      /\ work'.remove = work.remove
    BY <1>3 DEF LoadRow, IInv, TypeOK, Works
<1> QED
    BY <1>1, <1>2, <1>4 DEF Awaiting, Busy, AtWork

LEMMA LoadDoneAwaits ==
    ASSUME IInv, Awaiting, LoadDone
    PROVE  Awaiting'
<1> DEFINE all == rows \union work.new
<1>1. rows' \subseteq all /\ work.pc = "load"
    BY DEF LoadDone, Missed
<1>2. \A r \in all : ~r.done => r.original = 0
    BY <1>1 DEF Awaiting
<1>3. Unique(all)
    BY <1>1, Joining DEF IInv
<1>4. work.updates \subseteq all /\ \A c \in work.updates : ~c.done
    BY <1>1 DEF Awaiting
<1> HIDE DEF all
<1>5. CASE work' = Idle
    BY <1>1, <1>2, <1>5, IdleAwaits
<1>6. CASE work' = [work EXCEPT !.pc = "each", !.todo = work.updates, !.new = {}]
    <2>1. /\ work'.pc = "each" /\ work'.todo = work.updates /\ work'.row = work.row
          /\ work'.remove = work.remove
        BY <1>6 DEF IInv, TypeOK, Works
    <2>2. Unique(work.updates) /\ \A c \in work.updates, r \in rows' : Same(r, c) => ~r.done
        BY <1>1, <1>3, <1>4 DEF Unique, Same
    <2>3. Files(work.row) = {} /\ work.remove = {}
        BY <1>1 DEF Awaiting, AtWork
    <2> QED
        BY <1>1, <1>2, <2>1, <2>2, <2>3 DEF Awaiting, Busy, AtWork
<1> QED
    BY <1>5, <1>6 DEF LoadDone

\* Fixup and the archives of extracts.
LEMMA BeginAwaits ==
    ASSUME IInv, Awaiting, Fixup \/ Refresh \/ Query
    PROVE  Awaiting'
<1>1. PICK todo \in SUBSET rows, pc \in {"query", "each"} :
         /\ \A c \in todo : ~c.done
         /\ work' = [Idle EXCEPT !.pc = pc, !.todo = todo]
    <2>1. CASE Fixup \/ Query
        BY <2>1 DEF Fixup, Query, Unarchived
    <2>2. CASE Refresh
        <3>1. [Idle EXCEPT !.pc = "query"] = [Idle EXCEPT !.pc = "query", !.todo = {}]
            BY IdleIsIdle DEF Works
        <3> QED
            BY <2>2, <3>1 DEF Refresh
    <2> QED
        BY <2>1, <2>2
<1>2. /\ work'.pc = pc /\ work'.todo = todo /\ work'.row = Idle.row /\ work'.remove = {}
    BY <1>1, IdleIsIdle, IdleHasNothing DEF Works
<1>3. rows' \subseteq rows
    BY DEF Fixup, Refresh, Query
<1>4. Unique(todo) /\ \A c \in todo, r \in rows : Same(r, c) => ~r.done
    BY <1>1 DEF IInv, Tables, Unique, Same
<1> QED
    BY <1>2, <1>3, <1>4, IdleHasNothing DEF Awaiting, Busy, AtWork

LEMMA EndLoopAwaits ==
    ASSUME IInv, Awaiting, EndLoop
    PROVE  Awaiting'
<1>1. CASE work' = Idle
    BY <1>1, IdleAwaits DEF EndLoop, Awaiting
<1>2. CASE work' = [Idle EXCEPT !.pc = "drop", !.keep = retain, !.todo = Excess(retain)]
    <2>1. work'.pc = "drop" /\ work'.row = Idle.row /\ work'.remove = {}
        BY <1>2, IdleIsIdle, IdleHasNothing DEF Works
    <2> QED
        BY <2>1, IdleHasNothing DEF EndLoop, Awaiting, Busy, AtWork
<1> QED
    BY <1>1, <1>2 DEF EndLoop, Retention

LEMMA ArchiveAwaits ==
    ASSUME IInv, Awaiting, Archive
    PROVE  Awaiting'
<1>1. work.pc = "each"
    BY DEF Archive
<1>2. PICK c \in work.todo : /\ Refreshed(c)
                             /\ Got(c) \/ Fails(c, 0) \/ Fails(c, 1) \/ NotFound(c, 0)
                                \/ NotFound(c, 1) \/ Denied
    BY DEF Archive, FetchWorkbook, FetchDataSource, FetchExtract
<1>3. Stored(c) \in rows /\ Same(Stored(c), c)
    BY <1>2, StoredIsStored DEF Refreshed, Same
<1>4. /\ \A r \in rows : ~r.done => r.original = 0
      /\ Unique(work.todo) /\ \A d \in work.todo, r \in rows : Same(r, d) => ~r.done
      /\ Files(work.row) = {} /\ work.remove = {}
    BY <1>1 DEF Awaiting, Busy, AtWork
<1>5. CASE Got(c)
    <2>1. work' = [work EXCEPT !.pc = "place", !.todo = @ \ {c}, !.row = Stored(c)]
          /\ rows' = rows
        BY <1>5 DEF Got
    <2>2. /\ work'.pc = "place" /\ work'.row = Stored(c) /\ work'.todo = work.todo \ {c}
          /\ work'.remove = {}
        BY <1>4, <2>1 DEF Works, IInv, TypeOK
    <2>3. ~Stored(c).done /\ Stored(c).original = 0
        BY <1>3, <1>4
    <2>4. \A d \in work.todo \ {c} : ~Same(d, Stored(c))
        BY <1>3, <1>4 DEF Unique, Same
    <2>5. \A r \in rows : Same(r, Stored(c)) => ~r.done
        BY <1>3, <1>4 DEF Same
    <2>6. Unique(work'.todo) /\ \A d \in work'.todo, r \in rows : Same(r, d) => ~r.done
        BY <1>4, <2>2 DEF Unique
    <2> QED
        BY <1>4, <2>1, <2>2, <2>3, <2>4, <2>5, <2>6 DEF Awaiting, Busy, AtWork
<1>6. CASE Fails(c, 0) \/ Fails(c, 1) \/ NotFound(c, 0) \/ NotFound(c, 1)
    <2>1. PICK n \in {0, 1} : work' = [work EXCEPT !.todo = @ \ {c}, !.count = @ + n]
        BY <1>6 DEF Fails, NotFound
    <2>2. rows' \subseteq rows
        BY <1>6 DEF Fails, NotFound
    <2>3. /\ work'.pc = "each" /\ work'.row = work.row /\ work'.todo = work.todo \ {c}
          /\ work'.remove = work.remove
        BY <1>1, <2>1 DEF Works, IInv, TypeOK
    <2> QED
        BY <1>4, <2>2, <2>3 DEF Awaiting, Busy, AtWork, Unique
<1>7. CASE Denied
    BY <1>4, <1>7, IdleAwaits DEF Denied
<1> QED
    BY <1>2, <1>5, <1>6, <1>7

LEMMA PlaceAwaits ==
    ASSUME IInv, Awaiting, Place
    PROVE  Awaiting'
<1>1. PICK next \in {"original", "record"} :
         work' = [work EXCEPT !.pc = next, !.row.file = FreeId]
    BY DEF Place
<1>2. /\ work'.pc = next /\ work'.row.item = work.row.item /\ work'.row.rev = work.row.rev
      /\ work'.row.original = work.row.original /\ work'.row.done = work.row.done
      /\ work'.todo = work.todo /\ work'.remove = work.remove
    BY <1>1 DEF Works, Rows, IInv, TypeOK
<1>3. rows' = rows /\ work.pc = "place"
    BY DEF Place
<1>4. \A r : Same(r, work'.row) <=> Same(r, work.row)
    BY <1>2 DEF Same
<1> QED
    BY <1>2, <1>3, <1>4 DEF Awaiting, Busy, AtWork

\* Writing the row back takes nothing away but the row it was read from.
LEMMA PutRows ==
    ASSUME IInv, work.pc \in AtWork, NEW row, Same(row, work.row), Put(row)
    PROVE  /\ \A r \in rows' : r = row \/ (r \in rows /\ ~Same(r, row))
           /\ \A r \in rows : r \in rows' \/ Same(r, work.row)
           /\ row \in rows'
<1>1. \E r \in rows : Same(r, work.row)
    BY DEF IInv, Placing, AtWork
<1>2. \A r \in rows : Same(r, row) <=> Same(r, work.row)
    BY DEF Same
<1>3. Stored(row) \in rows /\ Same(Stored(row), row)
    BY <1>1, <1>2, StoredIsStored
<1>4. \A s \in rows : Same(s, row) => s = Stored(row)
    BY <1>3 DEF IInv, Tables, Unique, Same
<1> QED
    BY <1>2, <1>3, <1>4 DEF Put

LEMMA PlaceOriginalAwaits ==
    ASSUME IInv, Awaiting, PlaceOriginal
    PROVE  Awaiting'
<1>1. /\ work.pc = "original" /\ Put(work.row)
      /\ work' = [work EXCEPT !.pc = "record", !.row.original = FreeId]
    BY DEF PlaceOriginal
<1>2. /\ work'.pc = "record" /\ work'.row.item = work.row.item /\ work'.row.rev = work.row.rev
      /\ work'.row.done = work.row.done
      /\ work'.todo = work.todo /\ work'.remove = work.remove
    BY <1>1 DEF Works, Rows, IInv, TypeOK
<1>3. ~work.row.done /\ work.row.original = 0
    BY <1>1 DEF Awaiting, AtWork
<1>4. \A r \in rows' : r = work.row \/ (r \in rows /\ ~Same(r, work.row))
    BY <1>1, PutRows DEF AtWork, Same
<1>5. \A r : Same(r, work'.row) <=> Same(r, work.row)
    BY <1>2 DEF Same
<1> QED
    BY <1>1, <1>2, <1>3, <1>4, <1>5 DEF Awaiting, Busy, AtWork

LEMMA RecordAwaits ==
    ASSUME IInv, Awaiting, Record
    PROVE  Awaiting'
<1> DEFINE row == [work.row EXCEPT !.done = TRUE]
<1>1. /\ work.pc = "record" /\ Put(row)
      /\ work' = [work EXCEPT !.pc = "each", !.row = Idle.row, !.count = @ + 1]
    BY DEF Record
<1>2. Same(row, work.row) /\ row.done
    BY DEF IInv, TypeOK, Works, Rows, Same
<1> HIDE DEF row
<1>3. /\ work'.pc = "each" /\ work'.row = Idle.row /\ work'.todo = work.todo
      /\ work'.remove = work.remove
    BY <1>1 DEF Works, IInv, TypeOK
<1>4. \A r \in rows' : r = row \/ (r \in rows /\ ~Same(r, row))
    BY <1>1, <1>2, PutRows DEF AtWork
<1>5. \A c \in work.todo : ~Same(row, c)
    BY <1>1, <1>2 DEF Awaiting, AtWork, Same
<1> QED
    BY <1>1, <1>2, <1>3, <1>4, <1>5, IdleHasNothing DEF Awaiting, Busy, AtWork

LEMMA DropAwaits ==
    ASSUME IInv, Awaiting, Drop
    PROVE  Awaiting'
<1>1. PICK r \in work.todo :
         /\ rows' = rows \ {r}
         /\ work' = [work EXCEPT !.pc = "remove", !.todo = @ \ {r},
                                 !.remove = {r.file, r.original} \ {0}]
    BY DEF Drop
<1>2. r \in Rows /\ work.pc = "drop"
    BY DEF Drop, IInv, TypeOK, Works
<1>3. work'.pc = "remove" /\ work'.remove = Files(r) /\ work'.row = work.row
    BY <1>1 DEF Works, Files, IInv, TypeOK
<1> QED
    BY <1>1, <1>2, <1>3 DEF Awaiting, Busy, AtWork

LEMMA RemoveFileAwaits ==
    ASSUME IInv, Awaiting, RemoveFile
    PROVE  Awaiting'
<1>1. PICK f \in work.remove :
         work' = [work EXCEPT !.remove = @ \ {f},
                              !.pc = IF work.remove = {f} THEN "drop" ELSE "remove"]
    BY DEF RemoveFile
<1>2. /\ work'.pc = (IF work.remove = {f} THEN "drop" ELSE "remove") /\ work'.row = work.row
      /\ work'.remove = work.remove \ {f}
    BY <1>1 DEF Works, IInv, TypeOK
<1>3. rows' = rows /\ work.pc = "remove"
    BY DEF RemoveFile
<1> QED
    BY <1>2, <1>3 DEF Awaiting, Busy, AtWork

LEMMA NextAwaiting == IInv /\ Awaiting /\ [Next]_vars => Awaiting'
<1> SUFFICES ASSUME IInv, Awaiting, [Next]_vars PROVE Awaiting'
    OBVIOUS
<1>1. CASE UNCHANGED <<rows, work>>
    BY <1>1 DEF Awaiting, Unique
<1>2. ASSUME NEW i \in Items, AddExtract(i) PROVE Awaiting'
    <2>1. rows' \subseteq rows \union {Row(i, published')} /\ rows \subseteq rows' /\ work' = work
        BY <1>2 DEF AddExtract
    <2> QED
        BY <2>1, RowIsNew DEF Awaiting
<1>3. ASSUME NEW i \in Items, Publish(i) \/ Unpublish(i) PROVE UNCHANGED <<rows, work>>
    BY <1>3 DEF Publish, Unpublish
<1>4. CASE SetRetain \/ Disabled \/ UNCHANGED vars
    BY <1>1, <1>4 DEF SetRetain, Disabled, vars
<1>5. CASE EndRetention \/ Crash
    BY <1>5, IdleAwaits DEF EndRetention, Crash, Awaiting
<1> QED
    BY <1>1, <1>2, <1>3, <1>4, <1>5, ImportAwaits, LoadRowAwaits, LoadDoneAwaits, BeginAwaits,
       EndLoopAwaits, ArchiveAwaits, PlaceAwaits, PlaceOriginalAwaits, RecordAwaits, DropAwaits,
       RemoveFileAwaits DEF Next, Step

-----------------------------------------------------------------------------
\* Only Record adds an archive, and only retention takes one away.
LEMMA ArchivedStays ==
    ASSUME IInv, Awaiting, [Next]_vars, ~Record, ~Drop
    PROVE  Archived' = Archived
<1>1. CASE rows' = rows
    BY <1>1 DEF Archived
<1>2. ASSUME NEW i \in Items, AddExtract(i) PROVE Archived' = Archived
    BY <1>2, RowIsNew DEF AddExtract, Archived
<1>3. CASE LoadRow
    BY <1>3 DEF LoadRow, Awaiting, Archived
<1>4. CASE LoadDone
    <2>1. \A r \in rows \union work.new : r.done => r \in rows'
        BY <1>4 DEF LoadDone, Missed
    <2>2. \A r \in rows' : r \in rows \/ r \in work.new
        BY <1>4 DEF LoadDone
    <2>3. \A r \in work.new : ~r.done
        BY <1>4 DEF LoadDone, Awaiting
    <2> QED
        BY <2>1, <2>2, <2>3 DEF Archived
<1>5. CASE Refresh
    BY <1>5 DEF Refresh, Missed, Archived
<1>6. CASE Archive
    <2>1. PICK c \in work.todo : Refreshed(c) /\ (rows' = rows \/ rows' = rows \ {Stored(c)})
        BY <1>6 DEF Archive, FetchWorkbook, FetchDataSource, FetchExtract, Got, Fails, NotFound, Denied
    <2>2. Stored(c) \in rows /\ Same(Stored(c), c)
        BY <2>1, StoredIsStored DEF Refreshed, Same
    <2>3. ~Stored(c).done
        BY <1>6, <2>2 DEF Archive, Awaiting, Busy
    <2> QED
        BY <2>1, <2>3 DEF Archived
<1>7. CASE PlaceOriginal
    <2>1. work.pc = "original" /\ Put(work.row) /\ Same(work.row, work.row)
        BY <1>7 DEF PlaceOriginal, Same
    <2>2. /\ \A r \in rows' : r = work.row \/ r \in rows
          /\ \A r \in rows : r \in rows' \/ Same(r, work.row)
        BY <2>1, PutRows DEF AtWork
    <2>3. ~work.row.done /\ \A r \in rows : Same(r, work.row) => ~r.done
        BY <2>1 DEF Awaiting, AtWork
    <2> QED
        BY <2>2, <2>3 DEF Archived
<1>8. ASSUME NEW i \in Items, Publish(i) \/ Unpublish(i) PROVE rows' = rows
    BY <1>8 DEF Publish, Unpublish
<1>9. CASE SetRetain \/ ImportWorkbooks \/ ImportDataSources \/ Fixup \/ Disabled \/ Crash
           \/ Query \/ EndLoop \/ Place \/ RemoveFile \/ EndRetention \/ UNCHANGED vars
    BY <1>1, <1>9 DEF SetRetain, ImportWorkbooks, ImportDataSources, Import, Fixup, Query, Disabled,
       Crash, EndLoop, Place, RemoveFile, EndRetention, vars
<1> QED
    BY <1>1, <1>2, <1>3, <1>4, <1>5, <1>6, <1>7, <1>8, <1>9 DEF Next, Step

(***************************************************************************)
(* Retention: what it has still to drop has enough newer archives, the     *)
(* count it read at its beginning of them.                                 *)
(***************************************************************************)
Newer(r, set) == {s \in set : s.item = r.item /\ s.rev > r.rev}

Retained ==
    /\ IsFiniteSet(rows) /\ IsFiniteSet(work.new)
    /\ work.pc \notin Retaining => work.keep = 0
    /\ work.pc \in Retaining =>
          \A r \in work.todo : r.done /\ Cardinality(Newer(r, Archived)) >= work.keep

LEMMA InitRetained == Init => Retained
BY IdleIsIdle, IdleHasNothing, FS_EmptySet DEF Init, Retained, Retaining

LEMMA StaysFinite ==
    ASSUME IInv, Retained, [Next]_vars
    PROVE  IsFiniteSet(rows') /\ IsFiniteSet(work'.new)
<1>1. \E r : rows' \subseteq (rows \union work.new) \union {r}
    <2>1. ASSUME NEW i \in Items, Publish(i) \/ Unpublish(i) \/ AddExtract(i)
          PROVE  \E r : rows' \subseteq rows \union {r}
        BY <2>1 DEF Publish, Unpublish, AddExtract
    <2>2. CASE PlaceOriginal \/ Record
        BY <2>2 DEF PlaceOriginal, Record, Put
    <2>3. CASE SetRetain \/ ImportWorkbooks \/ ImportDataSources \/ Fixup \/ Refresh \/ Query \/ Disabled
               \/ Crash \/ EndLoop \/ Place \/ Drop \/ RemoveFile \/ EndRetention
               \/ LoadRow \/ LoadDone \/ Archive \/ UNCHANGED vars
        <3>1. rows' \subseteq rows \union work.new
            BY <2>3 DEF SetRetain, ImportWorkbooks, ImportDataSources, Import, Fixup, Refresh, Query,
               Disabled, Crash, EndLoop, Place, Drop, RemoveFile, EndRetention, LoadRow, LoadDone,
               Archive, FetchWorkbook, FetchDataSource, FetchExtract, Got, Fails, NotFound, Denied, vars
        <3> QED
            BY <3>1
    <2> QED
        BY <2>1, <2>2, <2>3 DEF Next, Step
<1>2. \E r : work'.new \subseteq work.new \union {r}
    <2>1. work \in Works
        BY DEF IInv, TypeOK
    <2>2. CASE LoadRow
        <3>1. PICK c \in work.todo :
                 LET new == IF \E r \in rows' : r.item = c.item /\ r.rev = c.rev THEN {} ELSE {c}
                 IN  work' = [work EXCEPT !.todo = @ \ {c}, !.new = new, !.updates = @ \union new]
            BY <2>2 DEF LoadRow
        <3>2. work'.new \subseteq {c}
            BY <2>1, <3>1 DEF Works
        <3> QED
            BY <3>2
    <2>3. CASE work'.new \subseteq work.new
        BY <2>3
    <2>4. CASE LoadDone \/ ImportWorkbooks \/ ImportDataSources \/ Fixup \/ Refresh \/ Query \/ EndLoop
               \/ EndRetention \/ Crash
        BY <2>1, <2>3, <2>4, IdleIsIdle
        DEF LoadDone, ImportWorkbooks, ImportDataSources, Import, Fixup, Refresh, Query, EndLoop,
            Retention, EndRetention, Crash, Works
    <2>5. CASE Archive
        BY <2>1, <2>3, <2>5, IdleIsIdle
        DEF Archive, FetchWorkbook, FetchDataSource, FetchExtract, Got, Fails, NotFound, Denied, Works
    <2>6. CASE Place \/ PlaceOriginal \/ Record \/ Drop \/ RemoveFile
        BY <2>1, <2>3, <2>6 DEF Place, PlaceOriginal, Record, Drop, RemoveFile, Works
    <2>7. CASE \/ \E i \in Items : Publish(i) \/ Unpublish(i) \/ AddExtract(i)
               \/ SetRetain \/ Disabled \/ UNCHANGED vars
        BY <2>3, <2>7 DEF Publish, Unpublish, AddExtract, SetRetain, Disabled, vars
    <2> QED
        BY <2>2, <2>4, <2>5, <2>6, <2>7 DEF Next, Step
<1>3. IsFiniteSet(rows) /\ IsFiniteSet(work.new)
    BY DEF Retained
<1>4. IsFiniteSet(rows \union work.new)
    BY <1>3, FS_Union
<1>5. IsFiniteSet(rows')
    <2>1. PICK r : rows' \subseteq (rows \union work.new) \union {r}
        BY <1>1
    <2>2. IsFiniteSet((rows \union work.new) \union {r})
        BY <1>4, FS_AddElement
    <2> QED
        BY <2>1, <2>2, FS_Subset
<1>6. IsFiniteSet(work'.new)
    <2>1. PICK r : work'.new \subseteq work.new \union {r}
        BY <1>2
    <2>2. IsFiniteSet(work.new \union {r})
        BY <1>3, FS_AddElement
    <2> QED
        BY <2>1, <2>2, FS_Subset
<1> QED
    BY <1>5, <1>6

LEMMA NewerIsFinite ==
    ASSUME Retained, NEW r
    PROVE  /\ IsFiniteSet(Archived) /\ IsFiniteSet(Newer(r, Archived))
           /\ Cardinality(Newer(r, Archived)) \in Nat
<1>1. IsFiniteSet(Archived)
    BY FS_Subset DEF Retained, Archived
<1>2. IsFiniteSet(Newer(r, Archived))
    BY <1>1, FS_Subset DEF Newer
<1> QED
    BY <1>1, <1>2, FS_CardinalityType

\* What retention has to drop is archived, and in the rows.
LEMMA ToDrop ==
    ASSUME IInv, Retained, work.pc = "drop", NEW r \in work.todo
    PROVE  r \in Archived /\ r \in Rows /\ r.rev \in Int
<1>1. work.todo \subseteq rows /\ rows \subseteq Rows
    BY DEF IInv, TypeOK, Dropping
<1>2. r.done
    BY DEF Retained, Retaining
<1>3. r \in Rows => r.rev \in Int
    BY DEF Rows, Times
<1> QED
    BY <1>1, <1>2, <1>3 DEF Archived

LEMMA DropRetains ==
    ASSUME IInv, Retained, Drop
    PROVE  /\ work'.pc \in Retaining /\ work'.keep = work.keep
           /\ \A s \in work'.todo : s.done /\ Cardinality(Newer(s, Archived')) >= work'.keep
<1>1. PICK r \in work.todo :
         /\ \A s \in Of(r.item, work.todo) : r.rev <= s.rev
         /\ rows' = rows \ {r}
         /\ work' = [work EXCEPT !.pc = "remove", !.todo = @ \ {r},
                                 !.remove = {r.file, r.original} \ {0}]
    BY DEF Drop
<1>2. /\ work.pc = "drop" /\ work'.pc = "remove" /\ work'.todo = work.todo \ {r}
      /\ work'.keep = work.keep
    BY <1>1 DEF Drop, IInv, TypeOK, Works
<1>3. Archived' = Archived \ {r}
    BY <1>1 DEF Archived
<1>4. ASSUME NEW s \in work'.todo
      PROVE  s.done /\ Cardinality(Newer(s, Archived')) >= work'.keep
    <2>1. r.rev \in Int /\ s.rev \in Int
        BY <1>2, ToDrop
    <2>2. s.item = r.item => r.rev <= s.rev
        BY <1>1, <1>2 DEF Of
    <2>3. Newer(s, Archived') = Newer(s, Archived)
        BY <1>3, <2>1, <2>2 DEF Newer
    <2> QED
        BY <1>2, <2>3 DEF Retained, Retaining
<1> QED
    BY <1>2, <1>4 DEF Retaining

LEMMA EndLoopRetains ==
    ASSUME IInv, Retained, EndLoop
    PROVE  /\ work'.pc \notin Retaining => work'.keep = 0
           /\ work'.pc \in Retaining =>
                 /\ work' = [Idle EXCEPT !.pc = "drop", !.keep = retain, !.todo = Excess(retain)]
                 /\ \A r \in work'.todo : r.done /\ Cardinality(Newer(r, Archived)) >= work'.keep
<1>1. CASE work' = Idle
    BY <1>1, IdleIsIdle, IdleHasNothing DEF Retaining
<1>2. CASE work' = [Idle EXCEPT !.pc = "drop", !.keep = retain, !.todo = Excess(retain)]
    <2>1. work'.pc = "drop" /\ work'.todo = Excess(retain) /\ work'.keep = retain
        BY <1>2, IdleIsIdle DEF Works
    <2>2. \A r : Newer(r, Archived) = {s \in Of(r.item, Archived) : s.rev > r.rev}
        BY DEF Newer, Of
    <2>3. \A r \in Excess(retain) : r.done /\ Cardinality(Newer(r, Archived)) >= retain
        BY <2>2 DEF Excess, Archived
    <2> QED
        BY <1>2, <2>1, <2>3 DEF Retaining
<1> QED
    BY <1>1, <1>2 DEF EndLoop, Retention

\* The other steps of a command are not about retention at all.
LEMMA OtherStepsRetain ==
    ASSUME IInv, Retained,
           \/ ImportWorkbooks \/ ImportDataSources \/ Fixup \/ Refresh \/ Query \/ LoadRow \/ LoadDone
           \/ Archive \/ Place \/ PlaceOriginal \/ Record \/ EndRetention \/ Crash
    PROVE  work'.pc \notin Retaining /\ work'.keep = 0
<1>1. work \in Works
    BY DEF IInv, TypeOK
<1>2. work.pc \notin Retaining => work.keep = 0
    BY DEF Retained
<1>3. CASE ImportWorkbooks \/ ImportDataSources \/ Fixup \/ Refresh \/ Query \/ EndRetention \/ Crash
    BY <1>3, IdleIsIdle, IdleHasNothing
    DEF ImportWorkbooks, ImportDataSources, Import, Fixup, Refresh, Query, EndRetention, Crash, Works, Retaining
<1>4. CASE LoadRow \/ LoadDone
    BY <1>1, <1>2, <1>4, IdleIsIdle, IdleHasNothing DEF LoadRow, LoadDone, Works, Retaining
<1>5. CASE Archive
    BY <1>1, <1>2, <1>5, IdleIsIdle, IdleHasNothing
    DEF Archive, FetchWorkbook, FetchDataSource, FetchExtract, Got, Fails, NotFound, Denied, Works, Retaining
<1>6. CASE Place \/ PlaceOriginal \/ Record
    BY <1>1, <1>2, <1>6 DEF Place, PlaceOriginal, Record, Works, Retaining
<1> QED
    BY <1>3, <1>4, <1>5, <1>6

LEMMA RemoveFileRetains ==
    ASSUME IInv, RemoveFile
    PROVE  work.pc \in Retaining /\ work'.pc \in Retaining /\ work'.keep = work.keep /\ work'.todo = work.todo
<1>1. PICK f \in work.remove :
         work' = [work EXCEPT !.remove = @ \ {f},
                              !.pc = IF work.remove = {f} THEN "drop" ELSE "remove"]
    BY DEF RemoveFile
<1> QED
    BY <1>1 DEF RemoveFile, Retaining, Works, IInv, TypeOK

LEMMA NextRetained == IInv /\ Awaiting /\ Retained /\ [Next]_vars => Retained'
<1> SUFFICES ASSUME IInv, Awaiting, Retained, [Next]_vars PROVE Retained'
    OBVIOUS
<1>1. IsFiniteSet(rows') /\ IsFiniteSet(work'.new)
    BY StaysFinite
<1>2. ~Record /\ ~Drop => Archived' = Archived
    BY ArchivedStays
<1>3. CASE Drop
    BY <1>1, <1>3, DropRetains DEF Retained
<1>4. CASE EndLoop
    <2>1. Archived' = Archived
        BY <1>4 DEF EndLoop, Archived
    <2> QED
        BY <1>1, <1>4, <2>1, EndLoopRetains DEF Retained, Newer
<1>5. CASE \/ ImportWorkbooks \/ ImportDataSources \/ Fixup \/ Refresh \/ Query \/ LoadRow \/ LoadDone
           \/ Archive \/ Place \/ PlaceOriginal \/ Record \/ EndRetention \/ Crash
    BY <1>1, <1>5, OtherStepsRetain DEF Retained
<1>6. CASE RemoveFile
    <2>1. Archived' = Archived
        BY <1>6 DEF RemoveFile, Archived
    <2> QED
        BY <1>1, <1>6, <2>1, RemoveFileRetains DEF Retained, Newer
<1>7. CASE work' = work
    <2>1. ~Record /\ ~Drop => Retained'
        BY <1>1, <1>2, <1>7 DEF Retained, Newer
    <2> QED
        BY <1>3, <1>5, <2>1
<1>8. ASSUME NEW i \in Items, Publish(i) \/ AddExtract(i) \/ Unpublish(i) PROVE work' = work
    BY <1>8 DEF Publish, AddExtract, Unpublish
<1>9. CASE SetRetain \/ Disabled \/ UNCHANGED vars
    BY <1>7, <1>9 DEF SetRetain, Disabled, vars
<1> QED
    BY <1>3, <1>4, <1>5, <1>6, <1>7, <1>8, <1>9 DEF Next, Step

LEMMA RetainedAlways == Spec => [](IInv /\ Awaiting /\ Retained)
<1>1. Init => IInv /\ Awaiting /\ Retained
    BY InitIInv, InitAwaiting, InitRetained
<1>2. IInv /\ Awaiting /\ Retained /\ [Next]_vars => (IInv /\ Awaiting /\ Retained)'
    BY NextKeepsIInv, NextAwaiting, NextRetained
<1> QED
    BY <1>1, <1>2, PTL DEF Spec

-----------------------------------------------------------------------------
(***************************************************************************)
(* Files without an owner.  A file is accounted for when an archive shows  *)
(* it, when the command at work has just placed it or when retention is    *)
(* about to remove it: the files of a row that is not archived are not,    *)
(* for the next attempt replaces them.  This makes the bound inductive:    *)
(* only a file that cannot be removed and the end of the controller leave  *)
(* files that are not accounted for, at most two each.                     *)
(***************************************************************************)
Shown == UNION {Files(r) : r \in Archived}
Fresh == IF work.pc \in {"original", "record"} THEN Files(work.row) ELSE {}
Loose == files \ (Shown \union Fresh \union work.remove)
LooseIsBounded == Cardinality(Loose) <= 2 * (failures + crashes)

\* A step that goes well leaves no more files, one that fails two at most.
NoMoreLoose == Loose' \subseteq Loose /\ failures' + crashes' >= failures + crashes
TwoMoreLoose ==
    /\ \E f, g : Loose' \subseteq Loose \union {f, g}
    /\ failures' + crashes' = failures + crashes + 1

LEMMA Counters ==
    ASSUME IInv
    PROVE  failures \in Nat /\ crashes \in Nat
BY DEF IInv, TypeOK

\* Steps between which no file changes hands.
LEMMA NothingPlaced ==
    ASSUME IInv, Awaiting, [Next]_vars, files' = files,
           ~Record, ~Drop, work.remove = {}, Fresh = {}
    PROVE  Loose' \subseteq Loose
<1>1. Shown' = Shown
    BY ArchivedStays DEF Shown
<1> QED
    BY <1>1 DEF Loose

LEMMA PlaceLeavesNone ==
    ASSUME IInv, Awaiting, Place
    PROVE  Loose' \subseteq Loose
<1>1. PICK next \in {"original", "record"} :
         work' = [work EXCEPT !.pc = next, !.row.file = FreeId]
    BY DEF Place
<1>2. work.pc = "place" /\ rows' = rows /\ files' = files \union {FreeId}
    BY DEF Place
<1>3. FreeId # 0
    BY NewFile DEF Place
<1>4. /\ work'.pc \in {"original", "record"} /\ work'.row.file = FreeId
      /\ work'.row.original = work.row.original /\ work'.remove = work.remove
    BY <1>1 DEF Works, Rows, IInv, TypeOK
<1>5. Shown' = Shown
    BY <1>2 DEF Shown, Archived
<1>6. Fresh = {} /\ FreeId \in Fresh'
    BY <1>2, <1>3, <1>4 DEF Fresh, Files
<1> QED
    BY <1>2, <1>4, <1>5, <1>6 DEF Loose

LEMMA PlaceOriginalLeavesNone ==
    ASSUME IInv, Awaiting, [Next]_vars, PlaceOriginal
    PROVE  Loose' \subseteq Loose
<1>1. /\ work.pc = "original" /\ files' = files \union {FreeId}
      /\ work' = [work EXCEPT !.pc = "record", !.row.original = FreeId]
    BY DEF PlaceOriginal
<1>2. FreeId # 0
    BY NewFile DEF PlaceOriginal
<1>3. /\ work'.pc = "record" /\ work'.row.original = FreeId
      /\ work'.row.file = work.row.file /\ work'.remove = work.remove
    BY <1>1 DEF Works, Rows, IInv, TypeOK
<1>4. Shown' = Shown
    BY <1>1, ArchivedStays DEF Shown, Record, Drop
<1>5. work.row.original = 0
    BY <1>1 DEF Awaiting, AtWork
<1>6. Fresh \union {FreeId} \subseteq Fresh'
    BY <1>1, <1>2, <1>3, <1>5 DEF Fresh, Files
<1> QED
    BY <1>1, <1>3, <1>4, <1>6 DEF Loose

LEMMA RecordLeavesNone ==
    ASSUME IInv, Awaiting, Record
    PROVE  Loose' \subseteq Loose
<1> DEFINE row == [work.row EXCEPT !.done = TRUE]
<1>1. /\ work.pc = "record" /\ Put(row) /\ files' = files
      /\ work' = [work EXCEPT !.pc = "each", !.row = Idle.row, !.count = @ + 1]
    BY DEF Record
<1>2. Same(row, work.row) /\ row.done /\ Files(row) = Files(work.row)
    BY DEF IInv, TypeOK, Works, Rows, Same, Files
<1> HIDE DEF row
<1>3. work'.pc = "each" /\ work'.remove = work.remove
    BY <1>1 DEF Works, IInv, TypeOK
<1>4. row \in rows' /\ \A r \in rows : r \in rows' \/ Same(r, work.row)
    BY <1>1, <1>2, PutRows DEF AtWork
<1>5. \A r \in rows : Same(r, work.row) => ~r.done
    BY <1>1 DEF Awaiting, AtWork
<1>6. Archived \union {row} \subseteq Archived'
    BY <1>2, <1>4, <1>5 DEF Archived
<1>7. Shown \union Fresh \subseteq Shown'
    BY <1>1, <1>2, <1>6 DEF Shown, Fresh
<1> QED
    BY <1>1, <1>3, <1>7 DEF Loose

LEMMA DropLeavesNone ==
    ASSUME IInv, Awaiting, Drop
    PROVE  Loose' \subseteq Loose
<1>1. PICK r \in work.todo :
         /\ rows' = rows \ {r}
         /\ work' = [work EXCEPT !.pc = "remove", !.todo = @ \ {r},
                                 !.remove = {r.file, r.original} \ {0}]
    BY DEF Drop
<1>2. work.pc = "drop" /\ work'.pc = "remove" /\ work'.remove = Files(r) /\ files' = files
    BY <1>1 DEF Drop, Works, Files, IInv, TypeOK
<1>3. Archived \subseteq Archived' \union {r}
    BY <1>1 DEF Archived
<1>4. Shown \subseteq Shown' \union Files(r)
    BY <1>3 DEF Shown
<1>5. Fresh = {} /\ work.remove = {}
    BY <1>2 DEF Fresh, Awaiting
<1> QED
    BY <1>2, <1>4, <1>5 DEF Loose

LEMMA RemoveFileLeaves ==
    ASSUME IInv, Awaiting, RemoveFile
    PROVE  NoMoreLoose \/ TwoMoreLoose
<1>1. PICK f \in work.remove :
         /\ work' = [work EXCEPT !.remove = @ \ {f},
                                 !.pc = IF work.remove = {f} THEN "drop" ELSE "remove"]
         /\ \/ files' = files \ {f} /\ failures' = failures
            \/ failures' = failures + 1 /\ files' = files
    BY DEF RemoveFile
<1>2. work.pc = "remove" /\ rows' = rows /\ crashes' = crashes
    BY DEF RemoveFile
<1>3. work'.pc \in {"drop", "remove"} /\ work'.remove = work.remove \ {f}
    BY <1>1 DEF Works, IInv, TypeOK
<1>4. Shown' = Shown
    BY <1>2 DEF Shown, Archived
<1>5. Fresh = {} /\ Fresh' = {}
    BY <1>2, <1>3 DEF Fresh
<1>6. failures \in Nat /\ crashes \in Nat
    BY Counters
<1>7. CASE files' = files \ {f} /\ failures' = failures
    <2>1. Loose' \subseteq Loose
        BY <1>3, <1>4, <1>5, <1>7 DEF Loose
    <2> QED
        BY <1>2, <1>6, <1>7, <2>1 DEF NoMoreLoose
<1>8. CASE failures' = failures + 1 /\ files' = files
    <2>1. Loose' \subseteq Loose \union {f, f}
        BY <1>3, <1>4, <1>5, <1>8 DEF Loose
    <2>2. failures' + crashes' = failures + crashes + 1
        BY <1>2, <1>6, <1>8
    <2> QED
        BY <2>1, <2>2 DEF TwoMoreLoose
<1> QED
    BY <1>1, <1>7, <1>8

LEMMA CrashLeaves ==
    ASSUME IInv, Awaiting, Crash
    PROVE  TwoMoreLoose
<1>1. work' = Idle /\ rows' = rows /\ files' = files /\ crashes' = crashes + 1 /\ failures' = failures
    BY DEF Crash
<1>2. Shown' = Shown
    BY <1>1 DEF Shown, Archived
<1>3. \E f, g : Fresh \union work.remove \subseteq {f, g}
    <2>1. CASE work.pc = "remove"
        <3>1. PICK r \in Rows : work.remove \subseteq Files(r)
            BY <2>1 DEF Awaiting
        <3>2. Fresh \union work.remove \subseteq {r.file, r.original}
            BY <2>1, <3>1 DEF Fresh, Files
        <3> QED
            BY <3>2
    <2>2. CASE work.pc # "remove"
        <3>1. Fresh \union work.remove \subseteq {work.row.file, work.row.original}
            BY <2>2 DEF Fresh, Files, Awaiting
        <3> QED
            BY <3>1
    <2> QED
        BY <2>1, <2>2
<1>4. PICK f, g : Fresh \union work.remove \subseteq {f, g}
    BY <1>3
<1>5. Loose' \subseteq Loose \union {f, g}
    BY <1>1, <1>2, <1>4 DEF Loose
<1>6. failures' + crashes' = failures + crashes + 1
    BY <1>1, Counters
<1> QED
    BY <1>5, <1>6 DEF TwoMoreLoose

\* The steps of a command that has placed nothing and removes nothing.
LEMMA OthersLeaveNone ==
    ASSUME IInv, Awaiting, [Next]_vars,
           \/ ImportWorkbooks \/ ImportDataSources \/ Fixup \/ Refresh \/ Query \/ LoadRow \/ LoadDone
           \/ EndLoop \/ Archive \/ EndRetention
    PROVE  NoMoreLoose
<1>1. work.pc \in {"idle", "load", "query", "each", "drop"} /\ files' = files
    BY DEF ImportWorkbooks, ImportDataSources, Import, Fixup, Refresh, Query, LoadRow, LoadDone,
           EndLoop, Archive, EndRetention
<1>2. ~Record /\ ~Drop
    <2>1. work.pc = "drop" => EndRetention
        BY DEF ImportWorkbooks, ImportDataSources, Import, Fixup, Refresh, Query, LoadRow, LoadDone,
               EndLoop, Archive
    <2> QED
        BY <1>1, <2>1 DEF Record, Drop, EndRetention
<1>3. Fresh = {} /\ work.remove = {}
    BY <1>1 DEF Fresh, Awaiting
<1>4. Loose' \subseteq Loose
    BY <1>1, <1>2, <1>3, NothingPlaced
<1>5. crashes' = crashes /\ (failures' = failures \/ failures' = failures + 1)
    BY DEF ImportWorkbooks, ImportDataSources, Import, Fixup, Refresh, Query, LoadRow, LoadDone, EndLoop,
           Archive, FetchWorkbook, FetchDataSource, FetchExtract, Got, Fails, NotFound, Denied, EndRetention
<1> QED
    BY <1>4, <1>5, Counters DEF NoMoreLoose

LEMMA StepsLeave ==
    ASSUME IInv, Awaiting, [Next]_vars
    PROVE  NoMoreLoose \/ TwoMoreLoose
<1>1. CASE Place \/ PlaceOriginal \/ Record \/ Drop
    <2>1. Loose' \subseteq Loose
        BY <1>1, PlaceLeavesNone, PlaceOriginalLeavesNone, RecordLeavesNone, DropLeavesNone
    <2>2. failures' = failures /\ crashes' = crashes
        BY <1>1 DEF Place, PlaceOriginal, Record, Drop
    <2> QED
        BY <2>1, <2>2, Counters DEF NoMoreLoose
<1>2. CASE work' = work /\ files' = files /\ failures' = failures /\ crashes' = crashes
    <2>1. CASE Record \/ Drop
        BY <1>1, <2>1
    <2>2. CASE ~Record /\ ~Drop
        <3>1. Shown' = Shown /\ Fresh' = Fresh
            BY <1>2, <2>2, ArchivedStays DEF Shown, Fresh
        <3> QED
            BY <1>2, <3>1, Counters DEF NoMoreLoose, Loose
    <2> QED
        BY <2>1, <2>2
<1>3. ASSUME NEW i \in Items, Publish(i) \/ AddExtract(i) \/ Unpublish(i)
      PROVE  work' = work /\ files' = files /\ failures' = failures /\ crashes' = crashes
    BY <1>3 DEF Publish, AddExtract, Unpublish
<1>4. CASE SetRetain \/ Disabled \/ UNCHANGED vars
    BY <1>2, <1>4 DEF SetRetain, Disabled, vars
<1> QED
    BY <1>1, <1>2, <1>3, <1>4, RemoveFileLeaves, CrashLeaves, OthersLeaveNone DEF Next, Step

\* Every set of files is finite.
LEMMA SomeFiles ==
    ASSUME NEW S \in SUBSET FileIds
    PROVE  IsFiniteSet(S) /\ Cardinality(S) \in Nat
BY FileAssumption, FS_Subset, FS_CardinalityType

LEMMA TwoMore ==
    ASSUME NEW S \in SUBSET FileIds, NEW T \in SUBSET FileIds, NEW f, NEW g, T \subseteq S \union {f, g}
    PROVE  Cardinality(T) <= Cardinality(S) + 2
<1>1. IsFiniteSet(S) /\ Cardinality(S) \in Nat
    BY SomeFiles
<1>2. IsFiniteSet(S \union {f}) /\ Cardinality(S \union {f}) \in Nat
      /\ Cardinality(S \union {f}) <= Cardinality(S) + 1
    <2>1. /\ IsFiniteSet(S \union {f})
          /\ \/ Cardinality(S \union {f}) = Cardinality(S)
             \/ Cardinality(S \union {f}) = Cardinality(S) + 1
        BY <1>1, FS_AddElement
    <2> QED
        BY <1>1, <2>1
<1>3. /\ IsFiniteSet((S \union {f}) \union {g})
      /\ Cardinality((S \union {f}) \union {g}) \in Nat
      /\ Cardinality((S \union {f}) \union {g}) <= Cardinality(S \union {f}) + 1
    <2> DEFINE U == S \union {f}
    <2>1. IsFiniteSet(U) /\ Cardinality(U) \in Nat
        BY <1>2
    <2> HIDE DEF U
    <2>2. /\ IsFiniteSet(U \union {g})
          /\ \/ Cardinality(U \union {g}) = Cardinality(U)
             \/ Cardinality(U \union {g}) = Cardinality(U) + 1
        BY <2>1, FS_AddElement
    <2>3. /\ IsFiniteSet(U \union {g}) /\ Cardinality(U \union {g}) \in Nat
          /\ Cardinality(U \union {g}) <= Cardinality(U) + 1
        BY <2>1, <2>2
    <2> QED
        BY <2>3 DEF U
<1>4. T \subseteq (S \union {f}) \union {g}
    OBVIOUS
<1>5. Cardinality(T) <= Cardinality((S \union {f}) \union {g}) /\ Cardinality(T) \in Nat
    BY <1>3, <1>4, FS_Subset, SomeFiles
<1> QED
    BY <1>1, <1>2, <1>3, <1>5

LEMMA LooseIsFinite ==
    ASSUME IInv
    PROVE  Loose \subseteq FileIds
BY DEF IInv, TypeOK, Loose

LEMMA Bounds ==
    ASSUME NEW a \in Nat, NEW b \in Nat, NEW m \in Nat, NEW n \in Nat, a <= 2 * m
    PROVE  /\ b <= a /\ n >= m => b <= 2 * n
           /\ b <= a + 2 /\ n = m + 1 => b <= 2 * n
OBVIOUS

LEMMA NextLoose == IInv /\ Awaiting /\ LooseIsBounded /\ [Next]_vars => LooseIsBounded'
<1> SUFFICES ASSUME IInv, Awaiting, LooseIsBounded, [Next]_vars PROVE LooseIsBounded'
    OBVIOUS
<1>1. Loose \subseteq FileIds /\ Loose' \subseteq FileIds
    BY NextKeepsIInv, LooseIsFinite DEF Loose, IInv, TypeOK
<1>2. failures + crashes \in Nat /\ failures' + crashes' \in Nat
    BY NextKeepsIInv DEF IInv, TypeOK
<1>3. Cardinality(Loose) \in Nat /\ Cardinality(Loose') \in Nat
    BY <1>1, SomeFiles
<1>4. CASE NoMoreLoose
    <2>1. Cardinality(Loose') <= Cardinality(Loose)
        BY <1>1, <1>4, SomeFiles, FS_Subset DEF NoMoreLoose
    <2>2. failures' + crashes' >= failures + crashes
        BY <1>4 DEF NoMoreLoose
    <2>3. Cardinality(Loose) <= 2 * (failures + crashes)
        BY DEF LooseIsBounded
    <2>4. Cardinality(Loose') <= 2 * (failures' + crashes')
        BY <1>2, <1>3, <2>1, <2>2, <2>3, Bounds
    <2> QED
        BY <2>4 DEF LooseIsBounded
<1>5. CASE TwoMoreLoose
    <2>1. Cardinality(Loose') <= Cardinality(Loose) + 2
        BY <1>1, <1>5, TwoMore DEF TwoMoreLoose
    <2>2. failures' + crashes' = failures + crashes + 1
        BY <1>5 DEF TwoMoreLoose
    <2>3. Cardinality(Loose) <= 2 * (failures + crashes)
        BY DEF LooseIsBounded
    <2>4. Cardinality(Loose') <= 2 * (failures' + crashes')
        BY <1>2, <1>3, <2>1, <2>2, <2>3, Bounds
    <2> QED
        BY <2>4 DEF LooseIsBounded
<1> QED
    BY <1>4, <1>5, StepsLeave

LEMMA InitLoose == Init => LooseIsBounded
<1> SUFFICES ASSUME Init PROVE LooseIsBounded
    OBVIOUS
<1>1. Loose = {}
    BY DEF Init, Loose
<1> QED
    BY <1>1, FS_EmptySet DEF Init, LooseIsBounded

\* What FilesAreOwned leaves out is a part of it: a row or the command at work
\* names every file that is accounted for.
LEMMA LooseIsMore ==
    ASSUME IInv, LooseIsBounded
    PROVE  FilesAreOwned
<1> DEFINE lost == files \ (Owned \union InHand)
<1>1. Shown \subseteq Owned
    BY DEF Shown, Owned, Archived, Files
<1>2. Fresh \union work.remove \subseteq InHand
    BY DEF Fresh, InHand, Files
<1>3. lost \subseteq Loose
    BY <1>1, <1>2 DEF Loose
<1> HIDE DEF lost
<1>4. IsFiniteSet(Loose) /\ Cardinality(Loose) \in Nat
    BY LooseIsFinite, SomeFiles
<1>5. Cardinality(lost) <= Cardinality(Loose) /\ Cardinality(lost) \in Nat
    BY <1>3, <1>4, FS_Subset, FS_CardinalityType
<1>6. Cardinality(lost) <= 2 * (failures + crashes)
    BY <1>4, <1>5, Counters DEF LooseIsBounded
<1> QED
    BY <1>6 DEF FilesAreOwned, lost

-----------------------------------------------------------------------------
(***************************************************************************)
(* The retention count is met.                                             *)
(***************************************************************************)
\* A finite set of rows that is not empty has an oldest.
LEMMA Oldest ==
    ASSUME NEW S, IsFiniteSet(S), S # {}, \A s \in S : s.rev \in Int
    PROVE  \E r \in S : \A s \in S : r.rev <= s.rev
<1> DEFINE Upto(r) == {s \in S : s.rev <= r.rev}
           T == {Upto(r) : r \in S}
<1>1. IsWellFoundedOn(StrictSubsetOrdering(S), FiniteSubsetsOf(S))
    BY FS_StrictSubsetOrderingWellFounded
<1>2. FiniteSubsetsOf(S) = SUBSET S
    BY FS_FiniteSubsetsOfFinite
<1>3. T \subseteq SUBSET S /\ T # {}
    OBVIOUS
<1>4. PICK x \in T : \A y \in T : <<y, x>> \notin StrictSubsetOrdering(S)
    <2> HIDE DEF T
    <2> QED
        BY <1>1, <1>2, <1>3, WFMin
<1>5. \A y \in T : y \subseteq x => y = x
    BY <1>3, <1>4 DEF StrictSubsetOrdering
<1>6. PICK r \in S : x = Upto(r)
    BY <1>4
<1>7. ASSUME NEW s \in S PROVE r.rev <= s.rev
    <2>1. SUFFICES ASSUME s.rev < r.rev PROVE FALSE
        OBVIOUS
    <2>2. Upto(s) \subseteq Upto(r)
        BY <2>1
    <2>3. r \in Upto(r) /\ r \notin Upto(s)
        BY <2>1
    <2> QED
        BY <1>5, <1>6, <2>2, <2>3
<1> QED
    BY <1>7

\* When every archive has less than n newer ones, there are at most n.
LEMMA FewEnough ==
    ASSUME IInv, Retained, NEW n \in Nat, NEW i \in Items,
           \A r \in Archived : Cardinality(Newer(r, Archived)) < n
    PROVE  Cardinality(Of(i, Archived)) <= n
<1> DEFINE S == Of(i, Archived)
<1>1. IsFiniteSet(S)
    BY NewerIsFinite, FS_Subset DEF Of
<1>2. CASE S = {}
    BY <1>2, FS_EmptySet
<1>3. CASE S # {}
    <2>1. \A s \in S : s.rev \in Int /\ s.item = i /\ s \in Archived /\ s \in rows
        BY DEF Of, Archived, IInv, TypeOK, Rows, Times
    <2>2. PICK r \in S : \A s \in S : r.rev <= s.rev
        <3> HIDE DEF S
        <3> QED
            BY <1>1, <1>3, <2>1, Oldest
    <2>3. \A s \in S : s.rev = r.rev => s = r
        BY <2>1 DEF IInv, Tables, Unique, Same
    <2>4. S \subseteq Newer(r, Archived) \union {r}
        BY <2>1, <2>2, <2>3 DEF Newer
    <2> DEFINE N == Newer(r, Archived)
    <2>5. IsFiniteSet(N) /\ Cardinality(N) \in Nat /\ Cardinality(N) < n
        BY <2>1, NewerIsFinite
    <2> HIDE DEF N, S
    <2>6. /\ IsFiniteSet(N \union {r})
          /\ Cardinality(N \union {r}) = Cardinality(N) \/ Cardinality(N \union {r}) = Cardinality(N) + 1
        BY <2>5, FS_AddElement
    <2>7. Cardinality(S) <= Cardinality(N \union {r}) /\ Cardinality(S) \in Nat
        BY <1>1, <2>4, <2>6, FS_Subset, FS_CardinalityType DEF N
    <2>8. Cardinality(S) <= n
        BY <2>5, <2>6, <2>7
    <2> QED
        BY <2>8 DEF S
<1> QED
    BY <1>2, <1>3

\* As long as nothing failed, was cut off or was changed by the user, an item
\* has more archives than the count only from the archive that exceeds it to
\* the end of the retention that follows.
Calm == failures = 0 /\ crashes = 0 /\ changes = 0
Few == \A i \in Items : Cardinality(Of(i, Archived)) <= KeepCount
NothingCounted == work.pc \in {"idle", "load", "query"} \/ (work.pc \in Busy /\ work.count = 0)

Trimmed ==
    Calm =>
        /\ retain = KeepCount
        /\ KeepCount # -1 =>
              /\ NothingCounted => Few
              /\ work.pc \in Retaining =>
                    /\ work.keep = KeepCount
                    /\ \A r \in Archived \ work.todo : Cardinality(Newer(r, Archived)) < KeepCount

LEMMA InitTrimmed == Init => Trimmed
<1> SUFFICES ASSUME Init PROVE Trimmed
    OBVIOUS
<1>1. Archived = {} /\ \A i \in Items : Of(i, Archived) = {}
    BY DEF Init, Archived, Of
<1>2. KeepCount # -1 => KeepCount \in Nat
    BY KeepAssumption
<1>3. KeepCount # -1 => Few
    BY <1>1, <1>2, FS_EmptySet DEF Few
<1> QED
    BY <1>3, IdleIsIdle DEF Init, Trimmed, Retaining

\* Nothing that failed is forgotten, and nobody else changes the count.
LEMMA CalmBefore ==
    ASSUME IInv, [Next]_vars, Calm'
    PROVE  /\ Calm /\ ~Crash /\ ~SetRetain /\ ~Denied
           /\ failures' = failures
<1>1. failures \in Nat /\ crashes \in Nat /\ changes \in Nat
    BY DEF IInv, TypeOK
<1>2. /\ failures' = failures \/ failures' = failures + 1
      /\ crashes' = crashes \/ crashes' = crashes + 1
      /\ changes' = changes \/ changes' = changes + 1
    <2>1. ASSUME NEW i \in Items, Publish(i) \/ AddExtract(i) \/ Unpublish(i) PROVE <1>2!:
        BY <2>1 DEF Publish, AddExtract, Unpublish
    <2>2. CASE SetRetain \/ ImportWorkbooks \/ ImportDataSources \/ Fixup \/ Refresh \/ Query \/ Disabled \/ Crash
               \/ UNCHANGED vars
        BY <2>2 DEF SetRetain, ImportWorkbooks, ImportDataSources, Import, Fixup, Refresh, Query, Disabled, Crash, vars
    <2>3. CASE Archive
        BY <2>3 DEF Archive, FetchWorkbook, FetchDataSource, FetchExtract, Got, Fails, NotFound, Denied
    <2>4. CASE LoadRow \/ LoadDone \/ EndLoop \/ Place \/ PlaceOriginal \/ Record
               \/ Drop \/ RemoveFile \/ EndRetention
        BY <2>4 DEF LoadRow, LoadDone, EndLoop, Place, PlaceOriginal, Record, Drop, RemoveFile, EndRetention
    <2> QED
        BY <2>1, <2>2, <2>3, <2>4 DEF Next, Step
<1> QED
    BY <1>1, <1>2 DEF Calm, Crash, SetRetain, Denied

\* Steps of a command before its retention: they keep the archives as they are,
\* and count nothing that they had not counted before.
LEMMA CountingTrims ==
    ASSUME Trimmed, Calm, retain' = retain, Archived' = Archived,
           work.pc \notin Retaining, work'.pc \notin Retaining,
           NothingCounted' => NothingCounted
    PROVE  Trimmed'
BY DEF Trimmed, Few, Of

LEMMA BeforeRetentionTrims ==
    ASSUME IInv, Awaiting, Retained, Trimmed, [Next]_vars, Calm', Calm,
           \/ ImportWorkbooks \/ ImportDataSources \/ Fixup \/ Refresh \/ Query \/ LoadRow \/ LoadDone
           \/ Place \/ PlaceOriginal
    PROVE  Trimmed'
<1>1. work \in Works
    BY DEF IInv, TypeOK
<1>2. work.pc \in {"idle", "load", "query"} \union AtWork
    BY DEF ImportWorkbooks, ImportDataSources, Import, Fixup, Refresh, Query, LoadRow, LoadDone,
           Place, PlaceOriginal, AtWork
<1>3. ~Record /\ ~Drop
    <2>1. work.pc = "record" => FALSE
        BY DEF ImportWorkbooks, ImportDataSources, Import, Fixup, Refresh, Query, LoadRow, LoadDone,
               Place, PlaceOriginal
    <2> QED
        BY <1>2, <2>1 DEF Record, Drop, AtWork
<1>4. Archived' = Archived
    BY <1>3, ArchivedStays
<1>5. retain' = retain
    BY DEF ImportWorkbooks, ImportDataSources, Import, Fixup, Refresh, Query, LoadRow, LoadDone,
           Place, PlaceOriginal
<1>6. work'.pc \notin Retaining
    BY OtherStepsRetain
<1>7. CASE work.pc \in {"idle", "load", "query"}
    BY <1>4, <1>5, <1>6, <1>7, CountingTrims DEF NothingCounted, Retaining
<1>8. CASE work.pc \in AtWork
    <2>1. Place \/ PlaceOriginal
        BY <1>8 DEF ImportWorkbooks, ImportDataSources, Import, Fixup, Refresh, Query, LoadRow, LoadDone, AtWork
    <2>2. work'.pc \in AtWork /\ work'.count = work.count
        BY <1>1, <2>1 DEF Place, PlaceOriginal, Works, AtWork
    <2> QED
        BY <1>4, <1>5, <1>6, <1>8, <2>2, CountingTrims DEF NothingCounted, Busy, AtWork, Retaining
<1> QED
    BY <1>2, <1>7, <1>8

LEMMA ArchiveTrims ==
    ASSUME IInv, Awaiting, Retained, Trimmed, [Next]_vars, Calm', Calm, Archive
    PROVE  Trimmed'
<1>1. work.pc = "each" /\ work \in Works
    BY DEF Archive, IInv, TypeOK
<1>2. Archived' = Archived
    BY <1>1, ArchivedStays DEF Record, Drop
<1>3. PICK c \in work.todo : Got(c) \/ NotFound(c, 0) \/ NotFound(c, 1)
    BY CalmBefore, Counters DEF Archive, FetchWorkbook, FetchDataSource, FetchExtract, Fails
<1>4. retain' = retain
    BY <1>3 DEF Got, NotFound
<1>5. work'.pc \in Busy /\ (work'.count = 0 => work.count = 0)
    <2>1. CASE Got(c)
        BY <1>1, <2>1 DEF Got, Works, Busy, AtWork
    <2>2. CASE NotFound(c, 0) \/ NotFound(c, 1)
        <3>1. PICK n \in {0, 1} : work' = [work EXCEPT !.todo = @ \ {c}, !.count = @ + n]
            BY <2>2 DEF NotFound
        <3>2. work'.pc = "each" /\ work'.count = work.count + n /\ work.count \in Nat
            BY <1>1, <3>1 DEF Works
        <3> QED
            BY <3>2 DEF Busy
    <2> QED
        BY <1>3, <2>1, <2>2
<1> QED
    BY <1>1, <1>2, <1>4, <1>5, CountingTrims DEF NothingCounted, Busy, AtWork, Retaining

LEMMA RecordTrims ==
    ASSUME IInv, Trimmed, Calm, Record
    PROVE  Trimmed'
<1>1. work'.pc = "each" /\ work'.count = work.count + 1 /\ work.count \in Nat /\ retain' = retain
    BY DEF Record, IInv, TypeOK, Works
<1>2. work'.count # 0
    BY <1>1
<1> QED
    BY <1>1, <1>2 DEF Trimmed, NothingCounted, Busy, AtWork, Retaining

LEMMA EndLoopTrims ==
    ASSUME IInv, Retained, Trimmed, Calm, EndLoop
    PROVE  Trimmed'
<1>1. work.pc = "each" /\ retain' = retain /\ rows' = rows /\ work' = Retention
    BY DEF EndLoop
<1>2. Archived' = Archived
    BY <1>1 DEF Archived
<1>3. retain = KeepCount /\ KeepCount # 0
    BY Constants DEF Trimmed
<1>4. CASE KeepCount = -1
    BY <1>1, <1>3, <1>4 DEF Trimmed
<1>5. CASE KeepCount # -1 /\ work.count = 0
    <2>1. work' = Idle /\ Few
        BY <1>1, <1>5 DEF Retention, Trimmed, NothingCounted, Busy
    <2> QED
        BY <1>1, <1>2, <1>3, <2>1, IdleIsIdle DEF Trimmed, Few, Of, Retaining
<1>6. CASE KeepCount # -1 /\ work.count # 0
    <2>1. work' = [Idle EXCEPT !.pc = "drop", !.keep = retain, !.todo = Excess(retain)]
        BY <1>1, <1>3, <1>6 DEF Retention
    <2>2. work'.pc = "drop" /\ work'.keep = KeepCount /\ work'.todo = Excess(KeepCount)
        BY <1>3, <2>1, IdleIsIdle DEF Works
    <2>3. ASSUME NEW r \in Archived \ Excess(KeepCount)
          PROVE  Cardinality(Newer(r, Archived)) < KeepCount
        <3>1. Newer(r, Archived) = {s \in Of(r.item, Archived) : s.rev > r.rev}
            BY DEF Newer, Of
        <3>2. ~(Cardinality(Newer(r, Archived)) >= KeepCount)
            BY <3>1 DEF Excess
        <3>3. Cardinality(Newer(r, Archived)) \in Int /\ KeepCount \in Int
            BY NewerIsFinite, KeepAssumption
        <3> QED
            BY <3>2, <3>3
    <2> QED
        BY <1>1, <1>2, <1>3, <2>2, <2>3 DEF Trimmed, NothingCounted, Busy, AtWork, Newer
<1> QED
    BY <1>4, <1>5, <1>6

LEMMA DropTrims ==
    ASSUME IInv, Retained, Trimmed, Calm, Drop
    PROVE  Trimmed'
<1>1. PICK r \in work.todo :
         /\ rows' = rows \ {r}
         /\ work' = [work EXCEPT !.pc = "remove", !.todo = @ \ {r},
                                 !.remove = {r.file, r.original} \ {0}]
    BY DEF Drop
<1>2. /\ work.pc = "drop" /\ work'.pc = "remove" /\ work'.todo = work.todo \ {r}
      /\ work'.keep = work.keep /\ retain' = retain
    BY <1>1 DEF Drop, IInv, TypeOK, Works
<1>3. Archived' = Archived \ {r}
    BY <1>1 DEF Archived
<1>4. ASSUME KeepCount # -1, NEW s \in Archived' \ work'.todo
      PROVE  Cardinality(Newer(s, Archived')) < KeepCount
    <2>1. s \in Archived \ work.todo
        BY <1>2, <1>3
    <2>2. Cardinality(Newer(s, Archived)) < KeepCount
        BY <1>2, <1>4, <2>1 DEF Trimmed, Retaining
    <2>3. Newer(s, Archived') \subseteq Newer(s, Archived)
        BY <1>3 DEF Newer
    <2>4. /\ Cardinality(Newer(s, Archived')) <= Cardinality(Newer(s, Archived))
          /\ Cardinality(Newer(s, Archived')) \in Nat /\ Cardinality(Newer(s, Archived)) \in Nat
        BY <2>3, NewerIsFinite, FS_Subset, FS_CardinalityType
    <2>5. KeepCount \in Int
        BY KeepAssumption
    <2> QED
        BY <2>2, <2>4, <2>5
<1>5. KeepCount # -1 => work.keep = KeepCount
    BY <1>2 DEF Trimmed, Retaining
<1> QED
    BY <1>2, <1>4, <1>5 DEF Trimmed, NothingCounted, Busy, AtWork

LEMMA RemoveFileTrims ==
    ASSUME IInv, Trimmed, Calm, RemoveFile
    PROVE  Trimmed'
<1>1. work.pc \in Retaining /\ work'.pc \in Retaining /\ work'.keep = work.keep /\ work'.todo = work.todo
    BY RemoveFileRetains
<1>2. Archived' = Archived /\ retain' = retain
    BY DEF RemoveFile, Archived
<1> QED
    BY <1>1, <1>2 DEF Trimmed, NothingCounted, Busy, AtWork, Retaining, Newer

LEMMA EndRetentionTrims ==
    ASSUME IInv, Retained, Trimmed, Calm, EndRetention
    PROVE  Trimmed'
<1>1. work.pc = "drop" /\ work.todo = {} /\ work' = Idle /\ rows' = rows /\ retain' = retain
    BY DEF EndRetention
<1>2. Archived' = Archived
    BY <1>1 DEF Archived
<1>3. ASSUME KeepCount # -1 PROVE Few
    <2>1. \A r \in Archived : Cardinality(Newer(r, Archived)) < KeepCount
        BY <1>1, <1>3 DEF Trimmed, Retaining
    <2>2. KeepCount \in Nat
        BY <1>3, KeepAssumption
    <2> QED
        BY <2>1, <2>2, FewEnough DEF Few
<1> QED
    BY <1>1, <1>2, <1>3, IdleIsIdle DEF Trimmed, Few, Of, Retaining

LEMMA NextTrimmed == IInv /\ Awaiting /\ Retained /\ Trimmed /\ [Next]_vars => Trimmed'
<1> SUFFICES ASSUME IInv, Awaiting, Retained, Trimmed, [Next]_vars, Calm' PROVE Trimmed'
    BY DEF Trimmed
<1>1. Calm /\ ~Crash /\ ~SetRetain
    BY CalmBefore
<1>2. CASE work' = work /\ retain' = retain
    <2>1. CASE Record \/ Drop
        BY <1>1, <2>1, RecordTrims, DropTrims
    <2>2. CASE ~Record /\ ~Drop
        <3>1. Archived' = Archived
            BY <2>2, ArchivedStays
        <3> QED
            BY <1>1, <1>2, <3>1 DEF Trimmed, NothingCounted, Few, Of, Newer
    <2> QED
        BY <2>1, <2>2
<1>3. ASSUME NEW i \in Items, Publish(i) \/ AddExtract(i) \/ Unpublish(i)
      PROVE  work' = work /\ retain' = retain
    BY <1>3 DEF Publish, AddExtract, Unpublish
<1>4. CASE Disabled \/ UNCHANGED vars
    BY <1>2, <1>4 DEF Disabled, vars
<1> QED
    BY <1>1, <1>2, <1>3, <1>4, BeforeRetentionTrims, ArchiveTrims, RecordTrims, EndLoopTrims,
       DropTrims, RemoveFileTrims, EndRetentionTrims DEF Next, Step

LEMMA TrimmedIsMore ==
    ASSUME IInv, Trimmed
    PROVE  ExcessIsRemoved
<1> SUFFICES ASSUME work.pc = "idle", failures + crashes + changes = 0, retain # -1
             PROVE  \A i \in Items : Cardinality(Of(i, Archived)) <= retain
    BY DEF ExcessIsRemoved
<1>1. Calm
    BY DEF Calm, IInv, TypeOK
<1> QED
    BY <1>1 DEF Trimmed, Few, NothingCounted

\* Nothing stays that should be gone (_retain_some, remove_file_by_id): a file
\* loses its owner only when it cannot be removed or when the controller ends,
\* two at most each time; and a command that nothing interferes with leaves no
\* more archives of an item than the retention count.
THEOREM NothingStays == Spec => []NothingIsLeft
<1> DEFINE Inv == IInv /\ Awaiting /\ Retained /\ LooseIsBounded /\ Trimmed
<1>1. Init => Inv
    BY InitIInv, InitAwaiting, InitRetained, InitLoose, InitTrimmed
<1>2. Inv /\ [Next]_vars => Inv'
    BY NextKeepsIInv, NextAwaiting, NextRetained, NextLoose, NextTrimmed
<1>3. Inv => NothingIsLeft
    BY LooseIsMore, TrimmedIsMore DEF NothingIsLeft, IInv
<1> QED
    BY <1>1, <1>2, <1>3, PTL DEF Spec

-----------------------------------------------------------------------------
(***************************************************************************)
(* The archives implement ArchiveStore.  Besides the count that retention  *)
(* leaves, this needs that what it has still to drop are the oldest        *)
(* archives: no older one of the same item is kept.                        *)
(***************************************************************************)
OldestFirst ==
    work.pc \in Retaining =>
        /\ KeepCount # -1 /\ work.keep = KeepCount
        /\ \A a \in Archived, r \in work.todo : a.item = r.item /\ a.rev < r.rev => a \in work.todo

LEMMA InitOldest == Init => OldestFirst
BY IdleIsIdle DEF Init, OldestFirst, Retaining

LEMMA ExcessIsOld ==
    ASSUME IInv, Retained, NEW keep \in Int,
           NEW r \in Excess(keep), NEW a \in Archived, a.item = r.item, a.rev < r.rev
    PROVE  a \in Excess(keep)
<1>1. \A s \in Archived : s.rev \in Int
    BY DEF Archived, IInv, TypeOK, Rows, Times
<1>2. r \in Archived
    BY DEF Excess
<1>3. \A q : Newer(q, Archived) = {s \in Of(q.item, Archived) : s.rev > q.rev}
    BY DEF Newer, Of
<1>4. Newer(r, Archived) \subseteq Newer(a, Archived)
    BY <1>1, <1>2 DEF Newer
<1>5. /\ Cardinality(Newer(r, Archived)) <= Cardinality(Newer(a, Archived))
      /\ Cardinality(Newer(r, Archived)) \in Int /\ Cardinality(Newer(a, Archived)) \in Int
    BY <1>4, NewerIsFinite, FS_Subset
<1>6. Cardinality(Newer(r, Archived)) >= keep
    BY <1>3 DEF Excess
<1>7. Cardinality(Newer(a, Archived)) >= keep
    BY <1>5, <1>6
<1> QED
    BY <1>3, <1>7 DEF Excess

LEMMA EndLoopOldest ==
    ASSUME IInv, Retained, EndLoop
    PROVE  OldestFirst'
<1>1. CASE work' = Idle
    BY <1>1, IdleIsIdle DEF OldestFirst, Retaining
<1>2. CASE /\ retain \notin {0, -1}
           /\ work' = [Idle EXCEPT !.pc = "drop", !.keep = retain, !.todo = Excess(retain)]
    <2>1. work'.todo = Excess(retain) /\ work'.keep = retain
        BY <1>2, IdleIsIdle DEF Works
    <2>2. Archived' = Archived
        BY DEF EndLoop, Archived
    <2>3. retain = KeepCount /\ KeepCount # -1 /\ KeepCount \in Int
        BY <1>2, KeepAssumption DEF IInv, TypeOK
    <2>4. \A a \in Archived, r \in Excess(retain) :
             a.item = r.item /\ a.rev < r.rev => a \in Excess(retain)
        BY <2>3, ExcessIsOld
    <2> QED
        BY <2>1, <2>2, <2>3, <2>4 DEF OldestFirst
<1> QED
    BY <1>1, <1>2 DEF EndLoop, Retention

LEMMA NextOldest == IInv /\ Awaiting /\ Retained /\ OldestFirst /\ [Next]_vars => OldestFirst'
<1> SUFFICES ASSUME IInv, Awaiting, Retained, OldestFirst, [Next]_vars PROVE OldestFirst'
    OBVIOUS
<1>1. CASE Drop
    <2>1. PICK r \in work.todo :
             /\ rows' = rows \ {r}
             /\ work' = [work EXCEPT !.pc = "remove", !.todo = @ \ {r},
                                     !.remove = {r.file, r.original} \ {0}]
        BY <1>1 DEF Drop
    <2>2. work.pc \in Retaining /\ work'.todo = work.todo \ {r} /\ work'.keep = work.keep
        BY <1>1, <2>1 DEF Drop, IInv, TypeOK, Works, Retaining
    <2>3. Archived' = Archived \ {r}
        BY <2>1 DEF Archived
    <2> QED
        BY <2>2, <2>3 DEF OldestFirst
<1>2. CASE \/ ImportWorkbooks \/ ImportDataSources \/ Fixup \/ Refresh \/ Query \/ LoadRow \/ LoadDone
           \/ Archive \/ Place \/ PlaceOriginal \/ Record \/ EndRetention \/ Crash
    BY <1>2, OtherStepsRetain DEF OldestFirst
<1>3. CASE RemoveFile
    <2>1. Archived' = Archived
        BY <1>3 DEF RemoveFile, Archived
    <2> QED
        BY <1>3, <2>1, RemoveFileRetains DEF OldestFirst
<1>4. CASE work' = work
    <2>1. ~Record /\ ~Drop => Archived' = Archived
        BY ArchivedStays
    <2>2. ~Record /\ ~Drop => OldestFirst'
        BY <1>4, <2>1 DEF OldestFirst
    <2> QED
        BY <1>1, <1>2, <2>2
<1>5. ASSUME NEW i \in Items, Publish(i) \/ AddExtract(i) \/ Unpublish(i) PROVE work' = work
    BY <1>5 DEF Publish, AddExtract, Unpublish
<1>6. CASE SetRetain \/ Disabled \/ UNCHANGED vars
    BY <1>4, <1>6 DEF SetRetain, Disabled, vars
<1> QED
    BY <1>1, <1>2, <1>3, <1>4, <1>5, <1>6, EndLoopOldest DEF Next, Step

LEMMA OldestAlways == Spec => [](IInv /\ Awaiting /\ Retained /\ OldestFirst)
<1>1. Init => IInv /\ Awaiting /\ Retained /\ OldestFirst
    BY InitIInv, InitAwaiting, InitRetained, InitOldest
<1>2. IInv /\ Awaiting /\ Retained /\ OldestFirst /\ [Next]_vars
        => (IInv /\ Awaiting /\ Retained /\ OldestFirst)'
    BY NextKeepsIInv, NextAwaiting, NextRetained, NextOldest
<1> QED
    BY <1>1, <1>2, PTL DEF Spec

\* What ArchiveStore sees.
Kept == [i \in Items |-> RevisionsOf(i)]

LEMMA ArchivedRows ==
    ASSUME IInv, NEW r \in Archived
    PROVE  r \in rows /\ r \in Rows /\ r.item \in Items /\ r.rev \in 0 .. MaxPublished
BY Constants DEF Archived, IInv, TypeOK, Rows, Times

LEMMA RecordAdds ==
    ASSUME IInv, Awaiting, Record
    PROVE  \E i \in Items : \E t \in (0 .. MaxPublished) \ Kept[i] :
               Kept' = [Kept EXCEPT ![i] = @ \union {t}]
<1> DEFINE row == [work.row EXCEPT !.done = TRUE]
<1>1. work.pc = "record" /\ Put(row)
    BY DEF Record
<1>2. PICK i \in Items, t \in 0 .. MaxPublished :
         /\ Same(row, work.row) /\ row.done /\ row.item = i /\ row.rev = t
         /\ work.row.item = i /\ work.row.rev = t
    BY Constants DEF IInv, TypeOK, Works, Rows, Same, Times
<1> HIDE DEF row
<1>3. \A r \in Archived : ~Same(r, work.row)
    BY <1>1 DEF Awaiting, AtWork, Archived
<1>4. Archived' = Archived \union {row}
    BY <1>1, <1>2, <1>3, PutRows DEF AtWork, Archived
<1>5. t \notin RevisionsOf(i)
    BY <1>2, <1>3 DEF RevisionsOf, Of, Same
<1>6. RevisionsOf(i)' = RevisionsOf(i) \union {t}
    BY <1>2, <1>4 DEF RevisionsOf, Of
<1>7. ASSUME NEW j \in Items \ {i} PROVE RevisionsOf(j)' = RevisionsOf(j)
    BY <1>2, <1>4 DEF RevisionsOf, Of
<1>8. Kept' = [Kept EXCEPT ![i] = @ \union {t}]
    BY <1>2, <1>6, <1>7 DEF Kept
<1>9. Kept[i] = RevisionsOf(i)
    BY <1>2 DEF Kept
<1> QED
    BY <1>2, <1>5, <1>8, <1>9

\* The rows that are newer than r are as many as their revisions.
LEMMA NewerRevisions ==
    ASSUME IInv, Retained, NEW r \in Archived
    PROVE  Cardinality({s.rev : s \in Newer(r, Archived)}) = Cardinality(Newer(r, Archived))
<1> DEFINE S == Newer(r, Archived)
           T == {s.rev : s \in S}
           f == [s \in S |-> s.rev]
<1>1. IsFiniteSet(S)
    BY NewerIsFinite
<1>2. \A s \in S, u \in S : s.rev = u.rev => s = u
    <2>1. \A s \in S : s \in rows /\ s.item = r.item
        BY DEF Newer, Archived
    <2> QED
        BY <2>1 DEF IInv, Tables, Unique, Same
<1>3. f \in Bijection(S, T)
    BY <1>2 DEF Bijection, Injection, Surjection, IsInjective
<1>4. ExistsBijection(S, T)
    BY <1>3 DEF ExistsBijection
<1> QED
    BY <1>1, <1>4, FS_Bijection

LEMMA DropTakesOldest ==
    ASSUME IInv, Awaiting, Retained, OldestFirst, Drop
    PROVE  /\ KeepCount # -1
           /\ \E i \in Items : \E t \in Kept[i] :
                 /\ \A u \in Kept[i] : t <= u
                 /\ Cardinality(Kept[i] \ {t}) >= KeepCount
                 /\ Kept' = [Kept EXCEPT ![i] = @ \ {t}]
<1>1. PICK r \in work.todo :
         /\ \A s \in Of(r.item, work.todo) : r.rev <= s.rev
         /\ rows' = rows \ {r}
    BY DEF Drop
<1> DEFINE i == r.item
           t == r.rev
<1>2. work.pc = "drop" /\ work.pc \in Retaining
    BY DEF Drop, Retaining
<1>3. r \in Archived /\ i \in Items /\ t \in Int
    BY <1>2, ToDrop, ArchivedRows
<1>4. Archived' = Archived \ {r}
    BY <1>1 DEF Archived
<1>5. \A s \in Archived : s.rev \in Int
    BY ArchivedRows
<1>6. \A s \in Archived : s.item = i /\ s.rev = t => s = r
    BY <1>3 DEF IInv, Tables, Unique, Same, Archived
<1>7. \A s \in Archived : s.item = i => t <= s.rev
    <2> SUFFICES ASSUME NEW s \in Archived, s.item = i, s.rev < t
                 PROVE  FALSE
        BY <1>3, <1>5
    <2>1. s \in work.todo
        BY <1>2 DEF OldestFirst
    <2>2. t <= s.rev
        BY <1>1, <2>1 DEF Of
    <2> QED
        BY <1>3, <1>5, <2>2
<1>8. Kept[i] \ {t} = {s.rev : s \in Newer(r, Archived)}
    <2>1. Kept[i] = {s.rev : s \in Of(i, Archived)}
        BY <1>3 DEF Kept, RevisionsOf
    <2>2. \A s \in Archived : s.item = i /\ s.rev # t <=> s \in Newer(r, Archived)
        BY <1>3, <1>5, <1>7 DEF Newer
    <2> QED
        BY <2>1, <2>2 DEF Of, Newer
<1>9. Cardinality(Kept[i] \ {t}) >= KeepCount
    BY <1>2, <1>3, <1>8, NewerRevisions DEF Retained, OldestFirst
<1>10. RevisionsOf(i)' = RevisionsOf(i) \ {t}
    BY <1>4, <1>6 DEF RevisionsOf, Of
<1>11. ASSUME NEW j \in Items \ {i} PROVE RevisionsOf(j)' = RevisionsOf(j)
    BY <1>4 DEF RevisionsOf, Of
<1>12. Kept' = [Kept EXCEPT ![i] = @ \ {t}]
    BY <1>3, <1>10, <1>11 DEF Kept
<1>13. t \in Kept[i] /\ \A u \in Kept[i] : t <= u
    BY <1>3, <1>7 DEF Kept, RevisionsOf, Of
<1> QED
    BY <1>2, <1>3, <1>9, <1>12, <1>13 DEF OldestFirst

\* ArchiveStore counts as this module does.
LEMMA SameCount ==
    ASSUME NEW S
    PROVE  Store!Cardinality(S) = Cardinality(S)
BY DEF Store!Cardinality, Cardinality

LEMMA StepRefines ==
    IInv /\ Awaiting /\ Retained /\ OldestFirst /\ [Next]_vars => [Store!Next]_Kept
<1> SUFFICES ASSUME IInv, Awaiting, Retained, OldestFirst, [Next]_vars
             PROVE  Store!Next \/ Kept' = Kept
    OBVIOUS
<1>1. CASE Record
    BY <1>1, RecordAdds DEF Store!Next, Store!Add, Kept
<1>2. CASE Drop
    <2>1. KeepCount # -1
        BY <1>2, DropTakesOldest
    <2>2. PICK i \in Items : \E t \in Kept[i] :
                 /\ \A u \in Kept[i] : t <= u
                 /\ Store!Cardinality(Kept[i] \ {t}) >= KeepCount
                 /\ Kept' = [Kept EXCEPT ![i] = @ \ {t}]
        BY <1>2, DropTakesOldest, SameCount
    <2>3. Store!TakeOldest(i)
        BY <2>1, <2>2 DEF Store!TakeOldest, Kept
    <2> QED
        BY <2>3 DEF Store!Next
<1>3. CASE ~Record /\ ~Drop
    <2>1. Archived' = Archived
        BY <1>3, ArchivedStays
    <2> QED
        BY <2>1 DEF Kept, RevisionsOf, Of
<1> QED
    BY <1>1, <1>2, <1>3

\* A manager keeps the promise of ArchiveStore, for any items, limits and
\* retention count: an archive is taken only by a retention that leaves the
\* count of newer ones, the oldest first, and no 404, pruning, failed fetch,
\* import or end of the controller takes one at all (_retain_some,
\* _archive_wb, _prune_missed_revisions).
THEOREM StoreIsKept == Spec => ImplementsStore
<1>1. Init => Store!Init
    BY DEF Init, Store!Init, RevisionsOf, Of, Archived
<1>2. Spec => [][Store!Next]_Kept
    BY StepRefines, OldestAlways, PTL DEF Spec
<1> QED
    BY <1>1, <1>2, PTL DEF Spec, ImplementsStore, Store!Spec, Kept
=============================================================================
