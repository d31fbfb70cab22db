------------------------------- MODULE Archives -------------------------------
(***************************************************************************)
(* The archives of workbooks (workbooks.py), data sources (datasources.py) *)
(* and extract refreshes (extract_archive.py).  Each manager keeps a table *)
(* of revisions: a row is added when Tableau's own tables show a newer     *)
(* publication (or an extract finishes), its file is fetched from Tableau  *)
(* with tabcmd, placed on the storage the user chose, and the oldest files *)
(* beyond the retention count are removed again.                           *)
(*                                                                         *)
(* A behaviour is about one of the three managers: they share no row and   *)
(* no file.  A manager's lock is tried, never waited for (manager.py), so  *)
(* one command of a manager works at a time, interleaved with Tableau, the *)
(* user and the end of the controller: an exception that no handler of the *)
(* command catches ends the process (clihandler.py, os._exit(92)).         *)
(*                                                                         *)
(* A revision is named by the time of its publication (for an extract the  *)
(* number of its row): it grows with every publication.                    *)
(***************************************************************************)
EXTENDS Integers, FiniteSets

CONSTANTS
    Items,        \* the workbooks or data sources
    Samples,      \* those of them in the project "Tableau Samples"
    KeepCount,    \* the retention count the user sets
    FileIds,      \* bound: the ids of the files table
    MaxPublished, \* bound: publications
    MaxFailures,  \* bound: failures of an agent, of Tableau or of a storage
    MaxCrashes,   \* bound: ends of the controller
    MaxChanges    \* bound: changes of the retention count by the user

ASSUME ItemAssumption == Items # {}
\* What the settings page offers besides 'Disabled' (general.py:46-55): a count, or -1 for 'All'.
ASSUME KeepAssumption == KeepCount \in (Nat \ {0}) \union {-1}
ASSUME SampleAssumption == Samples \subseteq Items
ASSUME FileAssumption == IsFiniteSet(FileIds) /\ FileIds \subseteq Nat \ {0}
ASSUME BoundAssumption ==
    {MaxPublished, MaxFailures, MaxCrashes, MaxChanges} \subseteq Nat

Kinds == {"workbook", "datasource", "extract"}
Times == 1..MaxPublished

VARIABLES
    kind,      \* the manager this behaviour is about
    tableau,   \* Tableau's own table: when an item was last published, 0 when it is not there
    known,     \* the controller's copy of it: updated_at of the item's row, 0 without a row
    rows,      \* workbook_updates, datasource_updates or *_extracts
    files,     \* the ids in the files table
    retain,    \* the retention count: 0 disables, -1 keeps everything
    work,      \* the command at work
    published, \* publications so far
    failures, crashes, changes  \* their counts

vars == <<kind, tableau, known, rows, files, retain, work, published,
          failures, crashes, changes>>

\* A row: done when its url (an extract's fileid) is set.
Row(i, t) == [item |-> i, rev |-> t, done |-> FALSE, file |-> 0, original |-> 0]

\* new: the row added to the session and not yet written; updates: the rows
\* this import added; row: the one at work, as it will be written.
Idle == [pc |-> "idle", todo |-> {}, new |-> {}, updates |-> {},
         row |-> Row(CHOOSE i \in Items : TRUE, 0), count |-> 0, keep |-> 0, remove |-> {}]

Rows == [item : Items, rev : {0} \union Times, done : BOOLEAN,
         file : {0} \union FileIds, original : {0} \union FileIds]

Works ==
    [pc : {"idle", "load", "query", "each", "place", "original", "record", "drop", "remove"},
     todo : SUBSET Rows, new : SUBSET Rows, updates : SUBSET Rows, row : Rows,
     count : Nat, keep : {0, KeepCount}, remove : SUBSET FileIds]

TypeOK ==
    /\ kind \in Kinds
    /\ tableau \in [Items -> {0} \union Times] /\ known \in [Items -> {0} \union Times]
    /\ rows \subseteq Rows
    /\ files \subseteq FileIds
    /\ retain \in {0, KeepCount}
    /\ work \in Works
    /\ published \in {0} \union Times
    /\ failures \in Nat /\ crashes \in Nat /\ changes \in Nat

Init ==
    /\ kind \in Kinds
    /\ tableau = [i \in Items |-> 0] /\ known = [i \in Items |-> 0]
    /\ rows = {} /\ files = {} /\ retain = KeepCount
    /\ work = Idle
    /\ published = 0 /\ failures = 0 /\ crashes = 0 /\ changes = 0

-----------------------------------------------------------------------------
(***************************************************************************)
(* Tables                                                                  *)
(***************************************************************************)
Of(i, set) == {r \in set : r.item = i}
Archived == {r \in rows : r.done}
Unarchived == {r \in rows : ~r.done}

\* get_last_updated_at: the newest time of the controller's table.
Cursor == CHOOSE t \in {known[i] : i \in Items} : \A i \in Items : known[i] <= t

\* _prune_missed_revisions, _prune_all_missed_extracts: of the rows without
\* an archive only the newest of each item stays.
Missed(set) == {r \in set : ~r.done /\ \E s \in Of(r.item, set) : ~s.done /\ s.rev > r.rev}

\* Mutants: one archive too many stays; the newest go first (order by desc).
Excess_OneMore(keep) ==
    {r \in Archived : Cardinality({s \in Of(r.item, Archived) : s.rev > r.rev}) > keep}
Excess_NewestFirst(keep) ==
    {r \in Archived : Cardinality({s \in Of(r.item, Archived) : s.rev < r.rev}) >= keep}

\* The rows beyond the retention count, the oldest of each item.
Excess(keep) ==
    {r \in Archived : Cardinality({s \in Of(r.item, Archived) : s.rev > r.rev}) >= keep}

Owned == (UNION {{r.file, r.original} : r \in rows}) \ {0}
InHand == work.remove \union ({work.row.file, work.row.original} \ {0})

FreeId == CHOOSE f \in FileIds : f \notin files \union Owned \union InHand
HasFreeId == FileIds \ (files \union Owned \union InHand) # {}

-----------------------------------------------------------------------------
(***************************************************************************)
(* Tableau and the user                                                    *)
(***************************************************************************)
Publish(i) ==
    /\ kind # "extract" /\ published < MaxPublished
    /\ published' = published + 1
    /\ tableau' = [tableau EXCEPT ![i] = published']
    /\ UNCHANGED <<kind, known, rows, files, retain, work, failures, crashes, changes>>

\* An extract refresh finished: ExtractManager adds the row at once, under a
\* lock of its own, when the archives are enabled.
AddExtract(i) ==
    /\ kind = "extract" /\ published < MaxPublished
    /\ published' = published + 1
    /\ tableau' = [tableau EXCEPT ![i] = published']
    /\ rows' = IF retain = 0 THEN rows ELSE rows \union {Row(i, published')}
    /\ UNCHANGED <<kind, known, files, retain, work, failures, crashes, changes>>

Unpublish(i) ==
    /\ tableau[i] # 0
    /\ tableau' = [tableau EXCEPT ![i] = 0]
    /\ UNCHANGED <<kind, known, rows, files, retain, work, published, failures, crashes, changes>>

SetRetain ==
    /\ changes < MaxChanges
    /\ changes' = changes + 1
    /\ retain' \in {0, KeepCount} \ {retain}
    /\ UNCHANGED <<kind, tableau, known, rows, files, work, published, failures, crashes>>

-----------------------------------------------------------------------------
(***************************************************************************)
(* Import: the rows of what was published since the cursor                 *)
(***************************************************************************)
Import(set) ==
    /\ work.pc = "idle"
    /\ work' = [Idle EXCEPT !.pc = "load",
                            !.todo = {Row(i, tableau[i]) :
                                         i \in {j \in set : tableau[j] > Cursor}}]
    /\ UNCHANGED <<kind, tableau, known, rows, files, retain, published, failures, crashes, changes>>

\* The workbooks of Tableau's sample project are passed over every time.
ImportWorkbooks == kind = "workbook" /\ Import(Items \ Samples)
ImportDataSources == kind = "datasource" /\ Import(Items)

\* One row of Tableau's answer.  Its commit also writes the revision that the
\* row before it added to the session.
LoadRow ==
    /\ work.pc = "load"
    /\ \E c \in work.todo :
         /\ known' = [known EXCEPT ![c.item] = c.rev]
         /\ rows' = rows \union work.new
         /\ LET new == IF \E r \in rows' : r.item = c.item /\ r.rev = c.rev THEN {} ELSE {c}
            IN  work' = [work EXCEPT !.todo = @ \ {c}, !.new = new, !.updates = @ \union new]
    /\ UNCHANGED <<kind, tableau, files, retain, published, failures, crashes, changes>>

\* The last commit and the pruning; then the new rows are archived, if the
\* archives are enabled and there are credentials for tabcmd.
LoadDone ==
    /\ work.pc = "load" /\ work.todo = {}
    /\ LET all == rows \union work.new
       IN  rows' = all \ Missed(all)
    /\ \/ /\ retain # 0
          /\ work' = [work EXCEPT !.pc = "each", !.todo = work.updates, !.new = {}]
          /\ UNCHANGED failures
       \/ /\ retain = 0
          /\ work' = Idle
          /\ UNCHANGED failures
       \/ /\ retain # 0 /\ failures < MaxFailures
          /\ failures' = failures + 1
          /\ work' = Idle
    /\ UNCHANGED <<kind, tableau, known, files, retain, published, crashes, changes>>

-----------------------------------------------------------------------------
(***************************************************************************)
(* Fixup (and the archives of extracts): everything not archived yet       *)
(***************************************************************************)
\* Mutant: only rows whose url is NULL, not those with an empty one.
Fixup_OnlyNull ==
    /\ kind # "extract" /\ work.pc = "idle" /\ retain # 0
    /\ work' = [Idle EXCEPT !.pc = "each"]
    /\ UNCHANGED <<kind, tableau, known, rows, files, retain, published, failures, crashes, changes>>

Fixup ==
    /\ kind # "extract" /\ work.pc = "idle" /\ retain # 0
    /\ work' = [Idle EXCEPT !.pc = "each", !.todo = Unarchived]
    /\ UNCHANGED <<kind, tableau, known, rows, files, retain, published, failures, crashes, changes>>

\* Between the pruning and the query another extract may finish.
Refresh ==
    /\ kind = "extract" /\ work.pc = "idle" /\ retain # 0
    /\ rows' = rows \ Missed(rows)
    /\ work' = [Idle EXCEPT !.pc = "query"]
    /\ UNCHANGED <<kind, tableau, known, files, retain, published, failures, crashes, changes>>

Query ==
    /\ work.pc = "query"
    /\ work' = [Idle EXCEPT !.pc = "each", !.todo = Unarchived]
    /\ UNCHANGED <<kind, tableau, known, rows, files, retain, published, failures, crashes, changes>>

\* Disabled: the command returns at once.
Disabled ==
    /\ work.pc = "idle" /\ retain = 0
    /\ UNCHANGED vars

-----------------------------------------------------------------------------
(***************************************************************************)
(* One archive after the other (_archive_updates, _archive)                *)
(***************************************************************************)
Stored(c) == CHOOSE r \in rows : r.item = c.item /\ r.rev = c.rev

\* _retain_some, called when something was counted.
Retention ==
    IF work.count = 0 \/ retain \in {0, -1} THEN Idle
    ELSE [Idle EXCEPT !.pc = "drop", !.keep = retain, !.todo = Excess(retain)]

\* The loop ends: nothing left, archives disabled meanwhile, or Tableau stops.
EndLoop ==
    /\ work.pc = "each"
    /\ \/ /\ work.todo = {} \/ retain = 0
          /\ UNCHANGED failures
       \/ /\ kind # "extract" /\ failures < MaxFailures
          /\ failures' = failures + 1
    /\ work' = Retention
    /\ UNCHANGED <<kind, tableau, known, rows, files, retain, published, crashes, changes>>

\* The file is on the primary and its contents on the controller.
Got(c) ==
    /\ tableau[c.item] # 0
    /\ work' = [work EXCEPT !.pc = "place", !.todo = @ \ {c}, !.row = Stored(c)]
    /\ UNCHANGED <<rows, retain, failures>>

\* The storage is refused (its machine disabled, no space), tabcmd failed three
\* times, the file is of no known type, the extraction or the copy failed.
Fails(c, counted) ==
    /\ failures < MaxFailures
    /\ failures' = failures + 1
    /\ work' = [work EXCEPT !.todo = @ \ {c}, !.count = @ + counted]
    /\ UNCHANGED <<rows, retain>>

\* Tableau answers 404: the row goes, it could never be archived.
NotFound(c, counted) ==
    /\ tableau[c.item] = 0
    /\ rows' = rows \ {Stored(c)}
    /\ work' = [work EXCEPT !.todo = @ \ {c}, !.count = @ + counted]
    /\ UNCHANGED <<retain, failures>>

\* Tableau refuses the credentials: the archives are disabled.
Denied ==
    /\ failures < MaxFailures
    /\ failures' = failures + 1
    /\ retain' = 0
    /\ work' = Idle
    /\ UNCHANGED rows

\* A failed archive counts for a workbook or a data source, not for an extract.
\* A failed tabcmd that says nothing goes on in the case of a workbook, so that
\* a file left by an earlier attempt may be archived: one more way to Got.
FetchWorkbook(c) ==
    /\ kind = "workbook"
    /\ Got(c) \/ Fails(c, 1) \/ NotFound(c, 1) \/ Denied

\* Without ptdsx.exe on the agent nothing is fetched either: one more failure.
FetchDataSource(c) ==
    /\ kind = "datasource"
    /\ Got(c) \/ Fails(c, 1) \/ NotFound(c, 1) \/ Denied

FetchExtract(c) ==
    /\ kind = "extract"
    /\ Got(c) \/ Fails(c, 0) \/ NotFound(c, 0) \/ Denied

\* session.refresh: the row is still there (otherwise the command would end,
\* and the controller with it).
Refreshed(c) == \E r \in rows : r.item = c.item /\ r.rev = c.rev

Archive ==
    /\ work.pc = "each" /\ retain # 0
    /\ \E c \in work.todo :
         /\ Refreshed(c)
         /\ FetchWorkbook(c) \/ FetchDataSource(c) \/ FetchExtract(c)
    /\ UNCHANGED <<kind, tableau, known, files, published, crashes, changes>>

-----------------------------------------------------------------------------
(***************************************************************************)
(* Placing the files                                                       *)
(***************************************************************************)
Put(r) == rows' = (rows \ {Stored(r)}) \union {r}

\* PlaceFile: the row of files is for the configured storage (cloud, another
\* machine, the primary), or for the primary's volume when the copy failed.
\* The commit of this row writes nothing of the archive's row yet.
Place ==
    /\ work.pc = "place" /\ HasFreeId
    /\ files' = files \union {FreeId}
    /\ \E next \in {"original", "record"} :
         /\ kind = "extract" => next = "record"
         /\ work' = [work EXCEPT !.pc = next, !.row.file = FreeId]
    /\ UNCHANGED <<kind, tableau, known, rows, retain, published, failures, crashes, changes>>

\* The .twbx or .tdsx file itself, when it is to be kept: the commit of its row
\* in files also writes the id of the first file, while the url is still empty.
PlaceOriginal ==
    /\ work.pc = "original" /\ HasFreeId
    /\ files' = files \union {FreeId}
    /\ Put(work.row)
    /\ work' = [work EXCEPT !.pc = "record", !.row.original = FreeId]
    /\ UNCHANGED <<kind, tableau, known, retain, published, failures, crashes, changes>>

Record ==
    /\ work.pc = "record"
    /\ Put([work.row EXCEPT !.done = TRUE])
    /\ work' = [work EXCEPT !.pc = "each", !.row = Idle.row, !.count = @ + 1]
    /\ UNCHANGED <<kind, tableau, known, files, retain, published, failures, crashes, changes>>

-----------------------------------------------------------------------------
(***************************************************************************)
(* Retention                                                               *)
(***************************************************************************)
\* Mutant: the deletion of the row is not committed before the files go.
Drop_Uncommitted ==
    /\ work.pc = "drop"
    /\ \E r \in work.todo :
         /\ \A s \in Of(r.item, work.todo) : r.rev <= s.rev
         /\ rows' = rows
         /\ work' = [work EXCEPT !.pc = "remove", !.todo = @ \ {r},
                                 !.remove = {r.file, r.original} \ {0}]
    /\ UNCHANGED <<kind, tableau, known, files, retain, published, failures, crashes, changes>>

\* The row goes first: the foreign key of files points at it.
Drop ==
    /\ work.pc = "drop"
    /\ \E r \in work.todo :
         /\ \A s \in Of(r.item, work.todo) : r.rev <= s.rev
         /\ rows' = rows \ {r}
         /\ work' = [work EXCEPT !.pc = "remove", !.todo = @ \ {r},
                                 !.remove = {r.file, r.original} \ {0}]
    /\ UNCHANGED <<kind, tableau, known, files, retain, published, failures, crashes, changes>>

\* remove_file_by_id: the row of files stays when its machine is not connected
\* or its cloud refuses; otherwise it goes, whether or not the file went.
RemoveFile ==
    /\ work.pc = "remove"
    /\ \E f \in work.remove :
         /\ work' = [work EXCEPT !.remove = @ \ {f},
                                 !.pc = IF work.remove = {f} THEN "drop" ELSE "remove"]
         /\ \/ /\ files' = files \ {f}
               /\ UNCHANGED failures
            \/ /\ failures < MaxFailures
               /\ failures' = failures + 1
               /\ UNCHANGED files
    /\ UNCHANGED <<kind, tableau, known, rows, retain, published, crashes, changes>>

EndRetention ==
    /\ work.pc = "drop" /\ work.todo = {}
    /\ work' = Idle
    /\ UNCHANGED <<kind, tableau, known, rows, files, retain, published, failures, crashes, changes>>

-----------------------------------------------------------------------------
(***************************************************************************)
(* The end of the controller, at any point: stopped, or ended by an        *)
(* exception of the command at work.  What was not committed is lost.      *)
(***************************************************************************)
Crash ==
    /\ crashes < MaxCrashes /\ work.pc # "idle"
    /\ crashes' = crashes + 1
    /\ work' = Idle
    /\ UNCHANGED <<kind, tableau, known, rows, files, retain, published, failures, changes>>

Step == LoadRow \/ LoadDone \/ Query \/ EndLoop \/ Archive \/ Place \/ PlaceOriginal \/ Record
        \/ Drop \/ RemoveFile \/ EndRetention

Next ==
    \/ \E i \in Items : Publish(i) \/ AddExtract(i) \/ Unpublish(i)
    \/ SetRetain \/ ImportWorkbooks \/ ImportDataSources \/ Fixup \/ Refresh \/ Disabled \/ Step \/ Crash

\* The commands are sent every minute and try the manager's lock: each gets it
\* again and again; once begun a command goes on to its end.
Spec ==
    /\ Init /\ [][Next]_vars
    /\ WF_vars(Step)
    /\ SF_vars(ImportWorkbooks \/ ImportDataSources) /\ SF_vars(Fixup) /\ SF_vars(Refresh)

-----------------------------------------------------------------------------
(***************************************************************************)
(* Properties                                                              *)
(***************************************************************************)
\* An archive the tables show can be downloaded: the files of an archived row
\* are in the files table, wherever a command was cut off between the commits
\* of the two tables (workbooks.py:382-394).
ArchivedHasFiles ==
    \A r \in Archived : {r.file, r.original} \ {0} \subseteq files

\* Only a failure or the end of the controller leaves a file behind that no
\* row points to and no retention will find again, at most two for each:
\* archiving, pruning, 404s and changes of the setting never do.
FilesAreOwned ==
    Cardinality(files \ (Owned \union InHand)) <= 2 * (failures + crashes)

\* When nothing failed, was cut off or was changed by the user, no command
\* leaves more archives of an item than the retention count.
ExcessIsRemoved ==
    (work.pc = "idle" /\ failures + crashes + changes = 0 /\ retain # -1)
    => \A i \in Items : Cardinality(Of(i, Archived)) <= retain

\* Nothing stays that should be gone, neither a file without a row nor a row
\* beyond the retention count (_retain_some, remove_file_by_id).
NothingIsLeft == TypeOK /\ FilesAreOwned /\ ExcessIsRemoved

RevisionsOf(i) == {r.rev : r \in Of(i, Archived)}

Store == INSTANCE ArchiveStore
         WITH Revisions <- 0 .. MaxPublished, kept <- [i \in Items |-> RevisionsOf(i)]

\* The archives are those of ArchiveStore.  Whatever is published, fetched again, given up, pruned
\* or set by the user in between, a revision is archived once, and none is taken but the oldest of
\* its item, by a retention that leaves as many as the count promises (_retain_some).
ImplementsStore == Store!Spec

\* An extract is listed by its row, a workbook or data source by Tableau.
Listed(i, t) ==
    /\ tableau[i] = t
    /\ kind = "extract" => \E r \in rows : r.item = i /\ r.rev = t
    /\ kind = "workbook" => i \notin Samples

Newest(i, t) == \E r \in Archived : r.item = i /\ r.rev >= t

\* Every publication is archived in the end, whatever fails in between, unless
\* a newer one replaces it, it is taken back, the archives are disabled or the
\* controller ends (between the commit of the item, which moves the cursor,
\* and that of its revision, the revision is lost: workbooks.py:263-278).
PublishedIsArchived ==
    \A i \in Items : \A t \in Times :
        Listed(i, t) ~> (Newest(i, t) \/ tableau[i] # t \/ retain = 0 \/ crashes > 0)
=============================================================================
