------------------------------- MODULE Extracts -------------------------------
(***************************************************************************)
(* Alerts about Tableau's extract refreshes (extracts.py).  Every minute   *)
(* ExtractManager.load copies the jobs that Tableau changed since the last *)
(* load into the table extracts, and generates for each job an event when  *)
(* it starts late, runs too long and finishes; then it looks again at the  *)
(* jobs of the table that have not finished.  The time of the last load is *)
(* not kept: it is the newest updated_at of the table, so what a commit of *)
(* one job writes decides what the next load will see.                     *)
(*                                                                         *)
(* The manager's lock lets one load run at a time; it is interleaved with  *)
(* Tableau, the user's settings, and the end of the controller.  An event  *)
(* is generated in the session of the load: its first commit also writes   *)
(* the job's row (event_control.py:419-421).                               *)
(***************************************************************************)
EXTENDS Naturals, FiniteSets

CONSTANTS
    Watches,    \* what is watched: the delay of the start, the duration
    Backlog,    \* jobs that Tableau has before the first load
    MaxJobs,    \* bound: background jobs, numbered as Tableau does
    MaxClock,   \* bound: changes of all jobs
    MaxAge,     \* bound: steps of all jobs over their thresholds
    MaxEvents   \* bound: restores, changes of the thresholds and ends of the controller

ASSUME WatchAssumption == Watches \subseteq {"delay", "duration"}
ASSUME JobAssumption == MaxJobs \in Nat \ {0} /\ Backlog \in 0 .. MaxJobs
ASSUME BoundAssumption == MaxClock \in Nat /\ MaxAge \in Nat /\ MaxEvents \in Nat

Jobs == 1 .. MaxJobs
Levels == {"warn", "error"}
Alerts == Watches \X Levels
\* "other": the number of a background job that refreshes no extract.
Phases == {"none", "other", "waiting", "running", "finished"}

VARIABLES
    clock,    \* Tableau's clock, one tick for each change of a job
    job,      \* background_jobs: phase, created_at, started_at, updated_at, and how late each watch
              \* finds the job: 0, 1 (over the warning threshold) or 2 (over the error threshold)
    entry,    \* the table extracts: a copy of the job and the bits of notification_state
    enabled,  \* the thresholds that are not 0
    load,     \* the load at work
    ages, restores, changes, crashes,  \* counts
    touched,  \* history: the numbers that a restore has taken away or back to an earlier phase
    alerts,   \* history: the late events of each number that is not touched
    reports   \* history: the EXTRACT-OK and EXTRACT-FAILED events of each number that is not touched

vars == <<clock, job, entry, enabled, load, ages, restores, changes, crashes, touched, alerts, reports>>
tableau == <<clock, job, ages, restores, touched>>
history == <<alerts, reports>>

NotLate == [w \in Watches |-> 0]
NoJob == [phase |-> "none", created |-> 0, started |-> 0, at |-> 0, late |-> NotLate]
NoCopy == [phase |-> "none", at |-> 0, late |-> NotLate]
NoEntry == [phase |-> "none", at |-> 0, late |-> NotLate, bits |-> {}]
\* seen: the answer of Tableau; limits: the thresholds read at the start; row:
\* the row at work as the session has it; pass: which of the two loops it is in.
Idle == [pc |-> "idle", pass |-> "changed", todo |-> {}, seen |-> [j \in Jobs |-> NoCopy],
         limits |-> {}, id |-> 1, row |-> NoEntry]

TypeOK ==
    /\ clock \in Nat
    /\ job \in [Jobs -> [phase : Phases, created : 0 .. clock, started : 0 .. clock,
                         at : 0 .. clock, late : [Watches -> 0 .. 2]]]
    /\ entry \in [Jobs -> [phase : Phases, at : 0 .. clock, late : [Watches -> 0 .. 2],
                           bits : SUBSET Alerts]]
    /\ enabled \subseteq Levels
    /\ load.pc \in {"idle", "changed", "unfinished", "late", "alert", "finish", "report", "commit"}
    /\ load.todo \subseteq Jobs /\ load.limits \subseteq Levels /\ load.id \in Jobs
    /\ load.row.bits \subseteq Alerts /\ load.row.at <= clock
    /\ alerts \in [Jobs -> [Alerts -> Nat]] /\ reports \in [Jobs -> Nat]
    /\ touched \subseteq Jobs
    /\ {ages, restores, changes, crashes} \subseteq Nat

\* Palette is installed beside a Tableau that has begun the first of its jobs.
FirstJob(j) ==
    CASE j = 1 /\ j <= Backlog ->
           [NoJob EXCEPT !.phase = "running", !.created = j, !.started = j, !.at = j]
      [] j # 1 /\ j <= Backlog -> [NoJob EXCEPT !.phase = "waiting", !.created = j, !.at = j]
      [] OTHER -> NoJob

Init ==
    /\ clock = Backlog /\ job = [j \in Jobs |-> FirstJob(j)]
    /\ entry = [j \in Jobs |-> NoEntry]
    /\ enabled = Levels
    /\ load = Idle
    /\ ages = 0 /\ restores = 0 /\ changes = 0 /\ crashes = 0
    /\ alerts = [j \in Jobs |-> [a \in Alerts |-> 0]] /\ reports = [j \in Jobs |-> 0]
    /\ touched = {}

MayHappen == restores + changes + crashes < MaxEvents

-----------------------------------------------------------------------------
(***************************************************************************)
(* Tableau                                                                 *)
(***************************************************************************)
Largest(numbers) == CHOOSE n \in {0} \union numbers : \A m \in numbers : m <= n

\* MAX(id) of background_jobs, and MAX(id) of the extract jobs among them.
MaxId == Largest({j \in Jobs : job[j].phase # "none"})
MaxExtractId == Largest({j \in Jobs : job[j].phase \notin {"none", "other"}})

Tick(j, record) ==
    /\ clock < MaxClock
    /\ clock' = clock + 1
    /\ job' = [job EXCEPT ![j] = record]
    /\ UNCHANGED <<entry, enabled, load, ages, restores, changes, crashes, history, touched>>

\* Numbers are given in order; after a restore they are given again.
Create(j) ==
    /\ j = MaxId + 1
    /\ \E phase \in {"waiting", "other"} :
         Tick(j, [NoJob EXCEPT !.phase = phase, !.created = clock', !.at = clock'])

Begin(j) ==
    /\ job[j].phase = "waiting"
    /\ Tick(j, [job[j] EXCEPT !.phase = "running", !.started = clock', !.at = clock'])

End(j) ==
    /\ job[j].phase = "running"
    /\ Tick(j, [job[j] EXCEPT !.phase = "finished", !.at = clock'])

\* Time passes for a job that waits or runs: Tableau changes nothing.
Age(j) ==
    /\ ages < MaxAge
    /\ \E w \in Watches :
         /\ job[j].phase = (IF w = "delay" THEN "waiting" ELSE "running")
         /\ job[j].late[w] < 2
         /\ job' = [job EXCEPT ![j].late[w] = @ + 1]
    /\ ages' = ages + 1
    /\ UNCHANGED <<clock, entry, enabled, load, restores, changes, crashes, history, touched>>

\* A job as it was at the moment t.
AsOf(j, t) ==
    CASE job[j].at <= t -> job[j]
      [] job[j].at > t /\ job[j].started \in 1 .. t ->
           [job[j] EXCEPT !.phase = "running", !.at = job[j].started]
      [] job[j].at > t /\ job[j].started \notin 1 .. t /\ job[j].created <= t ->
           [job[j] EXCEPT !.phase = "waiting", !.at = job[j].created, !.started = 0,
                          !.late = [w \in Watches |-> IF w = "duration" THEN 0 ELSE @[w]]]
      [] OTHER -> NoJob

\* Tableau's database is restored from a backup: newer jobs are gone, others are back in an
\* earlier phase.
Restore ==
    /\ MayHappen
    /\ restores' = restores + 1
    /\ \E t \in 0 .. clock : job' = [j \in Jobs |-> AsOf(j, t)]
    /\ touched' = touched \union {j \in Jobs : job'[j] # job[j]}
    /\ alerts' = [j \in Jobs |-> IF j \in touched' THEN [a \in Alerts |-> 0] ELSE alerts[j]]
    /\ reports' = [j \in Jobs |-> IF j \in touched' THEN 0 ELSE reports[j]]
    /\ UNCHANGED <<clock, entry, enabled, load, ages, changes, crashes>>

SetThresholds ==
    /\ MayHappen
    /\ changes' = changes + 1
    /\ enabled' \in SUBSET Levels \ {enabled}
    /\ UNCHANGED <<tableau, entry, load, crashes, history>>

-----------------------------------------------------------------------------
(***************************************************************************)
(* The load                                                                *)
(***************************************************************************)
Known == {j \in Jobs : entry[j].phase # "none"}

\* _prune: entries with an id that Tableau has not given yet, to a job of any kind, are removed.
Kept == {j \in Known : j <= MaxId}

\* _last_updated_at, after the pruning of what a restore took away.
Cursor(kept) == CHOOSE t \in {0} \union {entry[j].at : j \in kept} : \A j \in kept : entry[j].at <= t

Extract(j) == job[j].phase \notin {"none", "other"}

\* Mutants: the cursor included; new ids only.
Changed_SameTime(kept) ==
    IF kept = {} THEN {j \in Jobs : j = MaxExtractId}
    ELSE {j \in Jobs : Extract(j) /\ job[j].at >= Cursor(kept)}
Changed_ById(kept) ==
    IF kept = {} THEN {j \in Jobs : j = MaxExtractId}
    ELSE {j \in Jobs : Extract(j) /\ j \notin kept}

\* The jobs the query answers: those changed since the cursor; the newest
\* one when the table is empty.
Changed(kept) ==
    IF kept = {} THEN {j \in Jobs : j = MaxExtractId}
    ELSE {j \in Jobs : Extract(j) /\ job[j].at > Cursor(kept)}

CopyOf(j) == [phase |-> job[j].phase, at |-> job[j].at, late |-> job[j].late]

Load ==
    /\ load.pc = "idle"
    /\ entry' = [j \in Jobs |-> IF j \in Kept THEN entry[j] ELSE NoEntry]
    /\ load' = [Idle EXCEPT !.pc = "changed", !.todo = Changed(Kept),
                           !.seen = [j \in Jobs |-> IF j \in Changed(Kept) THEN CopyOf(j) ELSE NoCopy],
                           !.limits = enabled]
    /\ UNCHANGED <<tableau, enabled, changes, crashes, history>>

Watch(row) == IF row.phase = "waiting" THEN "delay" ELSE "duration"

\* Mutant: the warning looks at its own bit only.
Due_WarnBitOnly(row, limits) ==
    LET w == Watch(row)
        over == {l \in limits : row.late[w] >= (IF l = "error" THEN 2 ELSE 1)}
    IN  IF w \notin Watches THEN {}
        ELSE {<<w, l>> : l \in {m \in over : <<w, m>> \notin row.bits}}

\* The event that is due: an error when its bit is not set, else a warning when
\* neither bit is.
Due(row, limits) ==
    LET w == Watch(row)
        over == {l \in limits : row.late[w] >= (IF l = "error" THEN 2 ELSE 1)}
    IN  IF w \notin Watches THEN {}
        ELSE IF "error" \in over /\ <<w, "error">> \notin row.bits THEN {<<w, "error">>}
        ELSE IF "warn" \in over /\ {<<w, "warn">>, <<w, "error">>} \cap row.bits = {}
        THEN {<<w, "warn">>} ELSE {}

\* What comes next for a row: its late event, its end, or the next row.
Then(row, limits) ==
    IF Due(row, limits) # {} THEN "late" ELSE IF row.phase = "finished" THEN "finish" ELSE "commit"

\* The answers are taken in the order of their ids.
First(set) == CHOOSE j \in Jobs : set # {} => j \in set /\ \A k \in set : j <= k

\* A row without an event is copied and committed.
Take(row) ==
    LET j == First(load.todo)
        next == Then(row, load.limits)
    IN  /\ load.todo # {}
        /\ entry' = IF next = "commit" THEN [entry EXCEPT ![j] = row] ELSE entry
        /\ load' = IF next = "commit"
                   THEN [load EXCEPT !.todo = @ \ {j}, !.seen[j] = NoCopy]
                   ELSE [load EXCEPT !.todo = @ \ {j}, !.seen[j] = NoCopy,
                                     !.pc = next, !.id = j, !.row = row]
        /\ UNCHANGED <<tableau, enabled, changes, crashes, history>>

\* A job of the answer, in the order of the ids: copied over its row.
TakeChanged ==
    /\ load.pc = "changed"
    /\ LET j == First(load.todo)
       IN  Take([phase |-> load.seen[j].phase, at |-> load.seen[j].at,
                 late |-> load.seen[j].late, bits |-> entry[j].bits])

\* Mutant: the second loop takes the rows that have not started only.
CheckUnfinished_Waiting ==
    /\ load.pc = "changed" /\ load.todo = {}
    /\ load' = [load EXCEPT !.pc = "unfinished", !.pass = "unfinished",
                            !.todo = {j \in Known : entry[j].phase = "waiting"}]
    /\ UNCHANGED <<tableau, entry, enabled, changes, crashes, history>>

\* _check_existing_unfinished: then the rows whose progress is not 100, as of
\* now: the time since they were created or started has gone on.
CheckUnfinished ==
    /\ load.pc = "changed" /\ load.todo = {}
    /\ load' = [load EXCEPT !.pc = "unfinished", !.pass = "unfinished",
                            !.todo = {j \in Known : entry[j].phase # "finished"}]
    /\ UNCHANGED <<tableau, entry, enabled, changes, crashes, history>>

\* How late the second loop may find a row.  Of a job that has not changed since it was copied the
\* row tells the truth; otherwise the clock has gone on while the row has not.
Lateness(j) ==
    IF entry[j].at = job[j].at THEN {job[j].late}
    ELSE {late \in [Watches -> 0 .. 2] :
            \A w \in Watches :
                IF w = Watch(entry[j]) THEN late[w] >= entry[j].late[w] ELSE late[w] = entry[j].late[w]}

\* A row that is not finished, copied from itself.
TakeUnfinished ==
    /\ load.pc = "unfinished" /\ load.todo # {}
    /\ LET j == First(load.todo)
       IN  \E late \in Lateness(j) : Take([entry[j] EXCEPT !.late = late])

-----------------------------------------------------------------------------

\* Generating the event commits the row, still without the new bit.
Late ==
    /\ load.pc = "late"
    /\ entry' = [entry EXCEPT ![load.id] = load.row]
    /\ load' = [load EXCEPT !.pc = "alert"]
    /\ UNCHANGED <<tableau, enabled, changes, crashes, history>>

Alert ==
    /\ load.pc = "alert"
    /\ \E a \in Due(load.row, load.limits) :
         /\ alerts' = IF load.id \in touched THEN alerts ELSE [alerts EXCEPT ![load.id][a] = @ + 1]
         /\ load' = [load EXCEPT !.pc = IF load.row.phase = "finished" THEN "finish" ELSE "commit",
                                 !.row.bits = @ \union {a}]
    /\ UNCHANGED <<tableau, entry, enabled, changes, crashes, reports>>

\* _check_finished: the row is committed by the new row of extract_archive or
\* by the event, before the event is complete.
Finish ==
    /\ load.pc = "finish"
    /\ entry' = [entry EXCEPT ![load.id] = load.row]
    /\ load' = [load EXCEPT !.pc = "report"]
    /\ UNCHANGED <<tableau, enabled, changes, crashes, history>>

Report ==
    /\ load.pc = "report"
    /\ reports' = IF load.id \in touched THEN reports ELSE [reports EXCEPT ![load.id] = @ + 1]
    /\ load' = [load EXCEPT !.pc = "commit"]
    /\ UNCHANGED <<tableau, entry, enabled, changes, crashes, alerts>>

Commit ==
    /\ load.pc = "commit"
    /\ entry' = [entry EXCEPT ![load.id] = load.row]
    /\ load' = [load EXCEPT !.pc = load.pass, !.id = 1, !.row = NoEntry]
    /\ UNCHANGED <<tableau, enabled, changes, crashes, history>>

EndLoad ==
    /\ load.pc = "unfinished" /\ load.todo = {}
    /\ load' = Idle
    /\ UNCHANGED <<tableau, entry, enabled, changes, crashes, history>>

\* The end of the controller: stopped, or ended by an exception of the load.
Crash ==
    /\ MayHappen /\ load.pc # "idle"
    /\ crashes' = crashes + 1
    /\ load' = Idle
    /\ UNCHANGED <<tableau, entry, enabled, changes, history>>

Step == Load \/ TakeChanged \/ CheckUnfinished \/ TakeUnfinished \/ Late \/ Alert
        \/ Finish \/ Report \/ Commit \/ EndLoad

Next ==
    \/ \E j \in Jobs : Create(j) \/ Begin(j) \/ End(j) \/ Age(j)
    \/ Restore \/ SetThresholds \/ Step \/ Crash

\* The scheduler starts a load every minute.
Spec == Init /\ [][Next]_vars /\ WF_vars(Step)

-----------------------------------------------------------------------------
(***************************************************************************)
(* Properties                                                              *)
(***************************************************************************)
\* The end of an extract is reported once: a job that is committed and seen
\* again by the second loop, the next load or the load after a restart is not
\* reported again, although _check_finished remembers nothing.  (A job that a
\* restore takes back, or whose number is given again, is.)
ReportedOnce == \A j \in Jobs \ touched : reports[j] <= 1

\* A late event is repeated only by a restart between it and its bit.
AlertsAreNotRepeated == \A j \in Jobs \ touched, a \in Alerts : alerts[j][a] <= 1 + crashes

\* No event is sent twice, though the row is committed apart from it (_process).
NothingIsRepeated == TypeOK /\ ReportedOnce /\ AlertsAreNotRepeated

\* "We don't send a WARN event if we already sent an ERROR" (extracts.py:217),
\* whatever the thresholds are changed to, except after a restart, or about a
\* number that a restore of Tableau has touched.
NoWarningAfterError ==
    [][\A j \in Jobs \ touched, w \in Watches :
          alerts'[j][<<w, "warn">>] > alerts[j][<<w, "warn">>]
            => alerts[j][<<w, "error">>] = 0 \/ crashes > 0]_vars

Tracked(j) == Known # {} /\ job[j].phase = "finished" /\ job[j].at > Cursor(Known)

\* What finishes after the newest row of the table is reported, also when a
\* restore takes other jobs back, unless the controller ends (a row committed
\* before its event, or before the rows of lower times, is never looked at
\* again), the job itself was touched, or the prune after a restore has emptied
\* the table: the load then asks for one job only (extracts.py:147).
FinishedIsReported ==
    \A j \in Jobs : Tracked(j) ~> (reports[j] = 1 \/ crashes > 0 \/ j \in touched \/ Known = {})

\* Again and again no job that runs over its error threshold is unreported:
\* even when Tableau changes nothing, or a threshold is turned on meanwhile.
\* (A number that is given again before a load has pruned its row inherits the
\* bits of that row, extracts.py:174, and is excluded.)
OverrunIsReported ==
    []<>~ \E j \in Jobs \ touched :
            /\ entry[j].phase = "running" /\ job[j].phase = "running"
            /\ "duration" \in Watches /\ "error" \in enabled
            /\ job[j].late["duration"] = 2 /\ alerts[j][<<"duration", "error">>] = 0
=============================================================================
