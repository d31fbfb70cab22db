---------------------------- MODULE ExtractsProofs ----------------------------
(***************************************************************************)
(* No event of an extract is sent twice, for every number of jobs and of   *)
(* changes and however the loads are interleaved with Tableau, restores    *)
(* of its database and ends of the controller, as long as no restore has   *)
(* taken the job itself away or back.                                      *)
(*                                                                         *)
(* The manager keeps no note of what it has reported.  What keeps it from  *)
(* reporting again is spread over the table, the cursor and the load at    *)
(* work: a finished row is a copy of a job that Tableau changes no more,   *)
(* so that the job is not beyond the cursor again; a job that a load has   *)
(* still to take is not finished in the table; and the prune takes no row  *)
(* of a job that exists.  The jobs share the cursor and the table's being  *)
(* empty only, so the invariant is about one job at a time.                *)
(***************************************************************************)
EXTENDS Extracts, FiniteSetTheorems, WellFoundedInduction, TLAPS

JobRecords == [phase : Phases, created : 0 .. clock, started : 0 .. clock, at : 0 .. clock,
               late : [Watches -> 0 .. 2]]
CopyRecords == [phase : Phases, at : 0 .. clock, late : [Watches -> 0 .. 2]]
EntryRecords == [phase : Phases, at : 0 .. clock, late : [Watches -> 0 .. 2], bits : SUBSET Alerts]
LoadRecords ==
    [pc : {"idle", "changed", "unfinished", "late", "alert", "finish", "report", "commit"},
     pass : {"changed", "unfinished"}, todo : SUBSET Jobs, seen : [Jobs -> CopyRecords],
     limits : SUBSET Levels, id : Jobs, row : EntryRecords]

Typed ==
    /\ clock \in Nat
    /\ job \in [Jobs -> JobRecords] /\ entry \in [Jobs -> EntryRecords]
    /\ enabled \subseteq Levels
    /\ load \in LoadRecords
    /\ alerts \in [Jobs -> [Alerts -> Nat]] /\ reports \in [Jobs -> Nat]
    /\ touched \subseteq Jobs
    /\ ages \in Nat /\ restores \in Nat /\ changes \in Nat /\ crashes \in Nat

Shaped ==
    /\ load.pc = "idle" => load.todo = {}
    /\ load.pc \in {"changed", "unfinished"} => load.pass = load.pc

Working == load.pc \in {"late", "alert", "finish", "report", "commit"}
AtWork(j) == Working /\ load.id = j

\* A row that is finished is a copy of a job that Tableau leaves alone.
Final(row, j) == row.phase = "finished" => job[j].phase = "finished" /\ job[j].at = row.at

\* What the controller knows of exists.
Exists(j) ==
    entry[j].phase # "none" \/ j \in load.todo \/ AtWork(j) => job[j].phase # "none"

Copied(j) == Final(entry[j], j) /\ (entry[j].phase = "none" => entry[j].bits = {})

Taking(j) ==
    j \in load.todo =>
        /\ reports[j] = 0 /\ entry[j].phase # "finished"
        /\ load.pass = "changed" => Final(load.seen[j], j) /\ load.seen[j].phase # "none"
        /\ load.pass = "unfinished" => entry[j].phase # "none"

Placed(j) ==
    AtWork(j) =>
        /\ j \notin load.todo
        /\ Final(load.row, j) /\ load.row.phase # "none"
        /\ load.pc \in {"finish", "report"} => load.row.phase = "finished"
        /\ load.pc = "report" \/ (load.pc = "commit" /\ load.row.phase = "finished")
              => entry[j].phase = "finished"
        /\ ~(load.pc = "commit" /\ load.row.phase = "finished") => reports[j] = 0

Reported(j) == reports[j] = 0 \/ (reports[j] = 1 /\ entry[j].phase = "finished")

\* The bits that the next look at the job will find.
Bits(j) == IF AtWork(j) THEN load.row.bits ELSE entry[j].bits

Sent(j) ==
    \A a \in Alerts :
        /\ alerts[j][a] <= crashes + 1
        /\ a \in Bits(j) \/ alerts[j][a] <= crashes

Good(j) == Exists(j) /\ Copied(j) /\ Taking(j) /\ Placed(j) /\ Reported(j) /\ Sent(j)

IInv == Typed /\ Shaped /\ \A j \in Jobs \ touched : Good(j)

-----------------------------------------------------------------------------
(***************************************************************************)
(* The types                                                               *)
(***************************************************************************)
LEMMA JobNumbers ==
    /\ Jobs \subseteq Nat /\ 1 \in Jobs /\ MaxJobs \in Nat
    /\ IsFiniteSet(Jobs) /\ \A S \in SUBSET Jobs : IsFiniteSet(S)
<1>1. Jobs \subseteq Nat /\ 1 \in Jobs /\ MaxJobs \in Nat
    BY JobAssumption DEF Jobs
<1>2. IsFiniteSet(Jobs)
    BY <1>1, FS_Interval DEF Jobs
<1> QED
    BY <1>1, <1>2, FS_Subset

LEMMA Constants ==
    ASSUME clock \in Nat
    PROVE  /\ NoJob \in JobRecords /\ NoCopy \in CopyRecords /\ NoEntry \in EntryRecords
           /\ Idle \in LoadRecords
           /\ Idle.pc = "idle" /\ Idle.todo = {} /\ NoJob.phase = "none"
           /\ NoEntry.phase = "none" /\ NoEntry.bits = {}
<1>1. NotLate \in [Watches -> 0 .. 2]
    BY DEF NotLate
<1>2. NoJob \in JobRecords /\ NoJob.phase = "none"
    BY <1>1 DEF NoJob, JobRecords, Phases
<1>3. NoCopy \in CopyRecords
    BY <1>1 DEF NoCopy, CopyRecords, Phases
<1>4. NoEntry \in EntryRecords /\ NoEntry.phase = "none" /\ NoEntry.bits = {}
    BY <1>1 DEF NoEntry, EntryRecords, Phases
<1>5. [j \in Jobs |-> NoCopy] \in [Jobs -> CopyRecords]
    BY <1>3
<1>6. Idle \in LoadRecords /\ Idle.pc = "idle" /\ Idle.todo = {}
    BY <1>4, <1>5, JobNumbers DEF Idle, LoadRecords
<1> QED
    BY <1>2, <1>3, <1>4, <1>6

\* What was a record stays one when time goes on.
LEMMA LaterRecords ==
    ASSUME clock \in Nat, clock' \in Nat, clock <= clock'
    PROVE  /\ JobRecords \subseteq JobRecords' /\ EntryRecords \subseteq EntryRecords'
           /\ LoadRecords \subseteq LoadRecords'
<1>1. 0 .. clock \subseteq 0 .. clock'
    OBVIOUS
<1>2. JobRecords \subseteq JobRecords'
    BY <1>1 DEF JobRecords
<1>3. EntryRecords \subseteq EntryRecords'
    BY <1>1 DEF EntryRecords
<1>4. CopyRecords \subseteq CopyRecords'
    BY <1>1 DEF CopyRecords
<1>5. LoadRecords \subseteq LoadRecords'
    BY <1>3, <1>4 DEF LoadRecords
<1> QED
    BY <1>2, <1>3, <1>5

LEMMA SameRecords ==
    ASSUME clock' = clock
    PROVE  JobRecords' = JobRecords /\ EntryRecords' = EntryRecords /\ LoadRecords' = LoadRecords
BY DEF JobRecords, CopyRecords, EntryRecords, LoadRecords

\* The events of a row are among the alerts that are watched.
LEMMA DueIsAlert ==
    ASSUME NEW row, NEW limits
    PROVE  Due(row, limits) \subseteq Alerts \ row.bits
BY DEF Due, Alerts, Levels

-----------------------------------------------------------------------------
(***************************************************************************)
(* Choices                                                                 *)
(***************************************************************************)
\* Of some numbers one is the least.
LEMMA Least ==
    ASSUME NEW S \in SUBSET Jobs, S # {}
    PROVE  \E j \in S : \A k \in S : j <= k
<1> DEFINE Upto(j) == {k \in S : k <= j}
           T == {Upto(j) : j \in S}
<1>1. IsWellFoundedOn(StrictSubsetOrdering(S), FiniteSubsetsOf(S))
    BY FS_StrictSubsetOrderingWellFounded
<1>2. FiniteSubsetsOf(S) = SUBSET S
    BY JobNumbers, FS_FiniteSubsetsOfFinite
<1>3. T \subseteq SUBSET S /\ T # {}
    OBVIOUS
<1>4. PICK x \in T : \A y \in T : <<y, x>> \notin StrictSubsetOrdering(S)
    <2> HIDE DEF T
    <2> QED
        BY <1>1, <1>2, <1>3, WFMin
<1>5. \A y \in T : y \subseteq x => y = x
    BY <1>3, <1>4 DEF StrictSubsetOrdering
<1>6. PICK j \in S : x = Upto(j)
    BY <1>4
<1>7. ASSUME NEW k \in S PROVE j <= k
    <2>1. j \in Nat /\ k \in Nat /\ S \subseteq Nat
        BY JobNumbers
    <2>2. SUFFICES ASSUME k < j PROVE FALSE
        BY <2>1
    <2>3. \A l \in S : l <= k => l <= j
        BY <2>1, <2>2
    <2>4. Upto(k) \subseteq Upto(j)
        BY <2>3
    <2>5. j \in Upto(j) /\ j \notin Upto(k)
        BY <2>1, <2>2
    <2> QED
        BY <1>5, <1>6, <2>4, <2>5
<1> QED
    BY <1>7

LEMMA FirstIsFirst ==
    ASSUME NEW S \in SUBSET Jobs, S # {}
    PROVE  First(S) \in S
<1>1. \E j \in Jobs : S # {} => j \in S /\ \A k \in S : j <= k
    BY Least
<1> QED
    BY <1>1 DEF First

\* Of some rows one has the latest time.
LEMMA Latest ==
    ASSUME Typed, NEW S \in SUBSET Jobs, S # {}
    PROVE  \E j \in S : \A k \in S : entry[k].at <= entry[j].at
<1> DEFINE From(j) == {k \in S : entry[k].at >= entry[j].at}
           T == {From(j) : j \in S}
<1>1. IsWellFoundedOn(StrictSubsetOrdering(S), FiniteSubsetsOf(S))
    BY FS_StrictSubsetOrderingWellFounded
<1>2. FiniteSubsetsOf(S) = SUBSET S
    BY JobNumbers, FS_FiniteSubsetsOfFinite
<1>3. T \subseteq SUBSET S /\ T # {}
    OBVIOUS
<1>4. PICK x \in T : \A y \in T : <<y, x>> \notin StrictSubsetOrdering(S)
    <2> HIDE DEF T
    <2> QED
        BY <1>1, <1>2, <1>3, WFMin
<1>5. \A y \in T : y \subseteq x => y = x
    BY <1>3, <1>4 DEF StrictSubsetOrdering
<1>6. PICK j \in S : x = From(j)
    BY <1>4
<1>7. ASSUME NEW k \in S PROVE entry[k].at <= entry[j].at
    <2>1. \A l \in S : entry[l].at \in Nat
        BY DEF Typed, EntryRecords
    <2>2. SUFFICES ASSUME entry[k].at > entry[j].at PROVE FALSE
        BY <2>1
    <2>3. From(k) \subseteq From(j)
        BY <2>1, <2>2
    <2>4. j \in From(j) /\ j \notin From(k)
        BY <2>1, <2>2
    <2> QED
        BY <1>5, <1>6, <2>3, <2>4
<1> QED
    BY <1>7

LEMMA LargestIsLargest ==
    ASSUME NEW S \in SUBSET Jobs
    PROVE  /\ Largest(S) \in {0} \union S /\ Largest(S) \in Nat
           /\ \A m \in S : m <= Largest(S)
<1>1. CASE S = {}
    BY <1>1 DEF Largest
<1>2. CASE S # {}
    <2> DEFINE T == {MaxJobs + 1 - m : m \in S}
    <2>1. T \in SUBSET Jobs /\ T # {}
        <3>1. \A m \in S : MaxJobs + 1 - m \in 1 .. MaxJobs
            <4> SUFFICES ASSUME NEW m \in S PROVE MaxJobs + 1 - m \in 1 .. MaxJobs
                OBVIOUS
            <4>1. m \in 1 .. MaxJobs /\ MaxJobs \in Nat
                BY JobNumbers DEF Jobs
            <4> QED
                BY <4>1
        <3> QED
            BY <1>2, <3>1 DEF Jobs
    <2>2. PICK k \in T : \A l \in T : k <= l
        <3> HIDE DEF T
        <3> QED
            BY <2>1, Least
    <2>3. PICK n \in S : k = MaxJobs + 1 - n
        BY <2>2
    <2>4. \A m \in S : m <= n
        <3> SUFFICES ASSUME NEW m \in S PROVE m <= n
            OBVIOUS
        <3>1. MaxJobs + 1 - n <= MaxJobs + 1 - m
            BY <2>2, <2>3
        <3> QED
            BY <3>1, JobNumbers
    <2>5. \E i \in {0} \union S : \A m \in S : m <= i
        BY <2>4
    <2>6. Largest(S) \in {0} \union S /\ \A m \in S : m <= Largest(S)
        BY <2>5 DEF Largest
    <2>7. Largest(S) \in Nat
        <3>1. CASE Largest(S) = 0
            BY <3>1
        <3>2. CASE Largest(S) \in S
            BY <3>2, JobNumbers
        <3> QED
            BY <2>6, <3>1, <3>2
    <2> QED
        BY <2>6, <2>7
<1> QED
    BY <1>1, <1>2

\* The cursor is not before any row that is kept.
LEMMA CursorIsLatest ==
    ASSUME Typed, NEW S \in SUBSET Jobs
    PROVE  Cursor(S) \in Nat /\ \A j \in S : entry[j].at <= Cursor(S)
<1> DEFINE T == {0} \union {entry[j].at : j \in S}
<1>1. \A j \in S : entry[j].at \in Nat
    BY DEF Typed, EntryRecords
<1>2. \E t \in T : \A j \in S : entry[j].at <= t
    BY Latest
<1>3. Cursor(S) \in T /\ \A j \in S : entry[j].at <= Cursor(S)
    <2> HIDE DEF T
    <2> QED
        BY <1>2 DEF Cursor, T
<1> QED
    BY <1>1, <1>3

\* The prune leaves the rows of jobs that exist.
LEMMA ExistingIsKept ==
    ASSUME NEW j \in Jobs, Exists(j), entry[j].phase # "none"
    PROVE  j \in Kept
<1> DEFINE given == {k \in Jobs : job[k].phase # "none"}
<1>1. j \in given /\ given \in SUBSET Jobs
    BY DEF Exists
<1>2. j <= Largest(given)
    <2> HIDE DEF given
    <2> QED
        BY <1>1, LargestIsLargest
<1> QED
    BY <1>2 DEF Kept, Known, MaxId

\* A job that Tableau answers exists, and has not finished in the table.
LEMMA ChangedIsNew ==
    ASSUME IInv, NEW j \in Changed(Kept), j \notin touched
    PROVE  /\ j \in Jobs /\ job[j].phase # "none"
           /\ entry[j].phase # "finished" /\ reports[j] = 0
<1>1. Kept \subseteq Jobs
    BY DEF Kept, Known
<1>2. j \in Jobs
    BY DEF Changed
<1>3. Good(j)
    BY <1>2 DEF IInv
<1>4. job[j].phase # "none"
    <2>1. CASE Kept = {}
        <3> DEFINE extracts == {k \in Jobs : job[k].phase \notin {"none", "other"}}
        <3>1. j = Largest(extracts) /\ extracts \in SUBSET Jobs
            BY <2>1 DEF Changed, MaxExtractId
        <3>2. j \in extracts
            <4> HIDE DEF extracts
            <4>1. j \in {0} \union extracts
                BY <3>1, LargestIsLargest
            <4> QED
                BY <1>2, <4>1 DEF Jobs
        <3> QED
            BY <3>2
    <2>2. CASE Kept # {}
        BY <2>2 DEF Changed, Extract
    <2> QED
        BY <2>1, <2>2
<1>5. ASSUME entry[j].phase = "finished" PROVE FALSE
    <2>1. j \in Kept
        BY <1>2, <1>3, <1>5, ExistingIsKept DEF Good
    <2>2. job[j].at = entry[j].at
        BY <1>3, <1>5 DEF Good, Copied, Final
    <2>3. job[j].at > Cursor(Kept)
        BY <2>1 DEF Changed
    <2>4. Cursor(Kept) \in Nat /\ entry[j].at <= Cursor(Kept)
        BY <1>1, <2>1, CursorIsLatest DEF IInv
    <2>5. entry[j].at \in Nat
        BY <1>2 DEF IInv, Typed, EntryRecords
    <2> QED
        BY <2>2, <2>3, <2>4, <2>5
<1>6. reports[j] = 0
    BY <1>3, <1>5 DEF Good, Reported
<1> QED
    BY <1>2, <1>4, <1>5, <1>6

-----------------------------------------------------------------------------
(***************************************************************************)
(* Tableau and the user                                                    *)
(***************************************************************************)
LEMMA InitIInv == Init => IInv
<1> SUFFICES ASSUME Init PROVE IInv
    OBVIOUS
<1>1. clock \in Nat /\ clock = Backlog
    BY JobAssumption, JobNumbers DEF Init
<1>1a. \A j \in Jobs : FirstJob(j) \in JobRecords
    <2> SUFFICES ASSUME NEW j \in Jobs PROVE FirstJob(j) \in JobRecords
        OBVIOUS
    <2>1. NoJob \in JobRecords
        BY <1>1, Constants
    <2>2. j \in Nat /\ 1 <= j
        BY DEF Jobs
    <2>3. CASE j <= Backlog
        <3>1. j \in 0 .. clock
            BY <1>1, <2>2, <2>3
        <3>2. /\ [NoJob EXCEPT !.phase = "running", !.created = j, !.started = j, !.at = j] \in JobRecords
              /\ [NoJob EXCEPT !.phase = "waiting", !.created = j, !.at = j] \in JobRecords
            BY <2>1, <3>1 DEF JobRecords, Phases
        <3> QED
            BY <2>3, <3>2 DEF FirstJob
    <2>4. CASE ~(j <= Backlog)
        BY <2>1, <2>4 DEF FirstJob
    <2> QED
        BY <2>3, <2>4
<1>2. Typed
    BY <1>1, <1>1a, Constants DEF Init, Typed
<1>3. /\ \A j \in Jobs : entry[j] = NoEntry /\ reports[j] = 0
      /\ \A j \in Jobs, a \in Alerts : alerts[j][a] = 0
      /\ load.pc = "idle" /\ load.todo = {} /\ crashes = 0
    BY <1>1, Constants DEF Init
<1>4. NoEntry.phase = "none" /\ NoEntry.bits = {}
    BY <1>1, Constants
<1>5. Shaped /\ ~Working
    BY <1>3 DEF Shaped, Working
<1>6. ASSUME NEW j \in Jobs PROVE Good(j)
    BY <1>3, <1>4, <1>5 DEF Good, Exists, Copied, Final, Taking, Placed, AtWork, Reported, Sent
<1> QED
    BY <1>2, <1>5, <1>6 DEF IInv

\* What exists stays, and what is finished changes no more.
Moves(j) ==
    /\ job[j].phase # "none" => job'[j].phase # "none"
    /\ job[j].phase = "finished" => job'[j].phase = "finished" /\ job'[j].at = job[j].at

LEMMA MovesKeepIInv ==
    ASSUME IInv, Typed', touched \subseteq touched',
           \A j \in Jobs \ touched' : Moves(j) /\ alerts'[j] = alerts[j] /\ reports'[j] = reports[j],
           entry' = entry, load' = load, crashes' = crashes
    PROVE  IInv'
<1>1. Shaped'
    BY DEF IInv, Shaped
<1>2. ASSUME NEW j \in Jobs \ touched'
      PROVE  Good(j)'
    <2>1. Good(j) /\ Moves(j) /\ alerts'[j] = alerts[j] /\ reports'[j] = reports[j]
        BY <1>2 DEF IInv
    <2>2. \A row : Final(row, j) => Final(row, j)'
        BY <2>1 DEF Moves, Final
    <2>3. AtWork(j)' = AtWork(j) /\ Bits(j)' = Bits(j)
        BY DEF AtWork, Working, Bits
    <2>4. Exists(j)' /\ Copied(j)'
        BY <2>1, <2>2, <2>3 DEF Good, Exists, Copied, Moves, Final
    <2>5. Taking(j)'
        BY <2>1, <2>2 DEF Good, Taking, Final
    <2>6. Placed(j)'
        BY <2>1, <2>2, <2>3 DEF Good, Placed, Final
    <2>7. Reported(j)' /\ Sent(j)'
        BY <2>1, <2>3 DEF Good, Reported, Sent
    <2> QED
        BY <2>4, <2>5, <2>6, <2>7 DEF Good
<1> QED
    BY <1>1, <1>2 DEF IInv

\* Tableau's clock goes on, and one job changes, that was not finished.
LEMMA TickKeepsIInv ==
    ASSUME IInv, NEW j \in Jobs, NEW record \in JobRecords', Tick(j, record),
           job[j].phase # "finished", record.phase # "none"
    PROVE  IInv'
<1>1. /\ clock' = clock + 1 /\ job' = [job EXCEPT ![j] = record]
      /\ UNCHANGED <<entry, enabled, load, ages, restores, changes, crashes, alerts, reports, touched>>
    BY DEF Tick, history
<1>2. clock \in Nat /\ clock' \in Nat /\ clock <= clock'
    BY <1>1 DEF IInv, Typed
<1>3. /\ JobRecords \subseteq JobRecords' /\ EntryRecords \subseteq EntryRecords'
      /\ LoadRecords \subseteq LoadRecords'
    BY <1>2, LaterRecords
<1>4. job' \in [Jobs -> JobRecords'] /\ entry' \in [Jobs -> EntryRecords'] /\ load' \in LoadRecords'
    BY <1>1, <1>3 DEF IInv, Typed
<1>5. Typed'
    BY <1>1, <1>2, <1>4 DEF IInv, Typed
<1>6. job'[j] = record /\ \A k \in Jobs \ {j} : job'[k] = job[k]
    BY <1>1 DEF IInv, Typed
<1>7. \A k \in Jobs : Moves(k)
    BY <1>6 DEF Moves
<1> QED
    BY <1>1, <1>5, <1>7, MovesKeepIInv

LEMMA ChangesKeepIInv ==
    ASSUME IInv, NEW j \in Jobs, Create(j) \/ Begin(j) \/ End(j)
    PROVE  IInv'
<1>1. clock' = clock + 1
    BY DEF Create, Begin, End, Tick
<1>2. clock \in Nat /\ clock' \in Nat /\ clock <= clock' /\ clock' \in 0 .. clock'
    BY <1>1 DEF IInv, Typed
<1>3. job[j] \in JobRecords' /\ NoJob \in JobRecords'
    BY <1>2, LaterRecords, Constants DEF IInv, Typed
<1>4. CASE Create(j)
    <2>1. PICK phase \in {"waiting", "other"} :
             Tick(j, [NoJob EXCEPT !.phase = phase, !.created = clock', !.at = clock'])
        BY <1>4 DEF Create
    <2>2. [NoJob EXCEPT !.phase = phase, !.created = clock', !.at = clock'] \in JobRecords'
        BY <1>2, <1>3 DEF JobRecords, Phases
    <2>3. [NoJob EXCEPT !.phase = phase, !.created = clock', !.at = clock'].phase = phase
        BY DEF NoJob
    <2>4. job[j].phase = "none"
        <3> DEFINE given == {k \in Jobs : job[k].phase # "none"}
        <3>1. given \in SUBSET Jobs /\ j = Largest(given) + 1
            BY <1>4 DEF Create, MaxId
        <3>2. j \notin given
            <4> HIDE DEF given
            <4>1. Largest(given) \in Nat /\ \A m \in given : m <= Largest(given)
                BY <3>1, LargestIsLargest
            <4>3. ~(j <= Largest(given))
                BY <3>1, <4>1
            <4> QED
                BY <4>1, <4>3
        <3> QED
            BY <3>2
    <2> QED
        BY <2>1, <2>2, <2>3, <2>4, TickKeepsIInv
<1>5. CASE Begin(j)
    <2> DEFINE record == [job[j] EXCEPT !.phase = "running", !.started = clock', !.at = clock']
    <2>1. record \in JobRecords' /\ record.phase = "running"
        BY <1>2, <1>3 DEF JobRecords, Phases
    <2>2. job[j].phase = "waiting" /\ Tick(j, record)
        BY <1>5 DEF Begin
    <2> QED
        BY <2>1, <2>2, TickKeepsIInv
<1>6. CASE End(j)
    <2> DEFINE record == [job[j] EXCEPT !.phase = "finished", !.at = clock']
    <2>1. record \in JobRecords' /\ record.phase = "finished"
        BY <1>2, <1>3 DEF JobRecords, Phases
    <2>2. job[j].phase = "running" /\ Tick(j, record)
        BY <1>6 DEF End
    <2> QED
        BY <2>1, <2>2, TickKeepsIInv
<1> QED
    BY <1>4, <1>5, <1>6

LEMMA AgeKeepsIInv ==
    ASSUME IInv, NEW j \in Jobs, Age(j)
    PROVE  IInv'
<1>1. PICK w \in Watches :
         /\ job[j].late[w] < 2
         /\ job' = [job EXCEPT ![j].late[w] = @ + 1]
    BY DEF Age
<1>2. job[j] \in JobRecords
    BY DEF IInv, Typed
<1> DEFINE late == [job[j].late EXCEPT ![w] = @ + 1]
<1>3. late \in [Watches -> 0 .. 2]
    BY <1>1, <1>2 DEF JobRecords
<1>4. job' = [job EXCEPT ![j] = [job[j] EXCEPT !.late = late]]
    BY <1>1, <1>2 DEF IInv, Typed, JobRecords
<1> HIDE DEF late
<1>5. [job[j] EXCEPT !.late = late] \in JobRecords
    BY <1>2, <1>3 DEF JobRecords
<1>6. job' \in [Jobs -> JobRecords]
    BY <1>4, <1>5 DEF IInv, Typed
<1>7. UNCHANGED <<clock, entry, enabled, load, restores, changes, crashes, alerts, reports, touched>>
      /\ ages' \in Nat
    BY DEF Age, history, IInv, Typed
<1>8. Typed'
    BY <1>6, <1>7, SameRecords DEF IInv, Typed
<1>9. \A k \in Jobs : job'[k].phase = job[k].phase /\ job'[k].at = job[k].at
    BY <1>2, <1>4 DEF IInv, Typed, JobRecords
<1> QED
    BY <1>7, <1>8, <1>9, MovesKeepIInv DEF Moves

\* What a restore leaves is a record, and what it changes is touched.
LEMMA AsOfIsJob ==
    ASSUME Typed, NEW j \in Jobs, NEW t \in 0 .. clock
    PROVE  AsOf(j, t) \in JobRecords
<1>1. job[j] \in JobRecords /\ NoJob \in JobRecords
    BY Constants DEF Typed
<1>2. [job[j] EXCEPT !.phase = "running", !.at = job[j].started] \in JobRecords
    BY <1>1 DEF JobRecords, Phases
<1> DEFINE late == [w \in Watches |-> IF w = "duration" THEN 0 ELSE job[j].late[w]]
<1>3. late \in [Watches -> 0 .. 2]
    BY <1>1 DEF JobRecords
<1> DEFINE waiting == [job[j] EXCEPT !.phase = "waiting", !.at = job[j].created, !.started = 0,
                                     !.late = [w \in Watches |-> IF w = "duration" THEN 0 ELSE @[w]]]
<1>4. waiting = [job[j] EXCEPT !.phase = "waiting", !.at = job[j].created, !.started = 0, !.late = late]
    BY <1>1 DEF JobRecords
<1> HIDE DEF late
<1>5. 0 \in 0 .. clock
    BY DEF Typed
<1>6. waiting \in JobRecords
    BY <1>1, <1>3, <1>4, <1>5 DEF JobRecords, Phases
<1>7. AsOf(j, t) \in {job[j], [job[j] EXCEPT !.phase = "running", !.at = job[j].started], waiting, NoJob}
    <2>1. job[j].at \in Nat /\ t \in Nat
        BY <1>1 DEF Typed, JobRecords
    <2>2. CASE job[j].at <= t
        BY <2>1, <2>2 DEF AsOf
    <2>3. CASE job[j].at > t /\ job[j].started \in 1 .. t
        BY <2>1, <2>3 DEF AsOf
    <2>4. CASE job[j].at > t /\ job[j].started \notin 1 .. t /\ job[j].created <= t
        BY <2>1, <2>4 DEF AsOf
    <2>5. CASE ~(job[j].at <= t) /\ ~(job[j].at > t /\ job[j].started \in 1 .. t)
               /\ ~(job[j].at > t /\ job[j].started \notin 1 .. t /\ job[j].created <= t)
        BY <2>5 DEF AsOf
    <2> QED
        BY <2>2, <2>3, <2>4, <2>5
<1> QED
    BY <1>1, <1>2, <1>6, <1>7

LEMMA RestoreKeepsIInv ==
    ASSUME IInv, Restore
    PROVE  IInv'
<1>1. PICK t \in 0 .. clock : job' = [j \in Jobs |-> AsOf(j, t)]
    BY DEF Restore
<1>2. /\ restores' = restores + 1
      /\ touched' = touched \union {j \in Jobs : job'[j] # job[j]}
      /\ alerts' = [j \in Jobs |-> IF j \in touched' THEN [a \in Alerts |-> 0] ELSE alerts[j]]
      /\ reports' = [j \in Jobs |-> IF j \in touched' THEN 0 ELSE reports[j]]
      /\ UNCHANGED <<clock, entry, enabled, load, ages, changes, crashes>>
    BY DEF Restore
<1>3. job' \in [Jobs -> JobRecords]
    BY <1>1, AsOfIsJob DEF IInv
<1>4. alerts' \in [Jobs -> [Alerts -> Nat]] /\ reports' \in [Jobs -> Nat] /\ touched' \subseteq Jobs
    BY <1>2 DEF IInv, Typed
<1>5. Typed'
    BY <1>2, <1>3, <1>4, SameRecords DEF IInv, Typed
<1>6. \A j \in Jobs \ touched' : job'[j] = job[j] /\ alerts'[j] = alerts[j] /\ reports'[j] = reports[j]
    BY <1>2
<1> QED
    BY <1>2, <1>5, <1>6, MovesKeepIInv DEF Moves

LEMMA SetThresholdsKeepsIInv ==
    ASSUME IInv, SetThresholds
    PROVE  IInv'
<1>1. /\ UNCHANGED <<clock, job, ages, restores, touched, entry, load, crashes, alerts, reports>>
      /\ enabled' \subseteq Levels /\ changes' \in Nat
    BY DEF SetThresholds, tableau, history, IInv, Typed
<1>2. Typed'
    BY <1>1, SameRecords DEF IInv, Typed
<1> QED
    BY <1>1, <1>2, MovesKeepIInv DEF Moves

-----------------------------------------------------------------------------
(***************************************************************************)
(* The load                                                                *)
(***************************************************************************)
LEMMA LoadKeepsIInv ==
    ASSUME IInv, Load
    PROVE  IInv'
<1> DEFINE seen == [j \in Jobs |-> IF j \in Changed(Kept) THEN CopyOf(j) ELSE NoCopy]
<1>1. /\ load.pc = "idle"
      /\ entry' = [j \in Jobs |-> IF j \in Kept THEN entry[j] ELSE NoEntry]
      /\ load' = [Idle EXCEPT !.pc = "changed", !.todo = Changed(Kept), !.seen = seen,
                              !.limits = enabled]
      /\ UNCHANGED <<clock, job, ages, restores, touched, enabled, changes, crashes, alerts, reports>>
    BY DEF Load, tableau, history
<1>2. NoCopy \in CopyRecords /\ NoEntry \in EntryRecords /\ Idle \in LoadRecords
      /\ NoEntry.phase = "none" /\ NoEntry.bits = {} /\ job \in [Jobs -> JobRecords]
    BY Constants DEF IInv, Typed
<1>3. Changed(Kept) \subseteq Jobs /\ Idle.pass = "changed"
    BY DEF Changed, Idle
<1>4. \A j \in Jobs : CopyOf(j) \in CopyRecords
    BY <1>2 DEF JobRecords, CopyRecords, CopyOf
<1>5. seen \in [Jobs -> CopyRecords]
    BY <1>2, <1>4
<1>6. \A j \in Changed(Kept) : seen[j].phase = job[j].phase /\ seen[j].at = job[j].at
    BY <1>3 DEF CopyOf
<1> HIDE DEF seen
<1>7. /\ load' \in LoadRecords /\ load'.pc = "changed" /\ load'.pass = "changed"
      /\ load'.todo = Changed(Kept) /\ load'.seen = seen
    BY <1>1, <1>2, <1>3, <1>5 DEF LoadRecords, IInv, Typed
<1>8. Typed' /\ Shaped'
    BY <1>1, <1>2, <1>7, SameRecords DEF IInv, Typed, Shaped
<1>9. ~Working /\ ~Working'
    BY <1>1, <1>7 DEF Working
<1>10. ASSUME NEW j \in Jobs \ touched
       PROVE  Good(j)'
    <2>1. Good(j)
        BY <1>10 DEF IInv
    <2>2. entry'[j] = entry[j] \/ (entry'[j] = NoEntry /\ entry[j].phase = "none")
        BY <1>1, <2>1, ExistingIsKept DEF Good
    <2>3. j \in Changed(Kept) =>
             job[j].phase # "none" /\ entry[j].phase # "finished" /\ reports[j] = 0
        BY <1>10, ChangedIsNew
    <2>4. Exists(j)'
        BY <1>1, <1>2, <1>7, <1>9, <2>1, <2>2, <2>3 DEF Good, Exists, AtWork
    <2>5. Copied(j)'
        BY <1>1, <1>2, <2>1, <2>2 DEF Good, Copied, Final
    <2>6. Taking(j)'
        BY <1>1, <1>2, <1>6, <1>7, <2>2, <2>3 DEF Taking, Final
    <2>7. Placed(j)'
        BY <1>9 DEF Placed, AtWork
    <2>8. Reported(j)'
        BY <1>1, <2>1, <2>2 DEF Good, Reported
    <2>9. Sent(j)'
        <3>1. Bits(j) = entry[j].bits /\ Bits(j)' = entry'[j].bits
            BY <1>9 DEF Bits, AtWork
        <3>2. entry'[j].bits = entry[j].bits
            BY <1>2, <2>1, <2>2 DEF Good, Copied
        <3> QED
            BY <1>1, <2>1, <3>1, <3>2 DEF Good, Sent
    <2> QED
        BY <2>4, <2>5, <2>6, <2>7, <2>8, <2>9 DEF Good
<1> QED
    BY <1>1, <1>8, <1>10 DEF IInv

\* A step about one job leaves the others alone.
LEMMA OthersStayGood ==
    ASSUME NEW k \in Jobs, Good(k),
           entry'[k] = entry[k], job'[k] = job[k], reports'[k] = reports[k],
           alerts'[k] = alerts[k], crashes' = crashes,
           k \in load'.todo => k \in load.todo /\ load'.pass = load.pass /\ load'.seen[k] = load.seen[k],
           ~AtWork(k), ~AtWork(k)'
    PROVE  Good(k)'
<1>1. Bits(k)' = Bits(k)
    BY DEF Bits
<1>2. Exists(k)' /\ Copied(k)'
    BY DEF Good, Exists, Copied, Final
<1>3. Taking(k)'
    BY DEF Good, Taking, Final
<1>4. Placed(k)' /\ Reported(k)' /\ Sent(k)'
    BY <1>1 DEF Good, Placed, Reported, Sent
<1> QED
    BY <1>2, <1>3, <1>4 DEF Good

LEMMA ThenIsNext ==
    ASSUME NEW row, NEW limits
    PROVE  /\ Then(row, limits) \in {"late", "finish", "commit"}
           /\ Then(row, limits) = "finish" => row.phase = "finished"
           /\ Then(row, limits) = "commit" => row.phase # "finished"
BY DEF Then

LEMMA TakeKeepsIInv ==
    ASSUME IInv, load.pc \in {"changed", "unfinished"}, NEW row \in EntryRecords, Take(row),
           NEW j \in Jobs, j = First(load.todo), j \in load.todo,
           j \notin touched => row.phase # "none" /\ Final(row, j),
           row.bits = entry[j].bits
    PROVE  IInv'
<1> DEFINE next == Then(row, load.limits)
<1>1. /\ next \in {"late", "finish", "commit"}
      /\ next = "finish" => row.phase = "finished"
      /\ next = "commit" => row.phase # "finished"
    BY ThenIsNext
<1>2. /\ entry' = IF next = "commit" THEN [entry EXCEPT ![j] = row] ELSE entry
      /\ load' = IF next = "commit"
                 THEN [load EXCEPT !.todo = @ \ {j}, !.seen[j] = NoCopy]
                 ELSE [load EXCEPT !.todo = @ \ {j}, !.seen[j] = NoCopy,
                                   !.pc = next, !.id = j, !.row = row]
      /\ UNCHANGED <<clock, job, ages, restores, touched, enabled, changes, crashes, alerts, reports>>
    BY DEF Take, tableau, history
<1> HIDE DEF next
<1>3. load \in LoadRecords /\ NoCopy \in CopyRecords /\ entry \in [Jobs -> EntryRecords]
    BY Constants DEF IInv, Typed
<1>4. load' \in LoadRecords /\ entry' \in [Jobs -> EntryRecords]
    BY <1>1, <1>2, <1>3 DEF LoadRecords
<1>5. /\ load'.todo = load.todo \ {j} /\ load'.pass = load.pass
      /\ \A k \in Jobs \ {j} : load'.seen[k] = load.seen[k]
      /\ next = "commit" => load'.pc = load.pc
      /\ next # "commit" => load'.pc = next /\ load'.id = j /\ load'.row = row
    BY <1>2, <1>3 DEF LoadRecords
<1>6. ~Working /\ (next # "commit" => Working' /\ load'.id = j) /\ (next = "commit" => ~Working')
    BY <1>1, <1>5 DEF Working
<1>7. /\ \A k \in Jobs \ {j} : entry'[k] = entry[k]
      /\ next = "commit" => entry'[j] = row
      /\ next # "commit" => entry'[j] = entry[j]
    BY <1>2, <1>3
<1>8. Typed' /\ Shaped'
    BY <1>1, <1>2, <1>4, <1>5, SameRecords DEF IInv, Typed, Shaped
<1>9. ASSUME NEW k \in Jobs \ touched, k # j
      PROVE  Good(k)'
    BY <1>2, <1>5, <1>6, <1>7, <1>9, OthersStayGood DEF IInv, AtWork
<1>10. ASSUME j \notin touched
       PROVE  Good(j)'
    <2>1. Good(j) /\ row.phase # "none" /\ Final(row, j)
        BY <1>10 DEF IInv
    <2>2. reports[j] = 0 /\ entry[j].phase # "finished" /\ job[j].phase # "none"
        BY <2>1 DEF Good, Taking, Exists
    <2>3. Bits(j)' = Bits(j) /\ Bits(j) = entry[j].bits
        BY <1>5, <1>6, <1>7 DEF Bits, AtWork
    <2>4. Exists(j)'
        BY <1>2, <2>2 DEF Exists
    <2>5. Copied(j)'
        BY <1>2, <1>7, <2>1 DEF Good, Copied, Final
    <2>6. Taking(j)'
        BY <1>5 DEF Taking
    <2>7. Placed(j)'
        BY <1>1, <1>2, <1>5, <1>6, <1>7, <2>1, <2>2 DEF Placed, AtWork, Final
    <2>8. Reported(j)' /\ Sent(j)'
        BY <1>2, <2>1, <2>2, <2>3 DEF Good, Reported, Sent
    <2> QED
        BY <2>4, <2>5, <2>6, <2>7, <2>8 DEF Good
<1> QED
    BY <1>2, <1>8, <1>9, <1>10 DEF IInv

LEMMA TakeChangedKeepsIInv ==
    ASSUME IInv, TakeChanged
    PROVE  IInv'
<1> DEFINE j == First(load.todo)
           row == [phase |-> load.seen[j].phase, at |-> load.seen[j].at,
                   late |-> load.seen[j].late, bits |-> entry[j].bits]
<1>1. load.pc = "changed" /\ Take(row) /\ load.todo # {}
    BY DEF TakeChanged, Take
<1>2. j \in load.todo /\ j \in Jobs
    BY <1>1, FirstIsFirst DEF IInv, Typed, LoadRecords
<1>3. load.seen[j] \in CopyRecords /\ entry[j] \in EntryRecords
    BY <1>2 DEF IInv, Typed, LoadRecords
<1>4. row \in EntryRecords /\ row.bits = entry[j].bits
    BY <1>3 DEF CopyRecords, EntryRecords
<1>5. j \notin touched => Final(row, j) /\ row.phase # "none"
    BY <1>1, <1>2 DEF IInv, Shaped, Good, Taking, Final
<1> HIDE DEF row
<1> QED
    BY <1>1, <1>2, <1>4, <1>5, TakeKeepsIInv

LEMMA TakeUnfinishedKeepsIInv ==
    ASSUME IInv, TakeUnfinished
    PROVE  IInv'
<1> DEFINE j == First(load.todo)
<1>1. PICK late \in Lateness(j) : Take([entry[j] EXCEPT !.late = late])
    BY DEF TakeUnfinished
<1>2. load.pc = "unfinished" /\ load.todo # {}
    BY DEF TakeUnfinished
<1>3. j \in load.todo /\ j \in Jobs
    BY <1>2, FirstIsFirst DEF IInv, Typed, LoadRecords
<1>4. job[j] \in JobRecords /\ entry[j] \in EntryRecords
    BY <1>3 DEF IInv, Typed
<1>5. late \in [Watches -> 0 .. 2]
    BY <1>4 DEF Lateness, JobRecords
<1> DEFINE row == [entry[j] EXCEPT !.late = late]
<1>6. row \in EntryRecords /\ row.phase = entry[j].phase /\ row.bits = entry[j].bits
    BY <1>4, <1>5 DEF EntryRecords
<1>7. j \notin touched => Final(row, j) /\ row.phase # "none"
    BY <1>2, <1>3, <1>6 DEF IInv, Shaped, Good, Taking, Final
<1> HIDE DEF row
<1> QED
    BY <1>1, <1>2, <1>3, <1>6, <1>7, TakeKeepsIInv DEF row

LEMMA CheckUnfinishedKeepsIInv ==
    ASSUME IInv, CheckUnfinished
    PROVE  IInv'
<1> DEFINE todo == {j \in Known : entry[j].phase # "finished"}
<1>1. /\ load.pc = "changed"
      /\ load' = [load EXCEPT !.pc = "unfinished", !.pass = "unfinished", !.todo = todo]
      /\ UNCHANGED <<clock, job, ages, restores, touched, entry, enabled, changes, crashes, alerts, reports>>
    BY DEF CheckUnfinished, tableau, history
<1>2. /\ todo \subseteq Jobs
      /\ \A j \in todo : entry[j].phase # "none" /\ entry[j].phase # "finished"
    BY DEF Known
<1> HIDE DEF todo
<1>3. /\ load' \in LoadRecords /\ load'.pc = "unfinished" /\ load'.pass = "unfinished"
      /\ load'.todo = todo
    BY <1>1, <1>2 DEF IInv, Typed, LoadRecords
<1>4. Typed' /\ Shaped'
    BY <1>1, <1>3, SameRecords DEF IInv, Typed, Shaped
<1>5. ~Working /\ ~Working'
    BY <1>1, <1>3 DEF Working
<1>6. ASSUME NEW j \in Jobs \ touched
      PROVE  Good(j)'
    <2>1. Good(j)
        BY <1>6 DEF IInv
    <2>2. j \in todo => reports[j] = 0
        BY <1>2, <2>1 DEF Good, Reported
    <2>3. Exists(j)' /\ Copied(j)'
        BY <1>1, <1>2, <1>3, <1>5, <2>1 DEF Good, Exists, Copied, Final, AtWork
    <2>4. Taking(j)' /\ Placed(j)'
        BY <1>1, <1>2, <1>3, <1>5, <2>2 DEF Taking, Placed, AtWork
    <2>5. Reported(j)' /\ Sent(j)'
        BY <1>1, <1>5, <2>1 DEF Good, Reported, Sent, Bits, AtWork
    <2> QED
        BY <2>3, <2>4, <2>5 DEF Good
<1> QED
    BY <1>1, <1>4, <1>6 DEF IInv

\* A commit of the row at work, in the middle of it or at its end.
LEMMA WritingKeepsIInv ==
    ASSUME IInv, Working, NEW j \in Jobs, j = load.id,
           entry' = [entry EXCEPT ![j] = load.row],
           load' \in LoadRecords, load'.todo = load.todo, load'.pass = load.pass,
           load'.seen = load.seen,
           \/ Working' /\ load'.id = load.id /\ load'.row = load.row
           \/ ~Working' /\ load'.pc = load.pass,
           j \notin touched => Placed(j)',
           UNCHANGED <<clock, job, ages, restores, touched, enabled, changes, crashes, alerts, reports>>
    PROVE  IInv'
<1>1. j = load.id
    OBVIOUS
<1>2. PICK row \in EntryRecords : row = load.row
    BY DEF IInv, Typed, LoadRecords
<1>3. entry'[j] = row /\ \A k \in Jobs \ {j} : entry'[k] = entry[k]
    BY <1>1, <1>2 DEF IInv, Typed
<1>4. Typed'
    BY <1>1, <1>2, SameRecords DEF IInv, Typed
<1>5. Shaped'
    BY DEF Shaped, Working, IInv, Typed, LoadRecords
<1>6. ASSUME NEW k \in Jobs \ touched, k # j
      PROVE  Good(k)'
    BY <1>1, <1>3, <1>6, OthersStayGood DEF IInv, AtWork
<1>7. ASSUME j \notin touched
      PROVE  Good(j)'
    <2>1. Good(j) /\ AtWork(j)
        BY <1>1, <1>7 DEF IInv, AtWork
    <2>2. /\ j \notin load.todo /\ Final(row, j) /\ row.phase # "none"
          /\ row.phase = "finished" \/ reports[j] = 0
          /\ job[j].phase # "none"
        BY <1>2, <2>1 DEF Good, Placed, Exists
    <2>3. Exists(j)' /\ Copied(j)' /\ Taking(j)'
        BY <1>3, <2>2 DEF Exists, Copied, Taking, Final
    <2>4. Placed(j)'
        BY <1>1, <1>7
    <2>5. Bits(j)' = Bits(j)
        BY <1>1, <1>2, <1>3, <2>1 DEF Bits, AtWork
    <2>6. Reported(j)' /\ Sent(j)'
        BY <1>3, <2>1, <2>2, <2>5 DEF Good, Reported, Sent
    <2> QED
        BY <2>3, <2>4, <2>6 DEF Good
<1> QED
    BY <1>4, <1>5, <1>6, <1>7 DEF IInv

LEMMA CommitsKeepIInv ==
    ASSUME IInv, Late \/ Finish \/ Commit
    PROVE  IInv'
<1>1. /\ entry' = [entry EXCEPT ![load.id] = load.row]
      /\ UNCHANGED <<clock, job, ages, restores, touched, enabled, changes, crashes, alerts, reports>>
    BY DEF Late, Finish, Commit, tableau, history
<1>2. load \in LoadRecords /\ entry \in [Jobs -> EntryRecords] /\ NoEntry \in EntryRecords /\ 1 \in Jobs
    BY Constants, JobNumbers DEF IInv, Typed
<1>3. PICK j \in Jobs : j = load.id
    BY <1>2 DEF LoadRecords
<1>4. /\ entry' = [entry EXCEPT ![j] = load.row] /\ entry'[j] = load.row
      /\ j \notin touched /\ Working => Placed(j) /\ AtWork(j)
    BY <1>1, <1>2, <1>3 DEF IInv, Good, AtWork
<1>5. CASE Late
    <2>1. load.pc = "late" /\ load' = [load EXCEPT !.pc = "alert"]
        BY <1>5 DEF Late
    <2>2. /\ load' \in LoadRecords /\ load'.pc = "alert" /\ load'.todo = load.todo
          /\ load'.pass = load.pass /\ load'.seen = load.seen /\ load'.id = load.id
          /\ load'.row = load.row
        BY <1>2, <2>1 DEF LoadRecords
    <2>3. Working /\ Working'
        BY <2>1, <2>2 DEF Working
    <2>4. j \notin touched => Placed(j)'
        BY <1>1, <1>3, <1>4, <2>1, <2>2, <2>3 DEF Placed, AtWork, Final
    <2> QED
        BY <1>1, <1>3, <1>4, <2>2, <2>3, <2>4, WritingKeepsIInv
<1>6. CASE Finish
    <2>1. load.pc = "finish" /\ load' = [load EXCEPT !.pc = "report"]
        BY <1>6 DEF Finish
    <2>2. /\ load' \in LoadRecords /\ load'.pc = "report" /\ load'.todo = load.todo
          /\ load'.pass = load.pass /\ load'.seen = load.seen /\ load'.id = load.id
          /\ load'.row = load.row
        BY <1>2, <2>1 DEF LoadRecords
    <2>3. Working /\ Working'
        BY <2>1, <2>2 DEF Working
    <2>4. j \notin touched => Placed(j)'
        BY <1>1, <1>3, <1>4, <2>1, <2>2, <2>3 DEF Placed, AtWork, Final
    <2> QED
        BY <1>1, <1>3, <1>4, <2>2, <2>3, <2>4, WritingKeepsIInv
<1>7. CASE Commit
    <2>1. /\ load.pc = "commit"
          /\ load' = [load EXCEPT !.pc = load.pass, !.id = 1, !.row = NoEntry]
        BY <1>7 DEF Commit
    <2>2. /\ load' \in LoadRecords /\ load'.pc = load.pass /\ load'.todo = load.todo
          /\ load'.pass = load.pass /\ load'.seen = load.seen /\ load.pass \in {"changed", "unfinished"}
        BY <1>2, <2>1 DEF LoadRecords
    <2>3. Working /\ ~Working'
        BY <2>1, <2>2 DEF Working
    <2>4. Placed(j)'
        BY <2>3 DEF Placed, AtWork
    <2> QED
        BY <1>1, <1>3, <1>4, <2>2, <2>3, <2>4, WritingKeepsIInv
<1> QED
    BY <1>5, <1>6, <1>7

\* An alert sets the bit that it looked at.
LEMMA AlertKeepsIInv ==
    ASSUME IInv, Alert
    PROVE  IInv'
<1>1. PICK a \in Due(load.row, load.limits) :
         /\ alerts' = IF load.id \in touched THEN alerts ELSE [alerts EXCEPT ![load.id][a] = @ + 1]
         /\ load' = [load EXCEPT !.pc = IF load.row.phase = "finished" THEN "finish" ELSE "commit",
                                 !.row.bits = @ \union {a}]
    BY DEF Alert
<1>2. a \in Alerts /\ a \notin load.row.bits
    BY DueIsAlert
<1>3. load.pc = "alert"
      /\ UNCHANGED <<clock, job, ages, restores, touched, entry, enabled, changes, crashes, reports>>
    BY DEF Alert, tableau
<1>4. PICK j \in Jobs : j = load.id
    BY DEF IInv, Typed, LoadRecords
<1>5. load \in LoadRecords /\ load.row \in EntryRecords
    BY DEF IInv, Typed, LoadRecords
<1>6. /\ load'.pc = (IF load.row.phase = "finished" THEN "finish" ELSE "commit")
      /\ load'.row = [load.row EXCEPT !.bits = @ \union {a}]
      /\ load'.id = load.id /\ load'.todo = load.todo /\ load'.pass = load.pass
      /\ load'.seen = load.seen /\ load'.limits = load.limits
    BY <1>1, <1>5 DEF LoadRecords, EntryRecords
<1>7. /\ load'.row \in EntryRecords /\ load'.row.phase = load.row.phase
      /\ load'.row.at = load.row.at /\ load'.row.bits = load.row.bits \union {a}
    BY <1>2, <1>5, <1>6 DEF EntryRecords
<1>8. load' \in LoadRecords
    BY <1>1, <1>5, <1>7 DEF LoadRecords, EntryRecords
<1>9. Working /\ Working'
    BY <1>3, <1>6 DEF Working
<1>10. alerts' \in [Jobs -> [Alerts -> Nat]] /\ \A k \in Jobs \ {j} : alerts'[k] = alerts[k]
    BY <1>1, <1>2, <1>4 DEF IInv, Typed
<1>11. Typed' /\ Shaped'
    BY <1>3, <1>6, <1>8, <1>10, SameRecords DEF IInv, Typed, Shaped
<1>12. ASSUME NEW k \in Jobs \ touched, k # j
       PROVE  Good(k)'
    BY <1>3, <1>4, <1>6, <1>10, <1>12, OthersStayGood DEF IInv, AtWork
<1>13. ASSUME j \notin touched
       PROVE  Good(j)'
    <2>1. Good(j) /\ AtWork(j) /\ AtWork(j)'
        BY <1>4, <1>6, <1>9, <1>13 DEF IInv, AtWork
    <2>2. /\ \A b \in Alerts \ {a} : alerts'[j][b] = alerts[j][b]
          /\ alerts'[j][a] = alerts[j][a] + 1 /\ alerts[j][a] \in Nat
        BY <1>1, <1>2, <1>4, <1>13 DEF IInv, Typed
    <2>3. Exists(j)' /\ Copied(j)'
        BY <1>3, <1>6, <2>1 DEF Good, Exists, Copied, Final
    <2>4. Taking(j)' /\ Placed(j)'
        BY <1>3, <1>6, <1>7, <2>1 DEF Good, Taking, Placed, Final
    <2>5. Reported(j)'
        BY <1>3, <2>1 DEF Good, Reported
    <2>6. Bits(j) = load.row.bits /\ Bits(j)' = load.row.bits \union {a}
        BY <1>7, <2>1 DEF Bits
    <2>7. alerts[j][a] <= crashes /\ crashes \in Nat
        BY <1>2, <2>1, <2>6 DEF Good, Sent, IInv, Typed
    <2>8. ASSUME NEW b \in Alerts
          PROVE  alerts'[j][b] <= crashes + 1 /\ (b \in Bits(j)' \/ alerts'[j][b] <= crashes)
        <3>1. CASE b = a
            BY <2>2, <2>6, <2>7, <3>1
        <3>2. CASE b # a
            BY <2>1, <2>2, <2>6, <3>2 DEF Good, Sent
        <3> QED
            BY <3>1, <3>2
    <2>9. Sent(j)'
        BY <1>3, <2>8 DEF Sent
    <2> QED
        BY <2>3, <2>4, <2>5, <2>9 DEF Good
<1> QED
    BY <1>3, <1>11, <1>12, <1>13 DEF IInv

LEMMA ReportKeepsIInv ==
    ASSUME IInv, Report
    PROVE  IInv'
<1>1. /\ load.pc = "report" /\ load' = [load EXCEPT !.pc = "commit"]
      /\ reports' = IF load.id \in touched THEN reports ELSE [reports EXCEPT ![load.id] = @ + 1]
      /\ UNCHANGED <<clock, job, ages, restores, touched, entry, enabled, changes, crashes, alerts>>
    BY DEF Report, tableau
<1>2. PICK j \in Jobs : j = load.id
    BY DEF IInv, Typed, LoadRecords
<1>3. /\ load' \in LoadRecords /\ load'.pc = "commit" /\ load'.todo = load.todo
      /\ load'.pass = load.pass /\ load'.seen = load.seen /\ load'.id = load.id
      /\ load'.row = load.row
    BY <1>1 DEF IInv, Typed, LoadRecords
<1>4. Working /\ Working'
    BY <1>1, <1>3 DEF Working
<1>5. reports' \in [Jobs -> Nat] /\ \A k \in Jobs \ {j} : reports'[k] = reports[k]
    BY <1>1, <1>2 DEF IInv, Typed
<1>6. Typed' /\ Shaped'
    BY <1>1, <1>3, <1>5, SameRecords DEF IInv, Typed, Shaped
<1>7. ASSUME NEW k \in Jobs \ touched, k # j
      PROVE  Good(k)'
    BY <1>1, <1>2, <1>3, <1>5, <1>7, OthersStayGood DEF IInv, AtWork
<1>8. ASSUME j \notin touched
      PROVE  Good(j)'
    <2>1. Good(j) /\ AtWork(j) /\ AtWork(j)'
        BY <1>2, <1>3, <1>4, <1>8 DEF IInv, AtWork
    <2>2. /\ reports[j] = 0 /\ entry[j].phase = "finished" /\ load.row.phase = "finished"
          /\ j \notin load.todo
        BY <1>1, <2>1 DEF Good, Placed
    <2>3. reports'[j] = 1
        BY <1>1, <1>2, <1>8, <2>2 DEF IInv, Typed
    <2>4. Exists(j)' /\ Copied(j)'
        BY <1>1, <1>3, <2>1 DEF Good, Exists, Copied, Final
    <2>5. Taking(j)' /\ Placed(j)'
        BY <1>1, <1>3, <2>1, <2>2 DEF Good, Taking, Placed, Final
    <2>6. Bits(j)' = Bits(j)
        BY <1>3, <2>1 DEF Bits
    <2>7. Reported(j)' /\ Sent(j)'
        BY <1>1, <2>1, <2>2, <2>3, <2>6 DEF Good, Reported, Sent
    <2> QED
        BY <2>4, <2>5, <2>7 DEF Good
<1> QED
    BY <1>1, <1>6, <1>7, <1>8 DEF IInv

\* The end of a load, or of the controller: a bit that was not committed is lost.
LEMMA EndsKeepIInv ==
    ASSUME IInv, EndLoad \/ Crash
    PROVE  IInv'
<1>1. /\ load' = Idle
      /\ UNCHANGED <<clock, job, ages, restores, touched, entry, enabled, changes, alerts, reports>>
    BY DEF EndLoad, Crash, tableau, history
<1>2. /\ crashes \in Nat /\ crashes' \in Nat
      /\ (crashes' = crashes /\ ~Working) \/ crashes' = crashes + 1
    BY DEF EndLoad, Crash, IInv, Typed, Working
<1>3. load' \in LoadRecords /\ load'.pc = "idle" /\ load'.todo = {} /\ ~Working'
    BY <1>1, Constants DEF IInv, Typed, Working
<1>4. Typed' /\ Shaped'
    BY <1>1, <1>2, <1>3, SameRecords DEF IInv, Typed, Shaped
<1>5. ASSUME NEW j \in Jobs \ touched
      PROVE  Good(j)'
    <2>1. Good(j) /\ \A a \in Alerts : alerts[j][a] \in Nat
        BY <1>5 DEF IInv, Typed
    <2>2. Exists(j)' /\ Copied(j)' /\ Taking(j)' /\ Placed(j)' /\ Reported(j)'
        BY <1>1, <1>3, <2>1 DEF Good, Exists, Copied, Taking, Placed, Reported, Final, AtWork
    <2>3. CASE crashes' = crashes /\ ~Working
        <3>1. Bits(j)' = Bits(j)
            BY <1>1, <1>3, <2>3 DEF Bits, AtWork
        <3>2. Sent(j)'
            BY <1>1, <2>1, <2>3, <3>1 DEF Good, Sent
        <3> QED
            BY <2>2, <3>2 DEF Good
    <2>4. CASE crashes' = crashes + 1
        <3>1. \A a \in Alerts : alerts[j][a] <= crashes + 1
            BY <2>1 DEF Good, Sent
        <3>2. \A a \in Alerts : alerts'[j][a] <= crashes' /\ alerts'[j][a] <= crashes' + 1
            BY <1>1, <1>2, <2>1, <2>4, <3>1
        <3>3. Sent(j)'
            BY <3>2 DEF Sent
        <3> QED
            BY <2>2, <3>3 DEF Good
    <2> QED
        BY <1>2, <2>3, <2>4
<1> QED
    BY <1>1, <1>4, <1>5 DEF IInv

-----------------------------------------------------------------------------
LEMMA NextKeepsIInv == IInv /\ [Next]_vars => IInv'
<1> SUFFICES ASSUME IInv, [Next]_vars PROVE IInv'
    OBVIOUS
<1>1. ASSUME NEW j \in Jobs, Create(j) \/ Begin(j) \/ End(j) \/ Age(j) PROVE IInv'
    BY <1>1, ChangesKeepIInv, AgeKeepsIInv
<1>2. CASE Restore \/ SetThresholds
    BY <1>2, RestoreKeepsIInv, SetThresholdsKeepsIInv
<1>3. CASE Step
    BY <1>3, LoadKeepsIInv, TakeChangedKeepsIInv, CheckUnfinishedKeepsIInv,
       TakeUnfinishedKeepsIInv, CommitsKeepIInv, AlertKeepsIInv, ReportKeepsIInv, EndsKeepIInv
       DEF Step
<1>4. CASE Crash
    BY <1>4, EndsKeepIInv
<1>5. CASE UNCHANGED vars
    <2>1. UNCHANGED <<clock, job, entry, enabled, load, ages, restores, changes, crashes,
                      touched, alerts, reports>>
        BY <1>5 DEF vars
    <2>2. Typed'
        BY <2>1, SameRecords DEF IInv, Typed
    <2> QED
        BY <2>1, <2>2, MovesKeepIInv DEF Moves
<1> QED
    BY <1>1, <1>2, <1>3, <1>4, <1>5 DEF Next

LEMMA Invariance == Spec => []IInv
BY InitIInv, NextKeepsIInv, PTL DEF Spec

\* No event about an extract is sent twice (extracts.py load, _process,
\* _check_finished): the end of a job is reported at most once, although no
\* note of it is kept, and a late event is repeated at most once for each end
\* of the controller, which may come between the event and its bit - unless a
\* restore of Tableau's database took the job away or back.
THEOREM NothingTwice == Spec => []NothingIsRepeated
<1> SUFFICES ASSUME IInv PROVE NothingIsRepeated
    BY Invariance, PTL
<1>1. TypeOK
    <2>1. load.row.at <= clock /\ load.row.bits \subseteq Alerts
        BY DEF IInv, Typed, LoadRecords, EntryRecords
    <2>2. /\ job \in [Jobs -> [phase : Phases, created : 0 .. clock, started : 0 .. clock,
                               at : 0 .. clock, late : [Watches -> 0 .. 2]]]
          /\ entry \in [Jobs -> [phase : Phases, at : 0 .. clock, late : [Watches -> 0 .. 2],
                                 bits : SUBSET Alerts]]
        BY DEF IInv, Typed, JobRecords, EntryRecords
    <2>3. /\ load.pc \in {"idle", "changed", "unfinished", "late", "alert", "finish", "report", "commit"}
          /\ load.todo \subseteq Jobs /\ load.limits \subseteq Levels /\ load.id \in Jobs
        BY DEF IInv, Typed, LoadRecords
    <2> QED
        BY <2>1, <2>2, <2>3 DEF IInv, Typed, TypeOK
<1>2. ReportedOnce
    BY DEF IInv, Good, Reported, ReportedOnce
<1>3. AlertsAreNotRepeated
    <2>1. \A j \in Jobs \ touched, a \in Alerts : alerts[j][a] <= crashes + 1
        BY DEF IInv, Good, Sent
    <2>2. crashes \in Nat /\ crashes + 1 = 1 + crashes
        BY DEF IInv, Typed
    <2> QED
        BY <2>1, <2>2 DEF AlertsAreNotRepeated
<1> QED
    BY <1>1, <1>2, <1>3 DEF NothingIsRepeated

\* "We don't send a WARN event if we already sent an ERROR" (extracts.py:217):
\* a warning needs both bits of its watch to be clear, and without a restart
\* the bits of a job that no restore has touched are all that was ever sent
\* about it.
THEOREM ErrorsSilenceWarnings == Spec => NoWarningAfterError
<1>1. IInv /\ [Next]_vars =>
        [\A j \in Jobs \ touched, w \in Watches :
            alerts'[j][<<w, "warn">>] > alerts[j][<<w, "warn">>]
              => alerts[j][<<w, "error">>] = 0 \/ crashes > 0]_vars
    <2> SUFFICES ASSUME IInv, [Next]_vars, NEW j \in Jobs \ touched, NEW w \in Watches,
                        alerts'[j][<<w, "warn">>] > alerts[j][<<w, "warn">>]
                 PROVE  alerts[j][<<w, "error">>] = 0 \/ crashes > 0
        OBVIOUS
    <2>1. <<w, "warn">> \in Alerts /\ <<w, "error">> \in Alerts
        BY DEF Alerts, Levels
    <2>2. alerts[j][<<w, "warn">>] \in Nat /\ alerts[j][<<w, "error">>] \in Nat /\ crashes \in Nat
        BY <2>1 DEF IInv, Typed
    <2>3. alerts' # alerts
        BY <2>2
    <2>4. CASE Alert
        <3>1. PICK a \in Due(load.row, load.limits) : alerts' = [alerts EXCEPT ![load.id][a] = @ + 1]
            BY <2>3, <2>4 DEF Alert
        <3>2. a \in Alerts /\ load.id \in Jobs
            BY DueIsAlert DEF IInv, Typed, LoadRecords
        <3>3. j = load.id /\ a = <<w, "warn">>
            BY <2>1, <2>2, <3>1, <3>2 DEF IInv, Typed
        <3>4. <<w, "error">> \notin load.row.bits
            BY <3>1, <3>3 DEF Due
        <3>5. AtWork(j)
            BY <2>4, <3>3 DEF Alert, AtWork, Working
        <3>6. alerts[j][<<w, "error">>] <= crashes
            BY <2>1, <3>4, <3>5 DEF IInv, Good, Sent, Bits
        <3> QED
            BY <2>2, <3>6
    <2>5. CASE Restore
        <3>1. alerts' = [k \in Jobs |-> IF k \in touched' THEN [a \in Alerts |-> 0] ELSE alerts[k]]
            BY <2>5 DEF Restore
        <3>2. alerts'[j][<<w, "warn">>] = 0 \/ alerts'[j] = alerts[j]
            BY <2>1, <3>1
        <3> QED
            BY <2>2, <3>2
    <2>6. ASSUME NEW k \in Jobs, Create(k) \/ Begin(k) \/ End(k) \/ Age(k) PROVE FALSE
        BY <2>3, <2>6 DEF Create, Begin, End, Tick, Age, history
    <2>7. CASE SetThresholds \/ Load \/ TakeChanged \/ CheckUnfinished \/ TakeUnfinished
               \/ Late \/ Finish \/ Report \/ Commit \/ EndLoad \/ Crash \/ UNCHANGED vars
        BY <2>3, <2>7 DEF SetThresholds, Load, TakeChanged, CheckUnfinished, TakeUnfinished,
           Take, Late, Finish, Report, Commit, EndLoad, Crash, history, vars
    <2> QED
        BY <2>4, <2>5, <2>6, <2>7 DEF Next, Step
<1> QED
    BY <1>1, Invariance, PTL DEF Spec, NoWarningAfterError
=============================================================================
