-------------------------- MODULE StatusEventsProofs --------------------------
(***************************************************************************)
(* The DEGRADED events that are held back, for every delay and every set   *)
(* of gateways; and, where the primary is the only gateway, the flag of    *)
(* the maintenance web server, which is never wrong then.  (With a second  *)
(* gateway it is wrong: run MaintGateways.)  After them, the other events  *)
(* that follow a colour, those of Notices.                                 *)
(***************************************************************************)
EXTENDS StatusEvents, Notices, TLAPS

Known ==
    /\ conn \subseteq Gateways
    /\ serving \subseteq Gateways
    /\ MaintIsKnown

\* Controller.maint("start"): an error at the only gateway means that its
\* server did not run before and does not run now.
LEMMA StartKnown ==
    ASSUME Gateways = {Primary}, Known, MaintStart, conn' = conn
    PROVE  Known'
<1>1. PICK failed \in SUBSET (conn \ serving) :
         /\ serving' = serving \union (conn \ failed)
         /\ maint' = IF conn = {} THEN maint ELSE failed = {}
  BY DEF MaintStart
<1>2. conn = {} \/ conn = {Primary}
  BY DEF Known
<1>3. serving' \subseteq Gateways
  BY <1>1 DEF Known
<1>4. CASE failed = {}
  BY <1>1, <1>2, <1>3, <1>4 DEF Known, MaintIsKnown
<1>5. CASE failed # {}
  <2>1. conn = {Primary} /\ failed = {Primary} /\ Primary \notin serving
    BY <1>1, <1>2, <1>5
  <2>2. serving' \intersect conn' = {}
    BY <1>1, <2>1
  <2> QED
    BY <1>3, <2>2 DEF Known, MaintIsKnown
<1> QED
  BY <1>4, <1>5

\* Controller.maint("stop"), for all gateways or for the one that connects.
LEMMA StopKnown ==
    ASSUME Gateways = {Primary}, Known,
           NEW reached \in SUBSET Gateways, MaintStop(reached),
           conn' \subseteq Gateways,
           reached = conn' \/ (reached = {} /\ conn' = {})
    PROVE  Known'
<1>1. PICK failed \in SUBSET reached :
         /\ serving' = serving \ (reached \ failed)
         /\ maint' = IF reached = {} THEN maint ELSE failed # {}
  BY DEF MaintStop
<1>2. serving' \subseteq Gateways
  BY <1>1 DEF Known
<1>3. CASE failed = {}
  <2>1. serving' \intersect conn' = {}
    BY <1>1, <1>3
  <2> QED
    BY <1>2, <2>1 DEF Known, MaintIsKnown
<1>4. CASE failed # {}
  <2>1. maint' = TRUE
    BY <1>1, <1>4
  <2> QED
    BY <1>2, <2>1 DEF Known, MaintIsKnown
<1> QED
  BY <1>3, <1>4

LEMMA SameKnown ==
    ASSUME Known, SameServing, conn' \subseteq conn
    PROVE  Known'
  BY DEF Known, SameServing, MaintIsKnown

LEMMA StopServingKnown ==
    ASSUME Gateways = {Primary}, Known, StopServing, conn' = conn
    PROVE  Known'
  BY StopKnown DEF StopServing, Known

LEMMA SetMainStateKnown ==
    ASSUME Gateways = {Primary}, Known, NEW status, SetMainState(status), conn' = conn
    PROVE  Known'
<1>1. SameServing \/ StopServing
  BY DEF SetMainState
<1> QED
  BY <1>1, SameKnown, StopServingKnown

LEMMA KnownStep ==
    ASSUME Gateways = {Primary}, Known, [Next]_vars
    PROVE  Known'
<1>1. CASE Poll
  BY <1>1, SetMainStateKnown DEF Poll
<1>2. CASE UserAction
  <2>1. CASE Start
    <3>1. (SameServing \/ StopServing) /\ conn' = conn
      BY <2>1 DEF Start
    <3> QED
      BY <3>1, SameKnown, StopServingKnown
  <2>2. ASSUME NEW command, NEW good, NEW mark, StopOrRestart(command, good, mark)
        PROVE  Known'
    BY <2>2, SameKnown DEF StopOrRestart
  <2> QED
    BY <1>2, <2>1, <2>2 DEF UserAction
<1>3. CASE Command
  <2>1. (SameServing \/ MaintStart) /\ conn' = conn
    BY <1>3 DEF Command
  <2> QED
    BY <2>1, SameKnown, StartKnown
<1>4. CASE Check
  <2>1. (SameServing \/ SetMainState(tableau)) /\ conn' = conn
    BY <1>4 DEF Check
  <2> QED
    BY <2>1, SameKnown, SetMainStateKnown
<1>5. CASE Finish
  BY <1>5, SameKnown DEF Finish
<1>6. CASE TypeMaint
  BY <1>6, StartKnown, StopServingKnown DEF TypeMaint
<1>7. ASSUME NEW m \in Gateways, Connect(m)
      PROVE  Known'
  <2>1. m = Primary /\ conn = {} /\ conn' = {m} /\ MaintStop({m})
    BY <1>7 DEF Connect, Known
  <2> QED
    BY <2>1, StopKnown
<1>8. ASSUME NEW m \in Gateways, Disconnect(m)
      PROVE  Known'
  BY <1>8, SameKnown DEF Disconnect
<1>9. CASE Outside
  BY <1>9, SameKnown DEF Outside, SameServing
<1>10. CASE Tick
  BY <1>10, SameKnown DEF Tick, SameServing
<1>11. CASE UNCHANGED vars
  BY <1>11, SameKnown DEF vars, SameServing
<1> QED
  BY <1>1, <1>2, <1>3, <1>4, <1>5, <1>6, <1>7, <1>8, <1>9, <1>10, <1>11 DEF Next

(***************************************************************************)
(* maint_started never says no while the connected gateway serves the      *)
(* maintenance page, so do_start never leaves it in Tableau's way unless   *)
(* its stop failed (clihandler.py:1793).                                   *)
(***************************************************************************)
THEOREM FlagIsTrue == Gateways = {Primary} => (Spec => []MaintIsKnown)
<1> SUFFICES ASSUME Gateways = {Primary}
             PROVE  Spec => []MaintIsKnown
  OBVIOUS
<1>1. Init => Known
  BY DEF Init, Known, MaintIsKnown
<1>2. Known /\ [Next]_vars => Known'
  BY KnownStep
<1>3. Known => MaintIsKnown
  BY DEF Known
<1> QED
  BY <1>1, <1>2, <1>3, PTL DEF Spec

-----------------------------------------------------------------------------
LEMMA NoActionIsAction == NoAction \in Actions
BY DEF NoAction, Actions

LEMMA InitTypeOK == Init => TypeOK
BY StatusEventsAssumption, NoActionIsAction
   DEF Init, TypeOK, SettledStates, PassingStates, Ages, Never, News

LEMMA AgesGrow ==
    ASSUME NEW age \in Ages
    PROVE  Older(age) \in Ages /\ age <= Older(age)
BY StatusEventsAssumption DEF Older, Ages, Never

\* A status changes the main state and what is remembered of the events, but not its types.
LEMMA SetMainStateTypes ==
    ASSUME TypeOK, NEW status \in TableauStatuses, SetMainState(status), conn' = conn
    PROVE  /\ main' \in (SettledStates \union PassingStates) \ {"STOPPING-RESTORE", "STARTING-RESTORE"}
           /\ first' \in Ages /\ run' \in Ages
           /\ sent' \in BOOLEAN /\ maint' \in BOOLEAN /\ serving' \subseteq Gateways
           /\ heard' \in News /\ told' \subseteq {"init", "late", "again"}
<1>1. SameServing \/ StopServing
    BY DEF SetMainState
<1>2. maint' \in BOOLEAN /\ serving' \subseteq Gateways
    BY <1>1 DEF SameServing, StopServing, MaintStop, TypeOK
<1>3. CASE main \notin Transitional
    BY <1>2, <1>3 DEF SetMainState, TypeOK
<1>4. CASE main \in Transitional
    <2> DEFINE events == Events(main, status)
    <2>1. /\ main' = StateFor(main, status)
          /\ SendEvents(events) /\ Remember(status, events)
        BY <1>4 DEF SetMainState
    <2>2. main' \in {"STARTED", "DEGRADED", "STOPPED", "STOPPED-UNEXPECTED"}
        BY <2>1 DEF StateFor, StateWhenStopped, TableauStatuses
    <2> HIDE DEF events
    <2>3. heard' \in News
        BY <2>1 DEF SendEvents, Told, TypeOK, News
    <2>4. first' \in Ages /\ run' \in Ages
        BY <2>1, StatusEventsAssumption DEF SendEvents, Remember, TypeOK, Ages, Never
    <2>5. sent' \in BOOLEAN
        BY <2>1 DEF SendEvents
    <2>6. told' \subseteq {"init", "late", "again"}
        BY <2>1 DEF Remember, TypeOK
    <2> QED
        BY <1>2, <2>2, <2>3, <2>4, <2>5, <2>6 DEF SettledStates, PassingStates
<1> QED
    BY <1>3, <1>4

LEMMA NextTypeOK == TypeOK /\ [Next]_vars => TypeOK'
<1> SUFFICES ASSUME TypeOK, [Next]_vars PROVE TypeOK'
    OBVIOUS
<1>0. tableau \in TableauStatuses
    BY DEF TypeOK
<1>1. CASE Poll
    BY <1>0, <1>1, SetMainStateTypes DEF Poll, TypeOK
<1>2. CASE UserAction
    <2>1. CASE Start
        <3>1. maint' \in BOOLEAN /\ serving' \subseteq Gateways
            BY <2>1 DEF Start, SameServing, StopServing, MaintStop, TypeOK
        <3> QED
            BY <2>1, <3>1 DEF Start, Quiet, TypeOK, Actions, NoAction, PassingStates
    <2>2. CASE StopOrRestart("stop", UpStates, "STOPPING")
        BY <2>2 DEF StopOrRestart, Quiet, SameServing, TypeOK, Actions, NoAction, PassingStates
    <2>3. CASE StopOrRestart("restart", ReadyStates, "RESTARTING")
        BY <2>3 DEF StopOrRestart, Quiet, SameServing, TypeOK, Actions, NoAction, PassingStates
    <2> QED
        BY <1>2, <2>1, <2>2, <2>3 DEF UserAction
<1>3. CASE Command
    <2>1. maint' \in BOOLEAN /\ serving' \subseteq Gateways
        BY <1>3 DEF Command, SameServing, MaintStart, TypeOK
    <2>2. tableau' \in TableauStatuses
        BY <1>0, <1>3 DEF Command, TableauStatuses
    <2>3. /\ action' \in Actions /\ heard' \in News
          /\ main' \in {main, "STARTED"}
        <3>1. action' = NoAction \/ \E ok \in BOOLEAN : action' = [action EXCEPT !.at = "check", !.ok = ok]
            BY <1>3 DEF Command
        <3>2. action' \in Actions
            BY <3>1, NoActionIsAction DEF TypeOK, Actions
        <3>3. main' \in {main, "STARTED"} /\ heard' \in {heard, "started", "restart_failed"}
            BY <1>3 DEF Command
        <3> QED
            BY <3>2, <3>3 DEF TypeOK, News
    <2> QED
        BY <1>3, <2>1, <2>2, <2>3 DEF Command, TypeOK, SettledStates
<1>4. CASE Check
    <2>1. action' \in Actions
        BY <1>4 DEF Check, TypeOK, Actions
    <2>2. CASE SetMainState(tableau)
        BY <1>0, <1>4, <2>1, <2>2, SetMainStateTypes DEF Check, TypeOK
    <2>3. CASE Quiet /\ SameServing /\ UNCHANGED main
        BY <1>4, <2>1, <2>3 DEF Check, Quiet, SameServing, TypeOK
    <2> QED
        BY <1>4, <2>2, <2>3 DEF Check
<1>5. CASE Finish
    <2>1. main' \in {main, "STARTED", "STOPPED"} /\ heard' \in {heard, "started", "stopped"}
        BY <1>5 DEF Finish, TypeOK, Actions
    <2>2. action' \in Actions
        BY <1>5 DEF Finish, NoAction, Actions
    <2> QED
        BY <1>5, <2>1, <2>2 DEF Finish, SameServing, TypeOK, SettledStates, News
<1>6. CASE TypeMaint
    BY <1>6 DEF TypeMaint, MaintStart, StopServing, MaintStop, Quiet, TypeOK
<1>7. ASSUME NEW m \in Gateways, Connect(m) PROVE TypeOK'
    BY <1>7 DEF Connect, MaintStop, Quiet, TypeOK, SettledStates
<1>8. ASSUME NEW m \in Gateways, Disconnect(m) PROVE TypeOK'
    <2>1. action' \in Actions /\ main' \in {main, "DISCONNECTED"}
        BY <1>8 DEF Disconnect, TypeOK, Actions
    <2> QED
        BY <1>8, <2>1 DEF Disconnect, Quiet, SameServing, TypeOK, SettledStates
<1>9. CASE Outside
    BY <1>9 DEF Outside, TypeOK
<1>10. CASE Tick
    BY <1>10, AgesGrow DEF Tick, TypeOK
<1>11. CASE UNCHANGED vars
    BY <1>11 DEF vars, TypeOK
<1> QED
    BY <1>1, <1>2, <1>3, <1>4, <1>5, <1>6, <1>7, <1>8, <1>9, <1>10, <1>11 DEF Next

(***************************************************************************)
(* first_degraded_time is never older than the DEGRADED statuses in a row, *)
(* and what was told late is remembered by sent_degraded_event as long as  *)
(* they last: together, what _send_events needs and nowhere compares.      *)
(***************************************************************************)
Held ==
    /\ first # Never => run # Never /\ first <= run
    /\ "late" \in told => sent
    /\ DegradedIsSentOnce

LEMMA HoldsBack ==
    ASSUME TypeOK, Held, NEW status \in TableauStatuses, SetMainState(status)
    PROVE  Held' /\ (IsDegradedSent => run >= DegradedMin)
<1>1. CASE main \notin Transitional
    BY <1>1 DEF SetMainState, Held, DegradedIsSentOnce, IsDegradedSent
<1>2. CASE main \in Transitional
    <2> DEFINE events == Events(main, status)
    <2>1. SendEvents(events) /\ Remember(status, events)
        BY <1>2 DEF SetMainState
    <2>2. status # "DEGRADED" => "degraded" \notin events /\ "init_degraded" \notin events
        BY DEF Events, TableauStatuses
    <2>3. status = "DEGRADED" => "degraded" \in events \/ "init_degraded" \in events
        BY DEF Events
    <2>4. ~("degraded" \in events /\ "init_degraded" \in events)
        BY DEF Events, TableauStatuses
    <2> HIDE DEF events
    <2>5. first' # Never => run' # Never /\ first' <= run'
        BY <2>1, <2>2 DEF SendEvents, Remember, Held, TypeOK, Ages, Never
    <2>6. Late(events) => first # Never /\ ~sent /\ first >= DegradedMin /\ "degraded" \in events
        BY DEF Late, Due
    <2>7. "late" \in told' => sent'
        BY <2>1, <2>2, <2>3, <2>4, <2>6 DEF SendEvents, Remember, Held, Late
    <2>8. "again" \notin told'
        BY <2>1, <2>6 DEF Remember, Held, DegradedIsSentOnce
    <2>9. IsDegradedSent => run >= DegradedMin
        <3>1. IsDegradedSent => Late(events)
            BY <2>1 DEF IsDegradedSent, Remember
        <3>2. first \in Int /\ run \in Int /\ DegradedMin \in Int
            BY StatusEventsAssumption DEF TypeOK, Ages, Never
        <3> QED
            BY <2>6, <3>1, <3>2 DEF Held
    <2> QED
        BY <2>5, <2>7, <2>8, <2>9 DEF Held, DegradedIsSentOnce
<1> QED
    BY <1>1, <1>2

LEMMA NextHeld ==
    ASSUME TypeOK, Held, [Next]_vars
    PROVE  Held' /\ (IsDegradedSent => run >= DegradedMin)
<1>0. tableau \in TableauStatuses
    BY DEF TypeOK
<1>1. ASSUME UNCHANGED <<first, run, sent, told>>
      PROVE  Held' /\ (IsDegradedSent => run >= DegradedMin)
    BY <1>1 DEF Held, DegradedIsSentOnce, IsDegradedSent
<1>2. CASE Poll
    BY <1>0, <1>2, HoldsBack DEF Poll
<1>3. CASE Check
    BY <1>0, <1>1, <1>3, HoldsBack DEF Check, Quiet
<1>4. CASE Tick
    <2>1. first \in Ages /\ run \in Ages
        BY DEF TypeOK
    <2>2. first' # Never => run' # Never /\ first' <= run'
        BY <1>4, <2>1, StatusEventsAssumption DEF Tick, Older, Held, Ages, Never
    <2> QED
        BY <1>4, <2>2 DEF Tick, Held, DegradedIsSentOnce, IsDegradedSent
<1>5. CASE UserAction \/ Command \/ Finish \/ TypeMaint \/ Outside \/ UNCHANGED vars
    BY <1>1, <1>5 DEF UserAction, Start, StopOrRestart, Command, Finish, TypeMaint, Outside, Quiet, vars
<1>6. ASSUME NEW m \in Gateways, Connect(m) \/ Disconnect(m)
      PROVE  UNCHANGED <<first, run, sent, told>>
    BY <1>6 DEF Connect, Disconnect, Quiet
<1> QED
    BY <1>1, <1>2, <1>3, <1>4, <1>5, <1>6 DEF Next

LEMMA HeldInvariance == Spec => [](TypeOK /\ Held)
<1>1. Init => Held
    BY DEF Init, Held, DegradedIsSentOnce
<1> QED
    BY <1>1, InitTypeOK, NextTypeOK, NextHeld, PTL DEF Spec

(***************************************************************************)
(* state_transitions.py:84, "actually sends only once": whatever           *)
(* reconnections, user actions and polls the DEGRADED statuses are         *)
(* interleaved with, they make at most one late event.                     *)
(***************************************************************************)
THEOREM LateEventIsSentOnce == Spec => []DelayHolds
<1>1. TypeOK /\ Held => DelayHolds
    BY DEF Held, DelayHolds
<1> QED
    BY <1>1, HeldInvariance, PTL

(***************************************************************************)
(* tableau.py:265, "until Tableau has a chance to recover": a late event   *)
(* comes after a whole DegradedMin of nothing but DEGRADED.                *)
(***************************************************************************)
THEOREM LateEventIsNotHasty == Spec => NoHastyDegraded
<1>1. TypeOK /\ Held /\ [Next]_vars => [IsDegradedSent => run >= DegradedMin]_vars
    BY NextHeld
<1> QED
    BY <1>1, HeldInvariance, PTL DEF Spec, NoHastyDegraded

-----------------------------------------------------------------------------
(***************************************************************************)
(* The other events about a colour, those of Notices: as long as no two    *)
(* checks have overlapped - for ports, always - what is noted in the       *)
(* database is what was told, and alerts do not repeat themselves, for     *)
(* every set of machines and every number of changes and restarts.         *)
(***************************************************************************)
Noted == Colors \union {None}
Jobs == [pc : {"idle", "next", "tell", "write"}, todo : SUBSET Agents, on : Agents, color : Noted]

LEMMA LevelsAreNoted == Levels \subseteq Noted
BY DEF Levels, Noted, Colors, None

LEMMA JobParts ==
    ASSUME NEW j \in Jobs
    PROVE  /\ j.pc \in {"idle", "next", "tell", "write"}
           /\ j.todo \subseteq Agents /\ j.on \in Agents /\ j.color \in Noted
BY DEF Jobs

LEMMA IdleIsJob ==
    /\ Idle \in Jobs
    /\ Idle.pc = "idle" /\ Idle.on = LicenseHost
BY LicenseAssumption DEF Idle, Jobs, Noted

\* What EXCEPT makes of a job.
LEMMA MovedJob ==
    ASSUME NEW j \in Jobs, NEW pc \in {"idle", "next", "tell", "write"}
    PROVE  /\ [j EXCEPT !.pc = pc] \in Jobs
           /\ [j EXCEPT !.pc = pc].pc = pc
           /\ [j EXCEPT !.pc = pc].on = j.on
           /\ [j EXCEPT !.pc = pc].color = j.color
BY DEF Jobs

LEMMA StartedJob ==
    ASSUME NEW j \in Jobs, NEW todo \in SUBSET Agents
    PROVE  /\ [j EXCEPT !.pc = "next", !.todo = todo] \in Jobs
           /\ [j EXCEPT !.pc = "next", !.todo = todo].pc = "next"
BY DEF Jobs

\* Thread t goes from its job to j.  Only the start of a check can make checks overlap.
JobStep(t, j) ==
    /\ t \in Threads
    /\ j \in Jobs
    /\ j.pc \in {"tell", "write"} => j.color # None
    /\ job' = [job EXCEPT ![t] = j]
    /\ kind' = kind
    /\ \/ /\ job[t].pc # "idle" /\ overlap' = overlap
       \/ /\ Free(t) /\ overlap' = (overlap \/ \E u \in Threads : job[u].pc # "idle")

JobsOK ==
    /\ job \in [Threads -> Jobs]
    /\ \A t \in Threads : job[t].pc \in {"tell", "write"} => job[t].color # None

LEMMA ApartAfterJobStep ==
    ASSUME JobsOK, ChecksApart, overlap \in BOOLEAN, NEW t, NEW j, JobStep(t, j)
    PROVE  JobsOK' /\ ChecksApart' /\ overlap' \in BOOLEAN /\ (overlap => overlap')
           /\ t \in Threads /\ job'[t] = j
           /\ \A u \in Threads \ {t} : job'[u] = job[u]
<1>1. t \in Threads /\ Threads' = Threads
  BY DEF JobStep, Threads
<1>2. /\ job'[t] = j /\ job' \in [Threads -> Jobs]
      /\ \A u \in Threads \ {t} : job'[u] = job[u]
  BY <1>1 DEF JobStep, JobsOK
<1>3. JobsOK'
  BY <1>1, <1>2 DEF JobStep, JobsOK
<1>4. overlap' \in BOOLEAN /\ (overlap => overlap')
  <2>1. CASE overlap' = overlap
    BY <2>1
  <2>2. CASE overlap' = (overlap \/ \E u \in Threads : job[u].pc # "idle")
    BY <2>2
  <2> QED
    BY <2>1, <2>2 DEF JobStep
<1>5. ASSUME ~ overlap', NEW u \in Threads, job[u].pc # "idle"
      PROVE  u = t
  <2>1. CASE job[t].pc # "idle"
    BY <1>1, <1>4, <1>5, <2>1 DEF ChecksApart
  <2>2. CASE job[t].pc = "idle"
    BY <1>5, <2>2 DEF JobStep
  <2> QED
    BY <2>1, <2>2
<1>6. ASSUME ~ overlap', NEW u \in Threads, job'[u].pc # "idle"
      PROVE  u = t
  BY <1>2, <1>5, <1>6
<1>7. kind' = "port" => ~ overlap'
  <2>1. CASE job[t].pc # "idle"
    BY <2>1 DEF JobStep, ChecksApart, Free
  <2>2. CASE job[t].pc = "idle"
    BY <2>2 DEF JobStep, ChecksApart, Free
  <2> QED
    BY <2>1, <2>2
<1>8. ChecksApart'
  BY <1>1, <1>6, <1>7 DEF ChecksApart
<1> QED
  BY <1>1, <1>2, <1>3, <1>4, <1>8

LEMMA OnwardStep ==
    ASSUME JobsOK, NEW t \in Threads, Onward(t)
    PROVE  \E j \in Jobs : j.pc \in {"idle", "next"} /\ job' = [job EXCEPT ![t] = j]
<1> DEFINE j == IF job[t].todo = {} THEN Idle ELSE [job[t] EXCEPT !.pc = "next"]
<1>1. job[t] \in Jobs
  BY DEF JobsOK
<1>2. j \in Jobs /\ j.pc \in {"idle", "next"}
  BY <1>1, IdleIsJob, MovedJob
<1>3. job' = [job EXCEPT ![t] = j]
  BY DEF Onward
<1> QED
  BY <1>2, <1>3

LEMMA SetStep ==
    ASSUME JobsOK, NEW t \in Threads, Set(t, "write")
    PROVE  \E j \in Jobs : /\ j.pc = "write" /\ j.on = job[t].on /\ j.color = job[t].color
                           /\ job' = [job EXCEPT ![t] = j]
<1>1. job[t] \in Jobs
  BY DEF JobsOK
<1>2. job' = [job EXCEPT ![t] = [job[t] EXCEPT !.pc = "write"]]
  BY DEF Set
<1> QED
  BY <1>1, <1>2, MovedJob

LEMMA TypesOfAlerts ==
    NoticesTypeOK <=>
        /\ kind \in Kinds
        /\ level \in [Agents -> Levels]
        /\ active \in [Agents -> BOOLEAN]
        /\ kind # "port" => \A a \in Agents : active[a]
        /\ row \in [Agents -> Noted]
        /\ JobsOK
        /\ changes \in 0 .. MaxChanges /\ crashes \in 0 .. MaxCrashes
        /\ last \in [Agents -> Noted]
        /\ overlap \in BOOLEAN
BY DEF NoticesTypeOK, JobsOK, Jobs, Noted

\* A step that tells nothing and writes nothing.
LEMMA QuietStepKeeps ==
    ASSUME NotesAreKept, NEW t, NEW j, JobStep(t, j),
           job[t].pc # "write", j.pc # "write",
           UNCHANGED <<kind, level, active, row, changes, crashes, last>>
    PROVE  NotesAreKept'
<1>1. /\ JobsOK' /\ ChecksApart' /\ overlap' \in BOOLEAN /\ (overlap => overlap')
      /\ job'[t] = j /\ \A u \in Threads \ {t} : job'[u] = job[u]
  BY TypesOfAlerts, ApartAfterJobStep DEF NotesAreKept
<1>2. NoticesTypeOK'
  BY <1>1 DEF NotesAreKept, NoticesTypeOK, Levels, Threads, JobsOK, Jobs, Noted
<1>3. ASSUME NEW u \in Threads, NEW a \in Agents
      PROVE  /\ Writing(u, a)' <=> Writing(u, a)
             /\ Writing(u, a) => job'[u] = job[u]
  BY <1>1 DEF Writing
<1>4. ToldIsNoted'
  BY <1>1, <1>3 DEF ToldIsNoted, NotesAreKept, Threads
<1> QED
  BY <1>1, <1>2, <1>4 DEF NotesAreKept

LEMMA StartKeeps ==
    ASSUME NotesAreKept, NEW t \in Threads, StartCheck(t)
    PROVE  NotesAreKept'
<1>1. job[t] \in Jobs
  BY TypesOfAlerts DEF NotesAreKept, JobsOK
<1>2. Watched \subseteq Agents
  BY LicenseAssumption DEF Watched
<1> DEFINE j == [job[t] EXCEPT !.pc = "next", !.todo = Watched]
<1>3. j \in Jobs /\ j.pc = "next"
  BY <1>1, <1>2, StartedJob
<1>4. job' = [job EXCEPT ![t] = j] /\ kind' = kind /\ Free(t)
  BY DEF StartCheck
<1> HIDE DEF j
<1>5. JobStep(t, j)
  BY <1>3, <1>4 DEF JobStep, StartCheck
<1>6. UNCHANGED <<kind, level, active, row, changes, crashes, last>> /\ job[t].pc = "idle"
  BY DEF StartCheck, Free
<1> QED
  BY <1>3, <1>5, <1>6, QuietStepKeeps

LEMMA MeasureKeeps ==
    ASSUME NotesAreKept, NEW t \in Threads, Measure(t)
    PROVE  NotesAreKept'
<1>1. job[t] \in Jobs /\ level \in [Agents -> Noted]
  BY TypesOfAlerts, LevelsAreNoted DEF NotesAreKept, JobsOK
<1> DEFINE rest(a) == [job[t] EXCEPT !.todo = @ \ {a}]
           alarmed(a) == [rest(a) EXCEPT !.pc = "tell", !.on = a, !.color = level[a]]
           next(a) == IF Measured(a) /\ Changed(a) THEN alarmed(a)
                      ELSE IF rest(a).todo = {} THEN Idle ELSE rest(a)
<1>2. PICK a \in job[t].todo : job' = [job EXCEPT ![t] = next(a)]
  BY DEF Measure
<1>3. a \in Agents /\ job[t].pc = "next"
  BY <1>1, <1>2, JobParts DEF Measure
<1>4. level[a] \in Noted
  BY <1>1, <1>3
<1>5. /\ rest(a) \in Jobs /\ rest(a).pc = "next"
      /\ alarmed(a) \in Jobs /\ alarmed(a).pc = "tell" /\ alarmed(a).color = level[a]
  <2> DEFINE k == job[t]
             c == level[a]
  <2> SUFFICES ASSUME k \in Jobs, a \in Agents, c \in Noted
               PROVE  LET r == [k EXCEPT !.todo = @ \ {a}]
                          q == [r EXCEPT !.pc = "tell", !.on = a, !.color = c]
                      IN  /\ r \in Jobs /\ r.pc = k.pc
                          /\ q \in Jobs /\ q.pc = "tell" /\ q.color = c
    BY <1>1, <1>3, <1>4
  <2> HIDE DEF k, c
  <2> QED
    BY DEF Jobs
<1> HIDE DEF rest, alarmed
<1>6. /\ next(a) \in Jobs /\ next(a).pc \in {"idle", "next", "tell"}
      /\ next(a).pc = "tell" => next(a).color # None
  BY <1>5, IdleIsJob DEF Measured
<1> HIDE DEF next
<1>7. JobStep(t, next(a))
  BY <1>2, <1>3, <1>6 DEF JobStep, Measure
<1>8. UNCHANGED <<kind, level, active, row, changes, crashes, last>>
  BY DEF Measure
<1> QED
  BY <1>3, <1>6, <1>7, <1>8, QuietStepKeeps

\* While the only check that runs is not about to write, the rows are up to date.
LEMMA RowsAreNoted ==
    ASSUME NotesAreKept, ~ overlap,
           NEW t \in Threads, job[t].pc \notin {"idle", "write"}
    PROVE  /\ \A a \in Agents : last[a] \in {None, row[a]}
           /\ \A u \in Threads \ {t} : job[u].pc = "idle"
<1>1. \A u \in Threads : job[u].pc # "idle" => u = t
  BY DEF NotesAreKept, ChecksApart
<1>2. \A u \in Threads, a \in Agents : ~ Writing(u, a)
  BY <1>1 DEF Writing
<1> QED
  BY <1>1, <1>2 DEF NotesAreKept, ToldIsNoted

\* A port that is not active: nothing is noted, and nothing told before counts.
LEMMA NeutralKeeps ==
    ASSUME NotesAreKept, NEW t \in Threads, Neutral(t)
    PROVE  NotesAreKept'
<1>1. JobsOK /\ job[t] \in Jobs /\ row \in [Agents -> Noted] /\ last \in [Agents -> Noted]
  BY TypesOfAlerts DEF NotesAreKept, JobsOK
<1> DEFINE rest(a) == [job[t] EXCEPT !.todo = @ \ {a}]
           next(a) == IF rest(a).todo = {} THEN Idle ELSE rest(a)
<1>2. PICK a \in job[t].todo : /\ row' = [row EXCEPT ![a] = None]
                               /\ last' = [last EXCEPT ![a] = None]
                               /\ job' = [job EXCEPT ![t] = next(a)]
  BY DEF Neutral
<1>3. /\ a \in Agents /\ job[t].pc = "next"
      /\ UNCHANGED <<kind, level, active, changes, crashes, overlap>>
  BY <1>1, <1>2, JobParts DEF Neutral
<1>4. rest(a) \in Jobs /\ rest(a).pc = "next"
  <2> DEFINE k == job[t]
  <2> SUFFICES ASSUME k \in Jobs, a \in Agents
               PROVE  LET r == [k EXCEPT !.todo = @ \ {a}]
                      IN  r \in Jobs /\ r.pc = k.pc
    BY <1>1, <1>3
  <2> HIDE DEF k
  <2> QED
    BY DEF Jobs
<1> HIDE DEF rest
<1>5. next(a) \in Jobs /\ next(a).pc \in {"idle", "next"}
  BY <1>4, IdleIsJob
<1> HIDE DEF next
<1>6. JobStep(t, next(a))
  BY <1>2, <1>3, <1>5 DEF JobStep
<1>7. /\ JobsOK' /\ ChecksApart' /\ job'[t] = next(a)
      /\ \A u \in Threads \ {t} : job'[u] = job[u]
  BY <1>1, <1>6, ApartAfterJobStep, TypesOfAlerts DEF NotesAreKept
<1>8. /\ row' \in [Agents -> Noted] /\ last' \in [Agents -> Noted]
      /\ last'[a] = None
      /\ \A b \in Agents \ {a} : row'[b] = row[b] /\ last'[b] = last[b]
  BY <1>1, <1>2, <1>3 DEF Noted
<1>9. NoticesTypeOK'
  BY <1>3, <1>7, <1>8 DEF NotesAreKept, NoticesTypeOK, Levels, Threads, JobsOK, Jobs, Noted
<1>10. \A u \in Threads, b \in Agents :
          /\ Writing(u, b)' <=> Writing(u, b)
          /\ Writing(u, b) => job'[u] = job[u]
  BY <1>3, <1>5, <1>7 DEF Writing
<1>11. ToldIsNoted'
  <2> SUFFICES ASSUME ~ overlap, NEW b \in Agents
               PROVE  /\ \A u \in Threads :
                            Writing(u, b)' => last'[b] \in {None, job'[u].color}
                      /\ (\A u \in Threads : ~ Writing(u, b)') => last'[b] \in {None, row'[b]}
    BY <1>3 DEF ToldIsNoted, Threads
  <2>1. CASE b = a
    BY <1>8, <2>1
  <2>2. CASE b # a
    BY <1>8, <1>10, <2>2 DEF ToldIsNoted, NotesAreKept
  <2> QED
    BY <2>1, <2>2
<1> QED
  BY <1>7, <1>9, <1>11 DEF NotesAreKept

\* On to the row: the event was due and goes out, or a port's row is written all the same.
LEMMA TellOrPassKeeps ==
    ASSUME NotesAreKept, NEW t \in Threads,
           job[t].pc = "tell", Set(t, "write"),
           IF EventDue(job[t].color, row[job[t].on])
           THEN last' = [last EXCEPT ![job[t].on] = job[t].color]
           ELSE last' = last,
           UNCHANGED <<kind, level, active, row, changes, crashes, overlap>>
    PROVE  NotesAreKept'
<1>1. JobsOK /\ t \in Threads /\ ChecksApart /\ last \in [Agents -> Noted]
  BY TypesOfAlerts DEF NotesAreKept
<1>2. PICK j \in Jobs : /\ j.pc = "write" /\ j.on = job[t].on /\ j.color = job[t].color
                        /\ job' = [job EXCEPT ![t] = j]
  BY <1>1, SetStep
<1>3. job[t].on \in Agents /\ job[t].color \in Noted /\ job[t].color # None
  BY <1>1, JobParts DEF JobsOK
<1>4. JobStep(t, j)
  BY <1>2, <1>3 DEF JobStep
<1>5. /\ JobsOK' /\ ChecksApart' /\ overlap' = overlap /\ job'[t] = j
      /\ \A u \in Threads \ {t} : job'[u] = job[u]
  BY <1>1, <1>2, <1>4, ApartAfterJobStep, TypesOfAlerts DEF NotesAreKept
<1>6. /\ last' \in [Agents -> Noted]
      /\ \A a \in Agents : a # job[t].on => last'[a] = last[a]
      /\ EventDue(job[t].color, row[job[t].on]) => last'[job[t].on] = job[t].color
      /\ ~ EventDue(job[t].color, row[job[t].on]) => last'[job[t].on] = last[job[t].on]
  BY <1>1, <1>3
<1>7. NoticesTypeOK'
  BY <1>5, <1>6 DEF NotesAreKept, NoticesTypeOK, Levels, Threads, JobsOK, Jobs, Noted
<1>8. ASSUME ~ overlap, NEW a \in Agents
      PROVE  /\ \A u \in Threads :
                    Writing(u, a)' => last'[a] \in {None, job'[u].color}
             /\ (\A u \in Threads : ~ Writing(u, a)') => last'[a] \in {None, row'[a]}
  <2>1. /\ last[a] \in {None, row[a]}
        /\ \A u \in Threads \ {t} : job[u].pc = "idle"
    BY <1>1, <1>8, RowsAreNoted
  <2>2. \A u \in Threads : Writing(u, a)' <=> u = t /\ a = job[t].on
    BY <1>1, <1>2, <1>5, <2>1 DEF Writing
  <2>3. CASE a # job[t].on
    BY <1>6, <2>1, <2>2, <2>3
  <2>4. CASE a = job[t].on
    <3>1. last'[a] \in {None, job[t].color}
      BY <1>6, <2>1, <2>4 DEF EventDue
    <3> QED
      BY <1>1, <1>2, <1>5, <2>2, <2>4, <3>1
  <2> QED
    BY <2>3, <2>4
<1>9. ToldIsNoted'
  BY <1>8 DEF ToldIsNoted, Threads
<1> QED
  BY <1>5, <1>7, <1>9 DEF NotesAreKept

LEMMA TellKeeps ==
    ASSUME NotesAreKept, NEW t \in Threads, Tell(t)
    PROVE  NotesAreKept'
<1>1. /\ job[t].pc = "tell"
      /\ UNCHANGED <<kind, level, active, row, changes, crashes, overlap>>
  BY DEF Tell
<1>2. CASE EventDue(job[t].color, row[job[t].on])
  BY <1>1, <1>2, TellOrPassKeeps DEF Tell
<1>3. CASE ~ EventDue(job[t].color, row[job[t].on]) /\ kind = "port"
  BY <1>1, <1>3, TellOrPassKeeps DEF Tell
<1>4. CASE ~ EventDue(job[t].color, row[job[t].on]) /\ kind # "port"
  <2>1. Onward(t) /\ last' = last
    BY <1>4 DEF Tell
  <2>2. PICK j \in Jobs : j.pc \in {"idle", "next"} /\ job' = [job EXCEPT ![t] = j]
    BY <2>1, OnwardStep, TypesOfAlerts DEF NotesAreKept
  <2>3. JobStep(t, j)
    BY <1>1, <2>2 DEF JobStep
  <2> QED
    BY <1>1, <2>1, <2>2, <2>3, QuietStepKeeps
<1> QED
  BY <1>2, <1>3, <1>4

LEMMA WriteKeeps ==
    ASSUME NotesAreKept, NEW t \in Threads, Write(t)
    PROVE  NotesAreKept'
<1>1. JobsOK /\ t \in Threads /\ ChecksApart /\ row \in [Agents -> Noted]
  BY TypesOfAlerts DEF NotesAreKept
<1>2. /\ job[t].pc = "write" /\ UNCHANGED <<kind, level, active, changes, crashes, last, overlap>>
      /\ row' = [row EXCEPT ![job[t].on] = job[t].color]
  BY DEF Write
<1>3. PICK j \in Jobs : j.pc \in {"idle", "next"} /\ job' = [job EXCEPT ![t] = j]
  BY <1>1, OnwardStep DEF Write
<1>4. JobStep(t, j)
  BY <1>2, <1>3 DEF JobStep
<1>5. /\ JobsOK' /\ ChecksApart' /\ overlap' = overlap /\ job'[t] = j
      /\ \A u \in Threads \ {t} : job'[u] = job[u]
  BY <1>1, <1>2, <1>4, ApartAfterJobStep, TypesOfAlerts DEF NotesAreKept
<1>6. job[t].on \in Agents /\ job[t].color \in Noted
  BY <1>1, JobParts DEF JobsOK
<1>7. row' \in [Agents -> Noted]
  BY <1>1, <1>2, <1>6
<1>8. NoticesTypeOK'
  BY <1>2, <1>5, <1>7 DEF NotesAreKept, NoticesTypeOK, Levels, Threads, JobsOK, Jobs, Noted
<1>9. ASSUME ~ overlap, NEW a \in Agents
      PROVE  /\ \A u \in Threads : ~ Writing(u, a)'
             /\ last[a] \in {None, row'[a]}
  <2>1. \A u \in Threads : job[u].pc # "idle" => u = t
    BY <1>1, <1>2, <1>9 DEF ChecksApart
  <2>2. \A u \in Threads : ~ Writing(u, a)'
    BY <1>3, <1>5, <2>1 DEF Writing
  <2>3. CASE a = job[t].on
    <3>1. Writing(t, a)
      BY <1>2, <2>3 DEF Writing
    <3>2. last[a] \in {None, job[t].color}
      BY <1>1, <1>9, <3>1 DEF NotesAreKept, ToldIsNoted
    <3> QED
      BY <1>1, <1>2, <2>2, <2>3, <3>2
  <2>4. CASE a # job[t].on
    <3>1. \A u \in Threads : ~ Writing(u, a)
      BY <2>1, <2>4 DEF Writing
    <3>2. last[a] \in {None, row[a]}
      BY <1>9, <3>1 DEF NotesAreKept, ToldIsNoted
    <3> QED
      BY <1>1, <1>2, <2>2, <2>4, <3>2
  <2> QED
    BY <2>3, <2>4
<1>10. ToldIsNoted'
  BY <1>2, <1>9 DEF ToldIsNoted, Threads
<1> QED
  BY <1>5, <1>8, <1>10 DEF NotesAreKept

LEMMA ChangeKeeps ==
    ASSUME NotesAreKept, Change
    PROVE  NotesAreKept'
<1>1. PICK a \in Watched, l \in Levels : level' = [level EXCEPT ![a] = l]
  BY DEF Change
<1>2. /\ changes \in Nat /\ changes < MaxChanges /\ changes' = changes + 1
      /\ UNCHANGED <<kind, active, row, job, crashes, last, overlap>>
  BY BoundAssumption DEF Change, NotesAreKept, NoticesTypeOK
<1>3. changes' \in 0 .. MaxChanges
  BY <1>2, BoundAssumption
<1>4. Levels' = Levels
  BY <1>2 DEF Levels
<1>5. level' \in [Agents -> Levels]
  BY <1>1 DEF NotesAreKept, NoticesTypeOK
<1>6. NoticesTypeOK'
  BY <1>2, <1>3, <1>4, <1>5 DEF NotesAreKept, NoticesTypeOK, Threads
<1> QED
  BY <1>2, <1>6 DEF NotesAreKept, ChecksApart, ToldIsNoted,
                    Writing, Threads

LEMMA SwitchKeeps ==
    ASSUME NotesAreKept, Switch
    PROVE  NotesAreKept'
<1>1. PICK a \in Watched : active' = [active EXCEPT ![a] = ~ @]
  BY DEF Switch
<1>2. /\ changes \in Nat /\ changes < MaxChanges /\ changes' = changes + 1
      /\ kind = "port" /\ UNCHANGED <<kind, level, row, job, crashes, last, overlap>>
  BY BoundAssumption DEF Switch, NotesAreKept, NoticesTypeOK
<1>3. changes' \in 0 .. MaxChanges
  BY <1>2, BoundAssumption
<1>4. Levels' = Levels
  BY <1>2 DEF Levels
<1>5. active' \in [Agents -> BOOLEAN]
  BY <1>1 DEF NotesAreKept, NoticesTypeOK
<1>6. NoticesTypeOK'
  BY <1>2, <1>3, <1>4, <1>5 DEF NotesAreKept, NoticesTypeOK, Threads
<1> QED
  BY <1>2, <1>6 DEF NotesAreKept, ChecksApart, ToldIsNoted, Writing, Threads

\* A restart between an event and its row forgets the event.
LEMMA RestartKeeps ==
    ASSUME NotesAreKept, Restart
    PROVE  NotesAreKept'
<1>1. /\ crashes \in Nat /\ crashes < MaxCrashes /\ crashes' = crashes + 1
      /\ UNCHANGED <<kind, level, active, row, changes, overlap>>
  BY BoundAssumption DEF Restart, NotesAreKept, NoticesTypeOK
<1>2. crashes' \in 0 .. MaxCrashes
  BY <1>1, BoundAssumption
<1>3. /\ job' \in [Threads -> Jobs]
      /\ \A t \in Threads : job'[t] = Idle /\ job'[t].pc = "idle"
  BY IdleIsJob DEF Restart
<1>4. last \in [Agents -> Noted]
  BY TypesOfAlerts DEF NotesAreKept
<1>5. \A a \in Agents :
        last'[a] = IF \E t \in Threads : Writing(t, a) THEN None ELSE last[a]
  BY DEF Restart, Writing
<1>6. last' \in [Agents -> Noted]
  BY <1>4, <1>5 DEF Restart, Noted
<1>7. NoticesTypeOK'
  BY <1>1, <1>2, <1>3, <1>6
     DEF NotesAreKept, NoticesTypeOK, Levels, Threads, Jobs, Noted
<1>8. ChecksApart'
  BY <1>1, <1>3 DEF ChecksApart, Threads, NotesAreKept
<1>9. ToldIsNoted'
  BY <1>1, <1>3, <1>5 DEF ToldIsNoted, NotesAreKept, Writing, Threads
<1> QED
  BY <1>7, <1>8, <1>9 DEF NotesAreKept

LEMMA InitIsNoted == NoticesInit => NotesAreKept
<1> SUFFICES ASSUME NoticesInit
             PROVE  NotesAreKept
  OBVIOUS
<1>1. "green" \in Levels
  BY DEF Levels, Colors
<1>2. \A t \in Threads : job[t] \in Jobs /\ job[t].pc = "idle"
  BY IdleIsJob DEF NoticesInit
<1>3. JobsOK
  BY <1>2 DEF JobsOK, NoticesInit
<1>4. NoticesTypeOK
  <2>1. /\ changes \in 0 .. MaxChanges /\ crashes \in 0 .. MaxCrashes
    BY BoundAssumption DEF NoticesInit
  <2>2. /\ active \in [Agents -> BOOLEAN] /\ \A a \in Agents : active[a]
        /\ overlap \in BOOLEAN
    BY DEF NoticesInit
  <2> QED
    BY <1>1, <1>3, <2>1, <2>2, TypesOfAlerts DEF NoticesInit, Noted
<1>5. ChecksApart
  BY <1>2 DEF ChecksApart, NoticesInit
<1>6. ToldIsNoted
  BY <1>2 DEF ToldIsNoted, Writing, NoticesInit
<1> QED
  BY <1>4, <1>5, <1>6 DEF NotesAreKept

LEMMA NextIsNoted ==
    NotesAreKept /\ [NoticesNext]_noticesVars => NotesAreKept'
<1> SUFFICES ASSUME NotesAreKept, [NoticesNext]_noticesVars
             PROVE  NotesAreKept'
  OBVIOUS
<1>1. CASE UNCHANGED noticesVars
  BY <1>1 DEF noticesVars, NotesAreKept, NoticesTypeOK, Levels, Threads,
              ChecksApart, ToldIsNoted, Writing
<1>2. ASSUME NEW t \in Threads, CheckMachines(t)
      PROVE  NotesAreKept'
  BY <1>2, StartKeeps, MeasureKeeps, TellKeeps, WriteKeeps, NeutralKeeps DEF CheckMachines, Goes
<1> QED
  BY <1>1, <1>2, ChangeKeeps, SwitchKeeps, RestartKeeps DEF NoticesNext

(***************************************************************************)
(* Load, disks, licence and ports: the colour in the database (row) is     *)
(* that of the last event, or the check that runs is about to write it     *)
(* (metrics.py:276-297, ports.py:69-84), until two checks have overlapped; *)
(* and check_ports_lock keeps those of the ports from overlapping at all.  *)
(***************************************************************************)
THEOREM WhatWasToldIsNoted == NoticesSpec => []NotesAreKept
<1>1. NoticesInit => NotesAreKept
  BY InitIsNoted
<1>2. NotesAreKept /\ [NoticesNext]_noticesVars => NotesAreKept'
  BY NextIsNoted
<1> QED
  BY <1>1, <1>2, PTL DEF NoticesSpec

(***************************************************************************)
(* An event repeats the colour of the one before only after two checks     *)
(* have overlapped, which nothing prevents for metrics, disks and the      *)
(* licence (clihandler.py:1623) and check_ports_lock does for ports        *)
(* (clihandler.py:1594).                                                   *)
(***************************************************************************)
THEOREM AlertsRepeatAfterOverlapOnly == NoticesSpec => AlertsAlternate
<1>1. ASSUME NotesAreKept,
             NEW t \in Threads, ~ overlap, Tells(t)
      PROVE  job[t].color # last[job[t].on]
  <2>1. t \in Threads
    BY <1>1
  <2>2. /\ job[t].pc = "tell" /\ job[t].color # None /\ job[t].on \in Agents
        /\ job[t].color # row[job[t].on]
    BY <1>1, <2>1, TypesOfAlerts, JobParts
       DEF Tells, EventDue, NotesAreKept, JobsOK
  <2>3. last[job[t].on] \in {None, row[job[t].on]}
    BY <1>1, <2>1, <2>2, RowsAreNoted
  <2> QED
    BY <2>2, <2>3
<1>2. NotesAreKept =>
        [\A t \in Threads :
            ~ overlap /\ Tells(t) => job[t].color # last[job[t].on]]_noticesVars
  BY <1>1
<1>3. NoticesSpec => []NotesAreKept
  BY WhatWasToldIsNoted
<1> QED
  BY <1>2, <1>3, PTL DEF AlertsAlternate
=============================================================================
