------------------------------ MODULE StatusEvents -----------------------------
(***************************************************************************)
(* What TableauStatusMonitor._set_main_state does beside the main state:   *)
(* the events it sends for a transition, the DEGRADED events it holds back *)
(* "until Tableau has a chance to recover" (_send_events), and the         *)
(* maintenance web servers it stops (Controller.maint), with do_start,     *)
(* do_stop, do_restart, do_maint and the set-up of agents, which tell the  *)
(* users about Tableau and switch these servers too.                       *)
(*                                                                         *)
(* Time is counted in ages: the seconds that matter are those between two  *)
(* moments, up to event-degraded-min.  A status is fetched and written in  *)
(* one step: TableauState has what happens in between.                     *)
(***************************************************************************)
EXTENDS Integers, FiniteSets, StateTransitions

CONSTANTS
    Primary,        \* the machine of the primary agent
    Gateways,       \* gateway.hosts of workgroup.yml
    DegradedMin     \* event-degraded-min

ASSUME StatusEventsAssumption ==
    Primary \in Gateways /\ IsFiniteSet(Gateways) /\ DegradedMin \in Nat

VARIABLES
    main,           \* the main state
    tableau,        \* what Tableau is (external)
    first,          \* the age of first_degraded_time, or Never
    sent,           \* sent_degraded_event
    conn,           \* the gateways whose agent is connected
    maint,          \* server.maint_started
    serving,        \* the gateways whose maintenance web server runs
    action,         \* the user action that is on
    heard,          \* the last event about Tableau's state that was sent
    run,            \* the age of the DEGRADED statuses that came in a row, or Never
    told            \* what was sent about them: at first contact, late, and again

vars == <<main, tableau, first, sent, conn, maint, serving, action, heard, run, told>>

Never == -1
Ages == {Never} \union 0..DegradedMin
News == {"nothing", "started", "stopped", "degraded", "restart_failed"}

NoAction == [kind |-> "none", at |-> "command", ok |-> FALSE, lost |-> FALSE]
Actions ==
    [kind : {"none", "start", "stop", "restart"},
     at   : {"command", "check", "finish"},
     ok   : BOOLEAN,        \* success(body)
     lost : BOOLEAN]        \* its connection is gone

TypeOK ==
    /\ main \in (SettledStates \union PassingStates) \ {"STOPPING-RESTORE", "STARTING-RESTORE"}
    /\ tableau \in TableauStatuses
    /\ first \in Ages /\ run \in Ages
    /\ sent \in BOOLEAN /\ maint \in BOOLEAN
    /\ conn \subseteq Gateways /\ serving \subseteq Gateways
    /\ action \in Actions
    /\ heard \in News
    /\ told \subseteq {"init", "late", "again"}

Init ==
    /\ main = "DISCONNECTED" /\ tableau \in TableauStatuses
    /\ first = Never /\ sent = FALSE
    /\ conn = {} /\ maint = FALSE /\ serving = {}
    /\ action = NoAction
    /\ heard = "nothing" /\ run = Never /\ told = {}

-----------------------------------------------------------------------------
(***************************************************************************)
(* Controller.maint for all gateways: those that are not connected are     *)
(* skipped, those in failed answer with an error.  One flag stands for all *)
(* of them; without any agent nothing is done.  (The agent is not here: a  *)
(* start is taken to succeed where the server runs already.)               *)
(***************************************************************************)
MaintStart ==
    \E failed \in SUBSET (conn \ serving) :
        /\ serving' = serving \union (conn \ failed)
        /\ maint' = IF conn = {} THEN maint ELSE failed = {}

\* Mutant: a stop that failed counts as a stop.
MaintStop_Assumed(reached) ==
    \E failed \in SUBSET reached :
        /\ serving' = serving \ (reached \ failed)
        /\ maint' = IF reached = {} THEN maint ELSE FALSE

MaintStop(reached) ==
    \E failed \in SUBSET reached :
        /\ serving' = serving \ (reached \ failed)
        /\ maint' = IF reached = {} THEN maint ELSE failed # {}

StopServing == MaintStop(conn)
SameServing == UNCHANGED <<maint, serving>>

-----------------------------------------------------------------------------
\* TRANSITIONS[prev][status]['events'].
Events(prev, status) ==
    CASE prev = "PENDING" ->
            CASE status = "RUNNING" -> {"init_started"} [] status = "STOPPED" -> {"init_stopped"}
              [] OTHER -> {"init_degraded"}
      [] prev \in StopDictStates \union {"STOPPED-UNEXPECTED"} ->
            CASE status = "RUNNING" -> {"unexpected_started"} [] status = "STOPPED" -> {}
              [] OTHER -> {"unexpected_started", "degraded"}
      [] OTHER ->
            CASE status = "RUNNING" -> IF prev = "DEGRADED" THEN {"started_after_degraded"} ELSE {}
              [] status = "STOPPED" -> {"unexpected_stopped"}
              [] OTHER -> {"degraded"}

\* Mutants: the delay is not waited for; the event is sent at every poll.
Due_AtOnce == first # Never /\ ~sent
Due_Again == first # Never /\ first >= DegradedMin

\* Is a DEGRADED event sent now?
Due == first # Never /\ ~sent /\ first >= DegradedMin

Late(events) == "degraded" \in events /\ Due

\* Mutant: the end of a DEGRADED that was sent is kept quiet.
Told_QuietRecovery(events) ==
    CASE Late(events) \/ "init_degraded" \in events -> "degraded"
      [] events \intersect {"init_started", "unexpected_started"} # {} -> "started"
      [] events \intersect {"init_stopped", "unexpected_stopped"} # {} -> "stopped"
      [] OTHER -> heard

\* The last of them that _send_events sends.
Told(events) ==
    CASE Late(events) \/ "init_degraded" \in events -> "degraded"
      [] events \intersect {"init_started", "unexpected_started"} # {} -> "started"
      [] "started_after_degraded" \in events /\ sent -> "started"
      [] events \intersect {"init_stopped", "unexpected_stopped"} # {} -> "stopped"
      [] OTHER -> heard

SendEvents(events) ==
    /\ heard' = Told(events)
    /\ first' = IF "degraded" \notin events THEN Never ELSE IF first = Never THEN 0 ELSE first
    /\ sent' = ("degraded" \in events /\ (sent \/ Due))

\* History: the DEGRADED statuses in a row, whatever became of them.
Remember(status, events) ==
    /\ run' = IF status # "DEGRADED" THEN Never ELSE IF run = Never THEN 0 ELSE run
    /\ told' = CASE "init_degraded" \in events -> {"init"}
                 [] Late(events) -> told \union {IF "late" \in told THEN "again" ELSE "late"}
                 [] OTHER -> IF status = "DEGRADED" THEN told ELSE {}

\* _set_main_state: a maintenance server must be out of a running Tableau's way.
SetMainState(status) ==
    IF main \notin Transitional
    THEN SameServing /\ UNCHANGED <<main, first, sent, heard, run, told>>
    ELSE /\ main' = StateFor(main, status)
         /\ SendEvents(Events(main, status))
         /\ Remember(status, Events(main, status))
         /\ IF /\ main \in StopDictStates \union {"STOPPED-UNEXPECTED"}
               /\ status # "STOPPED" /\ maint
            THEN StopServing
            ELSE SameServing

(***************************************************************************)
(* The monitor's poll: not while a user action has the lock of this        *)
(* connection.  A status that is unknown, or no status, changes nothing.   *)
(***************************************************************************)
Poll ==
    /\ Primary \in conn
    /\ action.kind = "none" \/ action.lost
    /\ SetMainState(tableau)
    /\ UNCHANGED <<tableau, conn, action>>

-----------------------------------------------------------------------------
Quiet == UNCHANGED <<first, sent, heard, run, told>>

\* do_start: the maintenance server gives the port up first.
Start ==
    /\ action.kind = "none" /\ Primary \in conn /\ main \in DownStates
    /\ main' = "STARTING"
    /\ IF maint THEN StopServing ELSE SameServing
    /\ action' = [NoAction EXCEPT !.kind = "start"]
    /\ Quiet /\ UNCHANGED <<tableau, conn>>

StopOrRestart(kind, good, mark) ==
    /\ action.kind = "none" /\ Primary \in conn /\ main \in good
    /\ main' = mark
    /\ action' = [NoAction EXCEPT !.kind = kind]
    /\ Quiet /\ SameServing /\ UNCHANGED <<tableau, conn>>

UserAction ==
    \/ Start
    \/ StopOrRestart("stop", UpStates, "STOPPING")
    \/ StopOrRestart("restart", ReadyStates, "RESTARTING")

\* tabadmin has answered; it may fail after it has changed Tableau.  A stop
\* may then start the maintenance servers.
Command ==
    /\ action.kind # "none" /\ action.at = "command"
    /\ \E ok \in {b \in BOOLEAN : b => ~action.lost} :
          /\ tableau' \in (IF ok THEN {} ELSE {tableau}) \union
                          (IF action.kind = "stop" THEN {"STOPPED"} ELSE {"RUNNING", "DEGRADED"})
          /\ IF action.kind = "restart" /\ ok
             THEN /\ main' = "STARTED" /\ heard' = "started" /\ action' = NoAction
             ELSE /\ action' = [action EXCEPT !.at = "check", !.ok = ok]
                  /\ heard' = IF action.kind = "restart" THEN "restart_failed" ELSE heard
                  /\ UNCHANGED main
          /\ \/ SameServing
             \/ action.kind = "stop" /\ ok /\ MaintStart
    /\ UNCHANGED <<first, sent, conn, run, told>>

\* check_status_with_connection; its request fails if the connection is gone.
Check ==
    /\ action.kind # "none" /\ action.at = "check"
    /\ action' = [action EXCEPT !.at = "finish"]
    /\ \/ ~action.lost /\ SetMainState(tableau)
       \/ action.lost /\ Quiet /\ SameServing /\ UNCHANGED main
    /\ UNCHANGED <<tableau, conn>>

Finish ==
    /\ action.kind # "none" /\ action.at = "finish"
    /\ action' = NoAction
    /\ CASE action.kind = "start" ->
                IF action.ok THEN main' = "STARTED" /\ heard' = "started"
                             ELSE main' = "STOPPED" /\ heard' = "stopped"
         [] action.kind = "stop" ->
                UNCHANGED main /\ heard' = IF action.ok THEN "stopped" ELSE heard
         [] action.kind = "restart" -> UNCHANGED <<main, heard>>
    /\ SameServing /\ UNCHANGED <<tableau, first, sent, conn, run, told>>

-----------------------------------------------------------------------------
\* "maint start" and "maint stop", an upgrade, a change of the gateways.
TypeMaint ==
    /\ (MaintStart \/ StopServing)
    /\ Quiet /\ UNCHANGED <<main, tableau, conn, action>>

\* config_servers "puts into a known state" the server of the agent that
\* connects; then the primary is registered.
Connect(m) ==
    /\ m \notin conn
    /\ conn' = conn \union {m}
    /\ MaintStop({m})
    /\ main' = IF m = Primary THEN "PENDING" ELSE main
    /\ Quiet /\ UNCHANGED <<tableau, action>>

Disconnect(m) ==
    /\ m \in conn
    /\ conn' = conn \ {m}
    /\ IF m = Primary
       THEN main' = "DISCONNECTED" /\ action' = [action EXCEPT !.lost = action.kind # "none"]
       ELSE UNCHANGED <<main, action>>
    /\ Quiet /\ SameServing /\ UNCHANGED tableau

Outside ==
    /\ tableau' \in TableauStatuses \ {tableau}
    /\ UNCHANGED <<main, first, sent, conn, maint, serving, action, heard, run, told>>

Older(age) == IF age \in {Never, DegradedMin} THEN age ELSE age + 1

Tick ==
    /\ first' = Older(first) /\ run' = Older(run)
    /\ UNCHANGED <<main, tableau, sent, conn, maint, serving, action, heard, told>>

Next ==
    \/ Poll \/ UserAction \/ Command \/ Check \/ Finish \/ TypeMaint
    \/ \E m \in Gateways : Connect(m) \/ Disconnect(m)
    \/ Outside \/ Tick

\* The monitor polls, commands have timeouts, time passes.
Spec ==
    /\ Init /\ [][Next]_vars
    /\ WF_vars(Poll) /\ WF_vars(Command \/ Check \/ Finish) /\ WF_vars(Tick)

-----------------------------------------------------------------------------
IsDegradedSent == "late" \in told' \ told

(***************************************************************************)
(* tableau.py:265: "don't send DEGRADED-related events until Tableau has a *)
(* chance to recover": a late DEGRADED event comes only when every status  *)
(* of the last DegradedMin was DEGRADED, although first_degraded_time is   *)
(* kept across reconnections and the user actions that check too.          *)
(***************************************************************************)
NoHastyDegraded == [][IsDegradedSent => run >= DegradedMin]_vars

(***************************************************************************)
(* state_transitions.py:84: "actually sends only once": one late event for *)
(* the DEGRADED statuses in a row that follow one first contact.           *)
(***************************************************************************)
DegradedIsSentOnce == "again" \notin told

\* The delay's variables, as _send_events leaves them, allow no second event.
DelayHolds == TypeOK /\ DegradedIsSentOnce

Calm(status) ==
    /\ Primary \in conn /\ action = NoAction
    /\ tableau = status

(***************************************************************************)
(* A Tableau that stays DEGRADED is told to the users in the end, and one  *)
(* that has recovered does not leave DEGRADED as the last thing they heard *)
(* (unless they heard it at first contact and it recovered within          *)
(* DegradedMin: then sent_degraded_event is still FALSE).                  *)
(***************************************************************************)
DegradedIsTold == <>[]Calm("DEGRADED") => <>[](told # {})

RecoveryIsTold ==
    [](/\ "late" \in told /\ heard = "degraded"
       => <>(heard # "degraded" \/ ~Calm("RUNNING")))

\* What the users heard last comes to agree with Tableau (_send_events).
UsersAreTold == DegradedIsTold /\ RecoveryIsTold

(***************************************************************************)
(* do_start stops the maintenance server "if it is started" to get its     *)
(* port (clihandler.py:1793): the flag never says no while the server of a *)
(* connected gateway runs, whatever failed, was lost or reconnected.       *)
(***************************************************************************)
MaintIsKnown == serving \intersect conn # {} => maint

=============================================================================
