------------------------------ MODULE MonitorPage ------------------------------
(***************************************************************************)
(* What the web application shows of the controller's state: monitor.py,   *)
(* which the browser asks once a second, with the table state_control.json *)
(* of colours and of the actions a user may click.                         *)
(*                                                                         *)
(* The page is a function of rows that other threads write one by one: the *)
(* main state, UPGRADING, and a row for each machine and for each Tableau  *)
(* process.  It is looked at in every state of TableauState, for every     *)
(* state the machines' own rows may have.                                  *)
(***************************************************************************)
EXTENDS TableauState

Colors == {"red", "yellow", "green"}
Rank(color) == CASE color = "red" -> 1 [] color = "yellow" -> 2 [] color = "green" -> 3
Worst(colors) == CHOOSE c \in colors : \A d \in colors : Rank(c) <= Rank(d)

\* The page has two states of its own.
ShownStates == MainStates \union {"UPGRADING", "PRIMARY-NOT-ENABLED"}

StateColor(state) ==
    CASE state \in {"DISCONNECTED", "STOPPED-UNEXPECTED", "DEGRADED", "PRIMARY-NOT-ENABLED"} -> "red"
      [] state \in {"STARTED", "STARTED-BACKUP", "STARTED-BACKUP-RESTORE", "STARTED-BACKUP-STOP",
                    "STARTED-BACKUP-RESTART", "STARTED-FILEDEL", "STARTED-ZIPLOGS",
                    "STARTED-CLEANUP"} -> "green"
      [] OTHER -> "yellow"

Always == {"backup", "restore", "restart", "repair-license", "ziplogs"}

\* Mutant: the table offers a start when DEGRADED.
AllowableActions_StartDegraded(state) ==
    CASE state \in DownStates \union {"DEGRADED"} -> Always \union {"start"}
      [] state = "STARTED" -> Always \union {"stop", "user-refresh"}
      [] state \in {"STARTING", "STARTED-BACKUP", "STARTED-ZIPLOGS", "STARTED-CLEANUP"} -> {"user-refresh"}
      [] OTHER -> {}

AllowableActions(state) ==
    CASE state \in DownStates -> Always \union {"start"}
      [] state \in UpStates -> Always \union {"stop", "user-refresh"}
      [] state \in {"STARTING", "STARTED-BACKUP", "STARTED-ZIPLOGS", "STARTED-CLEANUP"} -> {"user-refresh"}
      [] OTHER -> {}

-----------------------------------------------------------------------------
(***************************************************************************)
(* The rows of a machine.  health: the worst of its licence, volumes,      *)
(* ports and CPU load; procs: none listed, all running, one not running,   *)
(* or an error in the place of the list (pid -1).                          *)
(***************************************************************************)
Machines(type, connected) ==
    [type : {type}, enabled : {TRUE}, connected : connected, health : {"green", "red"},
     procs : {"none", "running", "broken", "error"}]
    \union {[type |-> type, enabled |-> FALSE, connected |-> FALSE, health |-> "red",
             procs |-> "error"]}

\* The primary's row is connected before it is registered, and until its
\* agent is removed.
Primaries ==
    Machines("primary", IF primary # 0 THEN {TRUE}
                        ELSE IF ReadingConns # {} THEN BOOLEAN ELSE {FALSE})
Workers == Machines("worker", BOOLEAN)

\* calculate_main_state
CalculateMainState(machines) ==
    IF upgrade = "on" THEN "UPGRADING"
    ELSE IF \E m \in machines : m.type = "primary" /\ ~m.enabled THEN "PRIMARY-NOT-ENABLED"
    ELSE main

\* Mutant: the primary is taken as connected whenever the state is not DISCONNECTED.
Reach_ByState(m, state) ==
    IF state \in {"DISCONNECTED", "PENDING"} /\ m.type = "primary" THEN "red"
    ELSE IF m.connected \/ m.type = "primary" THEN m.health ELSE "red"

Reach(m, state) ==
    IF state \in {"DISCONNECTED", "PENDING"} /\ m.type = "primary" THEN "red"
    ELSE IF m.connected THEN m.health ELSE "red"

\* A stopped Tableau makes a machine yellow whatever was wrong with it, its
\* processes make it red again.
AgentColor(m, state) ==
    IF m.procs \in {"broken", "error"} \/ (m.type = "worker" /\ m.procs = "none") THEN "red"
    ELSE CASE state = "STOPPED" -> "yellow"
           [] state = "STOPPED-UNEXPECTED" -> "red"
           [] OTHER -> Reach(m, state)

WorkerProblem(m) == m.procs = "error" \/ (m.type = "worker" /\ m.procs = "none")

\* The state the administrators see, with its colour and the actions it offers.
AdminView(machines) ==
    LET state == CalculateMainState(machines)
        enabled == {m \in machines : m.enabled}
        degraded == state = "STARTED" /\ \E m \in enabled : WorkerProblem(m)
        shown == IF degraded THEN "DEGRADED" ELSE state
    IN  [state |-> shown,
         color |-> CASE degraded -> "red"
                     [] state = "UPGRADING" -> StateColor(state)
                     [] OTHER -> Worst({StateColor(state)} \union
                                       {AgentColor(m, state) : m \in enabled}),
         actions |-> AllowableActions(state)]

-----------------------------------------------------------------------------
\* The actions of the page that UserActions has.
Clicks == {"start", "stop", "restart", "backup", "restore", "ziplogs"}

(***************************************************************************)
(* state_control.json and the state tests of clihandler.py are two tables  *)
(* kept by hand: an action is offered exactly in the states in which the   *)
(* command it sends may begin, also when STARTED is shown as DEGRADED      *)
(* (monitor.py:481) and unless the controller is upgrading or the primary  *)
(* is not enabled.                                                         *)
(***************************************************************************)
Glances ==
    {{[type |-> "primary", enabled |-> e, connected |-> primary # 0, health |-> "green",
       procs |-> "running"],
      [type |-> "worker", enabled |-> TRUE, connected |-> TRUE, health |-> "green", procs |-> p]} :
     e \in BOOLEAN, p \in {"none", "running"}}

OfferedIsAccepted ==
    \A machines \in Glances :
        LET view == AdminView(machines)
        IN  view.state \notin {"UPGRADING", "PRIMARY-NOT-ENABLED"} =>
                \A action \in Clicks : action \in view.actions <=> main \in GoodStates(action)

\* u works on Tableau and has marked the main state as its own.
AtWork(u) ==
    /\ \/ th[u].pc \in {"command", "backup_first", "restore_stop", "restore_run"}
       \/ th[u].kind = "restore" /\ th[u].pc \in {"license", "licensed"}
    /\ th[u].kind # "support_case"
    /\ primary # 0 /\ th[u].conn = primary

\* The buttons that the page has in some row of the machines, but for the users' refresh.
Buttons == (UNION {AdminView(machines).actions : machines \in Glances}) \ {"user-refresh"}

(***************************************************************************)
(* The page loses its buttons when an action on the primary begins its     *)
(* work, and has none until that work ends: no write of the status         *)
(* monitor, of an agent that comes or goes or of another action's error    *)
(* path brings them back, however often the agent reconnects.  Only a      *)
(* thread that is still at work on a connection that has been replaced may *)
(* do so: its user action lock is another one (agentmanager.py:70).        *)
(***************************************************************************)
ButtonsStayAway ==
    [][\A u \in Users :
          AtWork(u)' => \/ Buttons' = {}
                        \/ AtWork(u) /\ Buttons # {}
                        \/ StepsElsewhere(primary')]_vars

(***************************************************************************)
(* The buttons of the page follow the main state: what may begin, nothing  *)
(* while something works.                                                  *)
(***************************************************************************)
OffersAreRight == []OfferedIsAccepted /\ ButtonsStayAway

(***************************************************************************)
(* A green page hides nothing: no enabled machine is out of reach, in red  *)
(* health or short of a process, and Tableau is up as far as the           *)
(* controller knows; also where an action that lost its agent puts the     *)
(* main state back to STARTED afterwards.                                  *)
(***************************************************************************)
GreenIsHealthy ==
    \A p \in Primaries, w \in Workers :
        LET enabled == {m \in {p, w} : m.enabled}
        IN  AdminView({p, w}).color = "green" =>
                /\ main \notin DownStates \union PassingStates \union {"DEGRADED", "DISCONNECTED"}
                /\ primary # 0 \/ ReadingConns # {}
                /\ \A m \in enabled :
                      m.connected /\ m.health = "green" /\ m.procs \notin {"broken", "error"}
=============================================================================
