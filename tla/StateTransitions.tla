-------------------------- MODULE StateTransitions --------------------------
(***************************************************************************)
(* The main state the controller shows its users, the status that Tableau  *)
(* reports, and the table that takes one to the other:                     *)
(* src/controller/controller/state.py, state_transitions.py and the part   *)
(* of TableauStatusMonitor._set_main_state that looks the table up.        *)
(*                                                                         *)
(* Events and the maintenance web server are left out of the table.        *)
(***************************************************************************)

\* state.py: the states no user action is in.
SettledStates ==
    {"DISCONNECTED", "PENDING", "STARTED", "DEGRADED", "STOPPED",
     "STOPPED-UNEXPECTED"}

\* state_transitions.py: a user action is on, but a status may end the state.
PassingStates ==
    {"STOPPING", "STOPPING-RESTORE", "STARTING", "STARTING-RESTORE",
     "RESTARTING"}

\* A user action is on and only that action ends the state.
ActionStates ==
    {"STOPPED-BACKUP", "STOPPED-BACKUP-RESTORE", "STOPPED-FILEDEL",
     "STOPPED-ZIPLOGS", "STOPPED-CLEANUP", "STARTED-BACKUP",
     "STARTED-BACKUP-RESTORE", "STARTED-BACKUP-STOP",
     "STARTED-BACKUP-RESTART", "STARTED-FILEDEL", "STARTED-ZIPLOGS",
     "STARTED-CLEANUP"}

MainStates == SettledStates \union PassingStates \union ActionStates

\* What Tableau is; the controller may also not know (STATUS_UNKNOWN).
TableauStatuses == {"RUNNING", "STOPPED", "DEGRADED"}
Statuses == TableauStatuses \union {"UNKNOWN"}

UpStates == {"STARTED", "DEGRADED"}
DownStates == {"STOPPED", "STOPPED-UNEXPECTED"}

\* The states from which backup, restore and restart may begin.
ReadyStates == UpStates \union DownStates

\* The keys of TRANSITIONS.
Transitional ==
    {"PENDING", "STARTED", "DEGRADED", "STOPPED", "STOPPED-UNEXPECTED"}
        \union PassingStates

\* The states whose entry in TRANSITIONS is STOP_DICT.
StopDictStates ==
    {"STOPPED", "STOPPING", "STOPPING-RESTORE", "STARTING-RESTORE"}

(***************************************************************************)
(* TRANSITIONS[prev_state][tableau_status]['state'], for a Tableau that    *)
(* reports it is down: only where Palette stopped it, or on first contact, *)
(* is that expected.                                                       *)
(***************************************************************************)
StateWhenStopped(prev) ==
    IF prev \in StopDictStates \union {"PENDING"}
    THEN "STOPPED" ELSE "STOPPED-UNEXPECTED"

StateFor(prev, status) ==
    CASE status = "RUNNING"  -> "STARTED"
      [] status = "DEGRADED" -> "DEGRADED"
      [] status = "STOPPED"  -> StateWhenStopped(prev)

\* Mutant: a restore is not looked up in the table on any version.
NextState_StuckRestore(prev, status, pre82) ==
    IF \/ status \notin TableauStatuses
       \/ prev \notin Transitional
       \/ prev = "STARTING-RESTORE"
    THEN prev ELSE StateFor(prev, status)

(***************************************************************************)
(* _set_main_state: the state that follows prev when Tableau reports       *)
(* status.  An unknown status, or a state that is not in the table, leaves *)
(* prev as it is.  So does STARTING-RESTORE on Tableau 8.0 and 8.1: there  *)
(* new_state_info becomes all of START_DICT instead of its entry for the   *)
(* status, and START_DICT itself has no 'state'.                           *)
(***************************************************************************)
NextState(prev, status, pre82) ==
    IF \/ status \notin TableauStatuses
       \/ prev \notin Transitional
       \/ prev = "STARTING-RESTORE" /\ pre82
    THEN prev ELSE StateFor(prev, status)

\* The settled states that tell the truth about a Tableau in this status.
Agreed(status) ==
    CASE status = "RUNNING"  -> {"STARTED"}
      [] status = "DEGRADED" -> {"DEGRADED"}
      [] status = "STOPPED"  -> DownStates

=============================================================================
