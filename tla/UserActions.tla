----------------------------- MODULE UserActions ----------------------------
(***************************************************************************)
(* The commands a user types that act on Tableau, as clihandler.py runs    *)
(* them: do_backup, do_deletefile, do_ziplogs, do_cleanup, do_start,       *)
(* do_stop, do_restart, do_restore, do_restore_url and do_support_case,    *)
(* with pre_stop and Controller.restore_cmd, restore_url, restore_local.   *)
(*                                                                         *)
(* One action is one stretch between two reads or writes of shared state.  *)
(* An update that is followed by the release of the lock is one action     *)
(* with it, and the release of the read lock by the decorator too.         *)
(***************************************************************************)
EXTENDS StatusMonitor

StartedMark ==
    [backup |-> "STARTED-BACKUP", deletefile |-> "STARTED-FILEDEL",
     ziplogs |-> "STARTED-ZIPLOGS", cleanup |-> "STARTED-CLEANUP",
     restore |-> "STARTED-BACKUP-RESTORE"]

StoppedMark ==
    [backup |-> "STOPPED-BACKUP", deletefile |-> "STOPPED-FILEDEL",
     ziplogs |-> "STOPPED-ZIPLOGS", cleanup |-> "STOPPED-CLEANUP",
     restore |-> "STOPPED-BACKUP-RESTORE"]

\* The main states in which each action may begin.
GoodStates(kind) ==
    CASE kind = "start" -> DownStates
      [] kind = "stop"  -> UpStates
      [] OTHER          -> ReadyStates

\* The reported statuses in which each action that looks may begin.
GoodStatuses(kind) ==
    CASE kind = "start" -> {"STOPPED"}
      [] kind = "stop"  -> {"RUNNING", "DEGRADED"}
      [] OTHER          -> TableauStatuses

Update(state) == main' = state

\* An error path: unlock and leave the state alone.
GiveUp(t) ==
    /\ Unlock(t)
    /\ Return(t)
    /\ UNCHANGED main

\* Mutant: the error path forgets to put the state back.
PutBack_NoUpdate(t) ==
    /\ UNCHANGED main
    /\ Unlock(t)
    /\ Return(t)

\* The state found at the start is restored, and the lock given up.
PutBack(t) ==
    /\ Update(th[t].saved)
    /\ Unlock(t)
    /\ Return(t)

unchangedByUsers == <<reported, tableau, primary, handler, up, upgrade>>

-----------------------------------------------------------------------------

\* The decorator takes the read lock, get_agent finds the primary.
Call(t) ==
    /\ th[t].pc = "idle"
    /\ CanRead
    /\ primary # 0
    /\ \E kind \in Kinds :
          th' = [th EXCEPT ![t] = [Idle EXCEPT !.pc = "lock", !.kind = kind,
                                               !.conn = primary]]
    /\ UNCHANGED <<main, reported, tableau, primary, handler, up, owner, upgrade>>

(***************************************************************************)
(* user_action_lock: most actions answer BUSY when it is taken,            *)
(* do_restore_url waits for it, do_support_case does not look at the       *)
(* result.                                                                 *)
(***************************************************************************)
Lock(t) ==
    LET c == th[t].conn
        kind == th[t].kind IN
    /\ th[t].pc = "lock"
    /\ \/ /\ owner[c] = Nobody
          /\ owner' = [owner EXCEPT ![c] = t]
          /\ Goto(t, IF kind = "support_case" THEN "command" ELSE "check")
       \/ /\ owner[c] # Nobody
          /\ kind = "support_case"
          /\ Goto(t, "command")
          /\ UNCHANGED owner
       \/ /\ owner[c] # Nobody
          /\ kind \notin {"support_case", "restore_url"}
          /\ Return(t)
          /\ UNCHANGED owner
    /\ UNCHANGED <<main, reported, tableau, primary, handler, up, upgrade>>

(***************************************************************************)
(* The main state is read, once: it is what the action will put back.      *)
(* start and restore_url never do, what they read is not kept here.        *)
(***************************************************************************)
Check(t) ==
    LET kind == th[t].kind IN
    /\ th[t].pc = "check"
    /\ IF main \in GoodStates(kind)
       THEN /\ th' = [th EXCEPT
                  ![t].saved = IF kind \in {"start", "restore_url"} THEN @ ELSE main,
                  ![t].pc = IF kind = "restore_url" THEN "get_file" ELSE "enter"]
            /\ UNCHANGED <<main, owner>>
       ELSE GiveUp(t)
    /\ UNCHANGED unchangedByUsers

-----------------------------------------------------------------------------
(***************************************************************************)
(* "enter": the action marks the main state as its own.  deletefile,       *)
(* ziplogs and cleanup choose the mark by the main state they read ...     *)
(***************************************************************************)
MarkByState(t) ==
    LET kind == th[t].kind IN
    /\ th[t].pc = "enter"
    /\ kind \in Housekeeping \ {"backup"}
    /\ Update(IF th[t].saved \in UpStates THEN StartedMark[kind]
                                          ELSE StoppedMark[kind])
    /\ Goto(t, "command")
    /\ UNCHANGED owner
    /\ UNCHANGED unchangedByUsers

\* ... backup and restore by the reported status; /nolicense skips a step ...
MarkByStatus(t) ==
    LET kind == th[t].kind IN
    /\ th[t].pc = "enter"
    /\ kind \in {"backup", "restore"}
    /\ reported \in GoodStatuses(kind)
    /\ Update(IF reported = "STOPPED" THEN StoppedMark[kind]
                                      ELSE StartedMark[kind])
    /\ IF kind = "backup" THEN Goto(t, "command")
       ELSE Goto(t, "license") \/ Goto(t, "licensed")
    /\ UNCHANGED owner
    /\ UNCHANGED unchangedByUsers

\* ... and start has one mark.
MarkStart(t) ==
    /\ th[t].pc = "enter"
    /\ th[t].kind = "start"
    /\ reported \in GoodStatuses("start")
    /\ Update("STARTING")
    /\ Goto(t, "command")
    /\ UNCHANGED owner
    /\ UNCHANGED unchangedByUsers

\* pre_stop of stop and restart only looks.
PreStop(t) ==
    LET kind == th[t].kind IN
    /\ th[t].pc = "enter"
    /\ kind \in {"stop", "restart"}
    /\ reported \in GoodStatuses(kind)
    /\ Goto(t, "license") \/ Goto(t, "licensed")
    /\ UNCHANGED <<main, owner>>
    /\ UNCHANGED unchangedByUsers

\* The wrong reported status, or no such backup file to restore.
Refuse(t) ==
    LET kind == th[t].kind IN
    /\ th[t].pc = "enter"
    /\ \/ /\ kind \in (AllKinds \ Housekeeping) \union {"backup"}
          /\ reported \notin GoodStatuses(kind)
       \/ kind = "restore"
    /\ GiveUp(t)
    /\ UNCHANGED unchangedByUsers

-----------------------------------------------------------------------------
(***************************************************************************)
(* A command goes to the agent (cli_cmd and the commands made of it) and   *)
(* its reply is awaited.  What tabadmin does to Tableau is external.       *)
(***************************************************************************)
AfterSuccess(t) ==
    LET kind == th[t].kind IN
    CASE th[t].pc = "license"      -> "licensed"
      [] th[t].pc = "backup_first" -> "backed_up"
      [] th[t].pc = "get_file"     -> "restore"
      [] th[t].pc = "restore_stop" -> "restore_stopped"
      [] th[t].pc = "restore_run"  -> "fetch"
      [] th[t].pc = "command" /\ kind = "restart" -> "restarted"
      [] th[t].pc = "command" /\ kind \in {"start", "stop"} -> "fetch"
      [] OTHER -> "finish"

AfterFailure(t) ==
    CASE th[t].pc \in {"license", "backup_first"} -> "not_prepared"
      [] th[t].pc \in {"get_file", "restore_stop", "restore_run"} -> "restore_failed"
      [] th[t].pc = "command" /\ th[t].kind \in {"start", "stop", "restart"} -> "fetch"
      [] OTHER -> "finish"

Effect(t) ==
    LET pc == th[t].pc
        kind == th[t].kind IN
    CASE pc = "restore_stop" -> {"STOPPED"}
      [] pc = "restore_run"  -> {IF Pre82 THEN "RUNNING" ELSE "STOPPED"}
      [] pc = "command" /\ kind = "stop" -> {"STOPPED"}
      [] pc = "command" /\ kind \in {"start", "restart"} -> {"RUNNING", "DEGRADED"}
      [] OTHER -> {tableau}

CommandSucceeds(t) ==
    /\ th[t].pc \in CommandPCs
    /\ th[t].conn \in up
    /\ tableau' \in Effect(t)
    /\ th' = [th EXCEPT ![t].pc = AfterSuccess(t),
                        ![t].started = th[t].kind = "start"]
    /\ UNCHANGED <<main, reported, primary, handler, up, owner, upgrade>>

\* It may fail after it has changed Tableau: a timeout, an exit status.
CommandFails(t) ==
    /\ th[t].pc \in CommandPCs
    /\ th[t].conn \in up
    /\ tableau' \in {tableau} \union Effect(t)
    /\ Goto(t, AfterFailure(t))
    /\ UNCHANGED <<main, reported, primary, handler, up, owner, upgrade>>

\* The request or its reply is lost with the connection: _send_cli.
CommandLost(t) ==
    /\ th[t].pc \in CommandPCs
    /\ th[t].conn \notin up
    /\ tableau' \in {tableau} \union Effect(t)
    /\ RemoveAgentAndStatus(th[t].conn)
    /\ Goto(t, AfterFailure(t))
    /\ UNCHANGED <<handler, owner, upgrade>>

Command(t) == CommandSucceeds(t) \/ CommandFails(t) \/ CommandLost(t)

-----------------------------------------------------------------------------
\* stop, restart and restore, once the license and the backup are done with.
Proceed(t) ==
    CASE th[t].kind = "stop"    -> Update("STOPPING") /\ Goto(t, "command")
      [] th[t].kind = "restart" -> Update("RESTARTING") /\ Goto(t, "command")
      [] th[t].kind = "restore" -> UNCHANGED main /\ Goto(t, "get_file")

\* The license check or the backup before the action failed.
NotPrepared(t) ==
    /\ th[t].pc = "not_prepared"
    /\ PutBack(t)
    /\ UNCHANGED unchangedByUsers

Prepared(t) ==
    /\ th[t].pc \in {"licensed", "backed_up"}
    /\ Proceed(t)
    /\ UNCHANGED owner
    /\ UNCHANGED unchangedByUsers

\* Unless /nobackup is given.
BackupFirst(t) ==
    /\ th[t].pc = "licensed"
    /\ CASE th[t].kind = "stop"    -> Update("STARTED-BACKUP-STOP")
         [] th[t].kind = "restart" -> Update("STARTED-BACKUP-RESTART")
         [] th[t].kind = "restore" -> UNCHANGED main
    /\ Goto(t, "backup_first")
    /\ UNCHANGED owner
    /\ UNCHANGED unchangedByUsers

\* The backup succeeded but its copy failed: only restore stops there.
CopyFailed(t) ==
    /\ th[t].pc = "backed_up"
    /\ th[t].kind = "restore"
    /\ PutBack(t)
    /\ UNCHANGED unchangedByUsers

-----------------------------------------------------------------------------
\* restore_local, the backup file being on the primary.
RestoreLocal(t) ==
    /\ th[t].pc = "restore"
    /\ IF reported = "RUNNING"
       THEN Update("STOPPING-RESTORE") /\ Goto(t, "restore_stop")
       ELSE Update("STARTING-RESTORE") /\ Goto(t, "restore_run")
    /\ UNCHANGED owner
    /\ UNCHANGED unchangedByUsers

RestoreStopped(t) ==
    /\ th[t].pc = "restore_stopped"
    /\ Update("STARTING-RESTORE")
    /\ Goto(t, "restore_run")
    /\ UNCHANGED owner
    /\ UNCHANGED unchangedByUsers

\* Mutant: a restore that failed is tried again, for ever.
RestoreFailed_Retry(t) ==
    /\ th[t].pc = "restore_failed"
    /\ Goto(t, "get_file")
    /\ UNCHANGED <<main, owner>>
    /\ UNCHANGED unchangedByUsers

\* restore_cmd puts the main state back, restore_url leaves it as it is.
RestoreFailed(t) ==
    /\ th[t].pc = "restore_failed"
    /\ IF th[t].kind = "restore" THEN Update(th[t].saved) ELSE UNCHANGED main
    /\ Goto(t, "fetch")
    /\ UNCHANGED owner
    /\ UNCHANGED unchangedByUsers

\* do_restart does not wait for a status when the restart succeeded.
Restarted(t) ==
    /\ th[t].pc = "restarted"
    /\ Update("STARTED")
    /\ Unlock(t)
    /\ Return(t)
    /\ UNCHANGED unchangedByUsers

-----------------------------------------------------------------------------
FinishHousekeeping(t) ==
    /\ th[t].pc = "finish"
    /\ th[t].kind \in Housekeeping
    /\ PutBack(t)
    /\ UNCHANGED unchangedByUsers

\* do_start overrides what the status check has just found.
FinishStart(t) ==
    /\ th[t].pc = "finish"
    /\ th[t].kind = "start"
    /\ Update(IF th[t].started THEN "STARTED" ELSE "STOPPED")
    /\ Unlock(t)
    /\ Return(t)
    /\ UNCHANGED unchangedByUsers

\* The status check has set the main state.
FinishChecked(t) ==
    /\ th[t].pc = "finish"
    /\ th[t].kind \in {"stop", "restart", "restore", "restore_url"}
    /\ GiveUp(t)
    /\ UNCHANGED unchangedByUsers

(***************************************************************************)
(* do_support_case unlocks whether it has the lock or not: RLock.release   *)
(* raises RuntimeError for anybody but the owner, and handle() answers an  *)
(* exception of a command with os._exit.                                   *)
(***************************************************************************)
FinishSupportCase(t) ==
    /\ th[t].pc = "finish"
    /\ th[t].kind = "support_case"
    /\ IF owner[th[t].conn] = t
       THEN GiveUp(t) /\ UNCHANGED unchangedByUsers
       ELSE StartUp /\ UNCHANGED tableau

UserAction(t) ==
    \/ Lock(t) \/ Check(t)
    \/ MarkByState(t) \/ MarkByStatus(t) \/ MarkStart(t) \/ PreStop(t) \/ Refuse(t)
    \/ Command(t)
    \/ NotPrepared(t) \/ Prepared(t) \/ BackupFirst(t) \/ CopyFailed(t)
    \/ RestoreLocal(t) \/ RestoreStopped(t) \/ RestoreFailed(t)
    \/ Restarted(t)
    \/ FinishHousekeeping(t) \/ FinishStart(t) \/ FinishChecked(t)
    \/ FinishSupportCase(t)

=============================================================================
