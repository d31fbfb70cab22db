---------------------------- MODULE TableauState ----------------------------
(***************************************************************************)
(* The controller's threads together: user actions, the status monitor,    *)
(* agent connections and upgrades, and what must hold of the main state.   *)
(***************************************************************************)
EXTENDS UserActions

-----------------------------------------------------------------------------
(***************************************************************************)
(* do_upgrade "on" and "off", typed in turn on one telnet connection, as   *)
(* the upgrade scripts do.  A writer that finds readers waits.             *)
(***************************************************************************)
UpgradeOn ==
    /\ upgrade = "off"
    /\ upgrade' = IF ReadingThreads = {} /\ ReadingConns = {}
                  THEN "checking" ELSE "waiting"
    /\ UNCHANGED <<main, reported, tableau, primary, handler, up, owner, th>>

\* Mutant: the writer waits for the commands but not for new agents.
UpgradeAcquired_IgnoreConns ==
    /\ upgrade = "waiting"
    /\ ReadingThreads = {}
    /\ upgrade' = "checking"
    /\ UNCHANGED <<main, reported, tableau, primary, handler, up, owner, th>>

UpgradeAcquired ==
    /\ upgrade = "waiting"
    /\ ReadingThreads = {} /\ ReadingConns = {}
    /\ upgrade' = "checking"
    /\ UNCHANGED <<main, reported, tableau, primary, handler, up, owner, th>>

UpgradeableStates == ReadyStates \union {"PENDING", "DISCONNECTED"}

\* UPGRADING is saved, or the lock is released since a user action is on.
UpgradeChecked ==
    /\ upgrade = "checking"
    /\ upgrade' = IF main \in UpgradeableStates THEN "on" ELSE "off"
    /\ UNCHANGED <<main, reported, tableau, primary, handler, up, owner, th>>

UpgradeOff ==
    /\ upgrade = "on"
    /\ upgrade' = "off"
    /\ UNCHANGED <<main, reported, tableau, primary, handler, up, owner, th>>

Upgrade == UpgradeOn \/ UpgradeAcquired \/ UpgradeChecked \/ UpgradeOff

-----------------------------------------------------------------------------
Next ==
    \/ \E u \in Users : Call(u) \/ UserAction(u)
    \/ MonitorStart
    \/ \E t \in Threads : CheckStatus(t)
    \/ Connections
    \/ Upgrade
    \/ Environment

Spec == Init /\ [][Next]_vars

(***************************************************************************)
(* A command that was typed goes on to its end: every request to an agent  *)
(* has a timeout.  The monitor polls.  A handler thread goes on with the   *)
(* setup and the pings of its connection.  A writer that waits is woken    *)
(* (RWLock).  Nobody is obliged to type a command, to connect or to end an *)
(* upgrade.                                                                *)
(***************************************************************************)
Setup(c) == SetupFails(c) \/ Register(c) \/ FinishSetup(c) \/ SetupAborts(c)

Fairness ==
    /\ \A u \in Users : WF_vars(UserAction(u) \/ CheckStatus(u))
    /\ WF_vars(MonitorStart)
    /\ WF_vars(CheckStatus(Monitor))
    /\ \A c \in Conns : WF_vars(Setup(c)) /\ WF_vars(PingFails(c))
    /\ WF_vars(UpgradeAcquired)
    /\ WF_vars(UpgradeChecked)

FairSpec == Spec /\ Fairness

-----------------------------------------------------------------------------
InAction(u) == th[u].pc \notin {"idle", "lock"}

(***************************************************************************)
(* Every return path of the user actions and of _finish_status gives the   *)
(* user action lock up: a lock that is held belongs to a thread that is    *)
(* still at work on that connection.  A leaked lock would answer BUSY to   *)
(* every action until the agent reconnects.                                *)
(***************************************************************************)
NoLeakedLock ==
    \A c \in Conns :
        owner[c] # Nobody =>
            /\ th[owner[c]].conn = c
            /\ owner[c] = Monitor => th[Monitor].pc = "write"
            /\ owner[c] # Monitor => InAction(owner[c])

\* Will u write the main state again, whatever becomes of its commands?
WillSettle(u) ==
    /\ InAction(u)
    /\ \/ th[u].kind \in Housekeeping \union {"start"}
       \/ /\ th[u].kind \in {"stop", "restart"}
          /\ th[u].pc \in {"backup_first", "backed_up", "not_prepared"}
       \/ /\ th[u].kind = "restore"
          /\ th[u].pc \notin {"check", "enter", "fetch", "apply", "write", "finish"}

(***************************************************************************)
(* A state that is not in TRANSITIONS (STARTED-BACKUP and the like) can    *)
(* only be left by the action that set it; while the main state is one,    *)
(* some action is still going to write it, on its error paths as well and  *)
(* although the agent may have been lost and have come back in between.    *)
(* Otherwise Palette would show "backup in progress" for ever.             *)
(***************************************************************************)
NoOrphanedAction ==
    main \in ActionStates => \E u \in Users : WillSettle(u)

(***************************************************************************)
(* DISCONNECTED is not in TRANSITIONS either: with a primary in the        *)
(* dictionary no status check could ever leave it (register and            *)
(* remove_agent, whatever the other threads write in between).             *)
(***************************************************************************)
ConnectedIsNotDisconnected ==
    primary # 0 => main # "DISCONNECTED"

\* do_upgrade: an upgrade never begins in the middle of a user action.
UpgradeIsExclusive ==
    upgrade \in {"checking", "on"} =>
        /\ \A t \in Threads : th[t].pc = "idle"
        /\ main \notin ActionStates

\* A thread that works on another connection than c takes a step.
StepsElsewhere(c) == \E t \in Threads : th[t].conn # c /\ th'[t] # th[t]

(***************************************************************************)
(* tableau.py:977: "If the user_action_lock is taken, that thread should   *)
(* control the state."  While u has the lock of a connection, another      *)
(* thread may write the state only because the agent came or went, or if   *)
(* it works on another connection, with a lock of its own.                 *)
(***************************************************************************)
LockOwnerControlsState ==
    [][\A c \in Conns, u \in Users :
          /\ owner[c] = u
          /\ th'[u] = th[u]
          /\ main' # main
          => main' \in {"PENDING", "DISCONNECTED"} \/ StepsElsewhere(c)]_vars

(***************************************************************************)
(* agentmanager.py:70: a lock "to allow only one user action               *)
(* (backup/restore/etc.) at a time": two users are in the middle of an     *)
(* action on one connection only if one of them makes a support case,      *)
(* which goes on without the lock when it does not get it.                 *)
(***************************************************************************)
OneUserAction ==
    \A u, v \in Users :
        /\ InAction(u) /\ InAction(v)
        /\ "support_case" \notin {th[u].kind, th[v].kind}
        /\ th[u].conn = th[v].conn
        => u = v

(***************************************************************************)
(* The locks do their work: user action locks are given up on every path   *)
(* and keep two actions apart, the upgrade lock keeps upgrades and actions *)
(* apart.                                                                  *)
(***************************************************************************)
LocksKeepApart == TypeOK /\ NoLeakedLock /\ OneUserAction /\ UpgradeIsExclusive

(***************************************************************************)
(* No state is a trap: the main states that the status monitor cannot      *)
(* leave by itself always have somebody who will write them.               *)
(***************************************************************************)
NoStateIsATrap == NoOrphanedAction /\ ConnectedIsNotDisconnected

-----------------------------------------------------------------------------
\* The agent is connected, nobody types, and Tableau stays as it is.
Calm(status) ==
    /\ primary \in up
    /\ upgrade = "off"
    /\ \A u \in Users : th[u].pc = "idle"
    /\ tableau = status

(***************************************************************************)
(* Whatever actions, failures and reconnections came before: once nothing  *)
(* happens any more the main state comes to tell the truth about Tableau.  *)
(* So no state can trap the status monitor, STOPPING, RESTARTING and the   *)
(* restore states of actions that failed half way included.                *)
(***************************************************************************)
StateConverges ==
    \A status \in TableauStatuses :
        <>[]Calm(status) => <>[](main \in Agreed(status))

(***************************************************************************)
(* An action that has begun ends and gives its locks up, on every path and *)
(* whatever happens to its connection.  (A restore_url that waits for the  *)
(* user action lock may lose it again and again to commands that keep      *)
(* coming: UpgradeNotStarved is about what stops them.)                    *)
(***************************************************************************)
ActionsEnd ==
    \A u \in Users : InAction(u) ~> th[u].pc = "idle"

(***************************************************************************)
(* A writer in do_upgrade gets the upgrade lock: new commands, checks and  *)
(* agents wait behind it, those under way end.                             *)
(***************************************************************************)
UpgradeNotStarved == upgrade = "waiting" ~> upgrade # "waiting"

(***************************************************************************)
(* An agent whose socket is dead does not stay the primary of a quiet      *)
(* controller, not even one whose setup failed after register and that     *)
(* nobody pings: the status monitor's own command removes it.              *)
(***************************************************************************)
DeadPrimaryIsRemoved ==
    \A c \in Conns :
        []<>~(/\ primary = c /\ c \notin up
              /\ upgrade = "off"
              /\ \A u \in Users : th[u].pc = "idle")

(***************************************************************************)
(* A quiet controller finds the truth: about Tableau when the agent is     *)
(* there, about the agent when it is not.                                  *)
(***************************************************************************)
TruthIsFound == StateConverges /\ DeadPrimaryIsRemoved

(***************************************************************************)
(* Nobody who is inside a command handler stays there for ever, neither an *)
(* action nor a writer of do_upgrade that waits for the readers.           *)
(***************************************************************************)
EverybodyEnds == ActionsEnd /\ UpgradeNotStarved

(***************************************************************************)
(* The upgrade lock as this module uses it is AbstractRWLock, which RWLock *)
(* implements: commands, checks and agent setups read, upgrades write.     *)
(* The lock ends with the controller; the next start makes a new one.      *)
(***************************************************************************)
CONSTANT Upgrader   \* the writer's thread

ASSUME ReaderAssumption == Threads \cap Conns = {}

Lock_ == INSTANCE AbstractRWLock WITH
    Threads <- Threads \union Conns \union {Upgrader},
    reading <- ReadingThreads \union ReadingConns,
    writing <- IF upgrade \in {"checking", "on"} THEN {Upgrader} ELSE {},
    waiting <- IF upgrade = "waiting" THEN {Upgrader} ELSE {}

ImplementsLock == Lock_!Init /\ [][Lock_!Next \/ StartUp]_(Lock_!vars)

=============================================================================
