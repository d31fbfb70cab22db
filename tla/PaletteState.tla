---------------------------- MODULE PaletteState ----------------------------
(***************************************************************************)
(* The state the threads of the controller share about one Tableau server: *)
(* the main state and the reported status (rows of the database), the      *)
(* connections of the agent on the primary host, the user action lock of   *)
(* each connection, and the upgrade lock.  The modules that extend this    *)
(* one are the threads: AgentConnections, StatusMonitor, UserActions.      *)
(***************************************************************************)
EXTENDS Integers, FiniteSets, StateTransitions

CONSTANTS
    Users,      \* threads that serve a telnet connection (clihandler.py)
    Monitor,    \* the thread of TableauStatusMonitor
    Nobody,     \* the owner of a free user action lock
    MaxConn,    \* bound: connections of the primary agent per controller run
    Kinds,      \* the user actions that are typed
    Faults,     \* what may go wrong around the controller
    Pre82       \* is this Tableau 8.0 or 8.1?

\* do_backup, do_deletefile, do_ziplogs and do_cleanup have one shape.
Housekeeping == {"backup", "deletefile", "ziplogs", "cleanup"}
AllKinds == Housekeeping \union
    {"start", "stop", "restart", "restore", "restore_url", "support_case"}

AllFaults ==
    {"crash",           \* the controller exits and is started again
     "disconnect",      \* the socket of an agent breaks
     "outside",         \* somebody uses Tableau without Palette
     "bad_status"}      \* a status request fails or is misread

ASSUME PaletteAssumption ==
    /\ Monitor \notin Users
    /\ Nobody \notin Users \union {Monitor}
    /\ MaxConn \in Nat
    /\ Kinds \subseteq AllKinds
    /\ Faults \subseteq AllFaults
    /\ Pre82 \in BOOLEAN

VARIABLES
    main,       \* system[STATE]: the main state
    reported,   \* the "Status" row of the status table
    tableau,    \* what Tableau really is (external)
    primary,    \* the connection of the primary in AgentManager.agents, or 0
    handler,    \* the thread that handles each connection
    up,         \* the connections whose socket works
    owner,      \* who holds each connection's user_action_lockobj
    upgrade,    \* the upgrade lock's writer: "upgrade on" and "upgrade off"
    th          \* the place and the local variables of Users and Monitor

vars == <<main, reported, tableau, primary, handler, up, owner, upgrade, th>>

Threads == Users \union {Monitor}
Conns == 1..MaxConn

(***************************************************************************)
(* A handler is in "setup" before register() and "registered" until        *)
(* setup_agent has ended; then it pings.                                   *)
(***************************************************************************)
HandlerStates == {"new", "setup", "registered", "pinging", "done"}

\* "checking": the writer has the lock but UPGRADING is not saved yet.
UpgradeStates == {"off", "waiting", "checking", "on"}

\* Places where a command is with the agent and its reply is awaited.
CommandPCs ==
    {"license", "backup_first", "get_file", "restore_stop", "restore_run",
     "command"}
PCs == CommandPCs \union
    {"idle", "lock", "check", "enter", "licensed", "backed_up", "not_prepared",
     "restore", "restore_stopped", "restore_failed", "restarted",
     "fetch", "apply", "write", "finish"}

Locals ==
    [pc      : PCs,
     kind    : AllKinds \union {"none"},
     conn    : 0..MaxConn,          \* agent.connection
     saved   : MainStates,          \* main_state
     started : BOOLEAN,             \* exit_status of "tabadmin start" was 0
     fetched : Statuses,            \* tableau_status
     seen    : MainStates]          \* prev_state

Idle == [pc |-> "idle", kind |-> "none", conn |-> 0, saved |-> "DISCONNECTED",
         started |-> FALSE, fetched |-> "UNKNOWN", seen |-> "DISCONNECTED"]

TypeOK ==
    /\ main \in MainStates
    /\ reported \in Statuses
    /\ tableau \in TableauStatuses
    /\ primary \in 0..MaxConn
    /\ handler \in [Conns -> HandlerStates]
    /\ up \in SUBSET Conns
    /\ owner \in [Conns -> Threads \union {Nobody}]
    /\ upgrade \in UpgradeStates
    /\ th \in [Threads -> Locals]

\* AgentManager.run and TableauStatusMonitor.__init__ when they start.
StartUp ==
    /\ main' = "DISCONNECTED"
    /\ reported' = "UNKNOWN"
    /\ primary' = 0
    /\ handler' = [c \in Conns |-> "new"]
    /\ up' = {}
    /\ owner' = [c \in Conns |-> Nobody]
    /\ upgrade' = "off"
    /\ th' = [t \in Threads |-> Idle]

Init ==
    /\ main = "DISCONNECTED"
    /\ reported = "UNKNOWN"
    /\ tableau \in TableauStatuses
    /\ primary = 0
    /\ handler = [c \in Conns |-> "new"]
    /\ up = {}
    /\ owner = [c \in Conns |-> Nobody]
    /\ upgrade = "off"
    /\ th = [t \in Threads |-> Idle]

-----------------------------------------------------------------------------
(***************************************************************************)
(* The upgrade lock, by the contract of AbstractRWLock: a thread reads     *)
(* from the start of its command, check or connection to its end, and      *)
(* nobody starts to read while the writer waits or writes.                 *)
(***************************************************************************)
ReadingThreads == {t \in Threads : th[t].pc # "idle"}
ReadingConns == {c \in Conns : handler[c] \in {"setup", "registered"}}
CanRead == upgrade = "off"

Goto(t, where) == th' = [th EXCEPT ![t].pc = where]

\* The command returns: its decorator gives the read lock up.
Return(t) == th' = [th EXCEPT ![t] = Idle]

Unlock(t) == owner' = [owner EXCEPT ![th[t].conn] = Nobody]

=============================================================================
