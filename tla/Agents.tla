------------------------------- MODULE Agents -------------------------------
(***************************************************************************)
(* The agents of all machines (agentmanager.py, agent.py): the dictionary  *)
(* of connected agents, the agents' rows in the database, the thread that  *)
(* serves each connection, and the classification of the machines as       *)
(* primary, workers and archives from the primary's configuration.         *)
(*                                                                         *)
(* AgentConnections has the primary alone, with the main state it drives;  *)
(* here several machines connect, are enabled and disabled, and what the   *)
(* web application shows of them is their row.  A row is "up" when its     *)
(* last_disconnect_time is not later than its last_connection_time.        *)
(***************************************************************************)
EXTENDS Naturals, FiniteSets

CONSTANTS
    Machines,      \* hosts with an agent, each with its uuid
    Installations, \* the possible sets of hosts with Tableau's primary installed
    PortMachines,  \* the machines from which outbound ports are checked
    MaxConns,      \* bound: connections
    MaxChanges     \* bound: changes from outside (switches, worker hosts, restarts)

ASSUME InstallationsAssumption ==
    Installations \subseteq SUBSET Machines /\ {} \notin Installations
ASSUME PortsAssumption == PortMachines \subseteq Machines
ASSUME BoundsAssumption == MaxConns \in Nat /\ MaxChanges \in Nat

Conns == 1 .. MaxConns
Types == {"none", "primary", "worker", "archive"}
Names == {"none", "primary", "worker", "host"}
Phases == {"new", "disabled", "init", "typed", "registered", "pinging", "done", "ignored"}

VARIABLES
    installed, \* the hosts with Tableau's primary installed
    hosts,     \* the workers in the configuration of Tableau
    yml,       \* the workers in the controller's copy of it
    sync,      \* the scheduled yml command: "idle", or "fetched" before the types are set
    row,       \* the agents' rows
    conn,      \* connections and their threads
    agents,    \* AgentManager.agents
    changes    \* changes from outside so far

configuration == <<installed, hosts, yml, sync>>
vars == <<installed, hosts, yml, sync, row, conn, agents, changes>>

NoRow == [up |-> FALSE, enabled |-> TRUE, type |-> "none", name |-> "none"]
NoConn == [pc |-> "new", of |-> CHOOSE m \in Machines : TRUE, alive |-> FALSE,
           was |-> "none"]

TypeOK ==
    /\ installed \in Installations
    /\ hosts \subseteq Machines \ installed /\ yml \subseteq Machines \ installed
    /\ sync \in {"idle", "fetched"}
    /\ row \in [Machines -> [up : BOOLEAN, enabled : BOOLEAN,
                             type : Types, name : Names]]
    /\ conn \in [Conns -> [pc : Phases, of : Machines, alive : BOOLEAN, was : Types]]
    /\ agents \subseteq Conns
    /\ changes \in 0 .. MaxChanges

Init ==
    /\ installed \in Installations
    /\ hosts = Machines \ installed /\ yml = {} /\ sync = "idle"
    /\ row = [m \in Machines |-> NoRow]
    /\ conn = [c \in Conns |-> NoConn]
    /\ agents = {}
    /\ changes = 0

Live(c) == conn[c].alive
Enabled == {c \in agents : row[conn[c].of].enabled}
Known(m) == \E c \in Conns : conn[c].pc # "new" /\ conn[c].of = m
Primary(c) == conn[c].of \in installed

Goto(c, pc) == [conn EXCEPT ![c].pc = pc]

-----------------------------------------------------------------------------
(***************************************************************************)
(* remove_agent, under the manager's lock: only an agent in the dictionary *)
(* is forgotten.  forget marks the row whatever connection it is about.    *)
(***************************************************************************)
Forget(m) == [row EXCEPT ![m].up = FALSE]

\* Mutant: the row is marked before the dictionary is looked at.
Remove_AlwaysForgets(c, phases) ==
    /\ agents' = agents \ {c}
    /\ row' = Forget(conn[c].of)
    /\ conn' = [phases EXCEPT ![c].alive = FALSE]

Remove(c, phases) ==
    IF c \in agents
    THEN /\ agents' = agents \ {c}
         /\ row' = Forget(conn[c].of)
         /\ conn' = [phases EXCEPT ![c].alive = FALSE]
    ELSE /\ conn' = phases
         /\ UNCHANGED <<agents, row>>

(***************************************************************************)
(* The controller ends (os._exit) and starts again: the agents that were   *)
(* connected are marked disconnected (update_last_disconnect_time).        *)
(***************************************************************************)
StartUp ==
    /\ agents' = {}
    /\ conn' = [c \in Conns |-> IF conn[c].pc = "new" THEN conn[c]
                                ELSE [conn[c] EXCEPT !.pc = "done", !.alive = FALSE, !.was = "none"]]
    /\ row' = [m \in Machines |-> [row[m] EXCEPT !.up = FALSE]]
    /\ sync' = "idle"
    /\ UNCHANGED <<installed, hosts, yml>>

-----------------------------------------------------------------------------
(***************************************************************************)
(* A new connection.  An agent has one connection at a time: it connects   *)
(* again when its last one is broken, whether the controller knows or not. *)
(* Agent.build makes or renews the row.  Agents that the controller refuses *)
(* before (no /auth answer, another licence) leave no trace.               *)
(***************************************************************************)
Build(m) == [row EXCEPT ![m].up = TRUE]

Accept(c, m) ==
    /\ conn[c].pc = "new"
    /\ \A d \in Conns : d < c => conn[d].pc # "new"
    /\ \A d \in Conns : conn[d].of = m => ~ Live(d)
    /\ conn' = [conn EXCEPT ![c] = [pc |-> IF row[m].enabled THEN "init" ELSE "disabled",
                                    of |-> m, alive |-> TRUE, was |-> "none"]]
    /\ row' = Build(m)
    /\ UNCHANGED <<configuration, agents, changes>>

\* A disabled agent is only pinged, and set up once it is enabled.  It is not in the dictionary,
\* so nothing marks its row when it is lost: enabled afterwards, it is shown as connected.
PingDisabled(c) ==
    /\ conn[c].pc = "disabled"
    /\ \/ /\ row[conn[c].of].enabled
          /\ conn' = Goto(c, "init")
          /\ row' = Build(conn[c].of)
       \/ /\ ~ row[conn[c].of].enabled /\ ~ Live(c)
          /\ conn' = Goto(c, "ignored")
          /\ UNCHANGED row
    /\ UNCHANGED <<configuration, agents, changes>>

\* init_new_agent: pinfo tells a primary, the controller's copy of the configuration a worker.
WorkerOrArchive(m) == IF m \in yml THEN "worker" ELSE "archive"

TypeOf(m) == IF m \in installed THEN "primary" ELSE WorkerOrArchive(m)

(***************************************************************************)
(* The type is written here, the name only when the agent is registered:   *)
(* the thread keeps the type it found (setup_agent's orig_agent_type).  A  *)
(* set-up that fails in between leaves a worker with its host's name, and  *)
(* the next one does not see that the type has changed.                    *)
(***************************************************************************)
InitNewAgent(c) ==
    LET m == conn[c].of
    IN /\ conn[c].pc = "init" /\ Live(c)
       /\ conn' = [conn EXCEPT ![c].pc = "typed", ![c].was = row[m].type]
       /\ row' = [row EXCEPT ![m].type = TypeOf(m)]
       /\ yml' = IF Primary(c) THEN hosts ELSE yml
       /\ UNCHANGED <<installed, hosts, sync, agents, changes>>

\* An agent without a name gets one, and a worker that was named by its host as an archive.
NameFor(type) == IF type = "archive" THEN "host" ELSE type

Named(r, was) ==
    [r EXCEPT !.name = IF @ = "none" \/ (@ = "host" /\ r.type = "worker" /\ was = "archive")
                       THEN NameFor(r.type) ELSE @]

\* Mutant: archives become workers, never the other way.
Classified_Promotes(rows) ==
    [m \in Machines |-> IF rows[m].type = "archive" /\ m \in yml
                        THEN Named([rows[m] EXCEPT !.type = "worker"], "archive") ELSE rows[m]]

\* set_all_agent_types: only rows with a type, and never a primary's.
Classified(rows) ==
    [m \in Machines |->
        IF rows[m].type \in {"none", "primary"} \/ rows[m].type = WorkerOrArchive(m) THEN rows[m]
        ELSE LET r == [rows[m] EXCEPT !.type = WorkerOrArchive(m)]
             IN IF r.type = "worker" THEN Named(r, rows[m].type) ELSE r]

(***************************************************************************)
(* register goes through the dictionary and removes the agent's older      *)
(* connection, or another primary.  After the first it stops; after the    *)
(* second it goes on in a dictionary that has shrunk, Python raises        *)
(* RuntimeError and the controller exits (Exits).  The order of the        *)
(* dictionary decides which it meets first.                                *)
(***************************************************************************)
\* Mutant: a connection that is broken already is left to its ping thread.
Older_Live(c) == {d \in agents : conn[d].of = conn[c].of /\ Live(d)}

Older(c) == {d \in agents : conn[d].of = conn[c].of}
OtherPrimaries(c) == {d \in agents : Primary(c) /\ Primary(d) /\ conn[d].of # conn[c].of}

Register(c) ==
    /\ conn[c].pc = "typed"
    /\ OtherPrimaries(c) = {} \/ Older(c) # {}
    /\ agents' = (agents \ Older(c)) \union {c}
    /\ LET rows == [row EXCEPT ![conn[c].of] = [Named(@, conn[c].was) EXCEPT !.up = TRUE]]
       IN row' = IF Primary(c) THEN Classified(rows) ELSE rows
    /\ conn' = [d \in Conns |-> IF d = c THEN [conn[c] EXCEPT !.pc = "registered", !.was = "none"]
                                ELSE IF d \in Older(c) THEN [conn[d] EXCEPT !.alive = FALSE]
                                ELSE conn[d]]
    /\ UNCHANGED <<configuration, changes>>

Exits(c) ==
    /\ conn[c].pc = "typed"
    /\ OtherPrimaries(c) # {}
    /\ StartUp
    /\ UNCHANGED changes

\* Mutant: the row of a failed set-up is not marked.
SetupFails_RowKept(c) ==
    /\ conn[c].pc \in {"init", "typed", "registered"}
    /\ conn' = [conn EXCEPT ![c].pc = "done", ![c].alive = FALSE, ![c].was = "none"]
    /\ UNCHANGED <<configuration, row, agents, changes>>

(***************************************************************************)
(* A set-up that fails: the socket is closed and the row marked, but an    *)
(* agent that was registered stays in the dictionary.                      *)
(***************************************************************************)
SetupFails(c) ==
    /\ conn[c].pc \in {"init", "typed", "registered"}
    /\ conn' = [conn EXCEPT ![c].pc = "done", ![c].alive = FALSE, ![c].was = "none"]
    /\ row' = Forget(conn[c].of)
    /\ UNCHANGED <<configuration, agents, changes>>

\* save_routes was answered: the thread goes on to ping.
SetupEnds(c) ==
    /\ conn[c].pc = "registered" /\ Live(c)
    /\ conn' = Goto(c, "pinging")
    /\ UNCHANGED <<configuration, row, agents, changes>>

\* The thread ends when its agent has been removed, or does not answer and is removed.
Ping(c) ==
    /\ conn[c].pc = "pinging"
    /\ c \notin agents \/ ~ Live(c)
    /\ Remove(c, Goto(c, "done"))
    /\ UNCHANGED <<configuration, changes>>

-----------------------------------------------------------------------------

\* A command to an enabled agent fails and removes it; 'info all' asks every one of them.
CommandFails(c) ==
    /\ c \in Enabled
    /\ Remove(c, conn)
    /\ UNCHANGED <<configuration, changes>>

(***************************************************************************)
(* The scheduled yml command: yml_sync gets the file from a primary, then  *)
(* sets the types.                                                         *)
(***************************************************************************)
FetchYml ==
    /\ sync = "idle"
    /\ \E c \in Enabled : Primary(c) /\ Live(c)
    /\ yml' = hosts /\ sync' = "fetched"
    /\ UNCHANGED <<installed, hosts, row, conn, agents, changes>>

SetAllAgentTypes ==
    /\ sync = "fetched"
    /\ row' = Classified(row) /\ sync' = "idle"
    /\ UNCHANGED <<installed, hosts, yml, conn, agents, changes>>

(***************************************************************************)
(* check_port looks for the agent with agent_by_agentid, which falls out   *)
(* of its loop with the last agent it saw: any enabled agent, when the     *)
(* machine's own is not there.  The command may fail on the one it finds.  *)
(***************************************************************************)
AgentsByAgentid(m) ==
    LET own == {c \in Enabled : conn[c].of = m}
    IN IF own # {} THEN own ELSE Enabled

CheckPort(m) ==
    /\ m \in PortMachines /\ Known(m)
    /\ \E c \in AgentsByAgentid(m) : Remove(c, conn)
    /\ UNCHANGED <<configuration, changes>>

-----------------------------------------------------------------------------
\* The web application's monitor switch of a machine.
SetEnabled(m) ==
    /\ changes < MaxChanges
    /\ Known(m)
    /\ row' = [row EXCEPT ![m].enabled = ~ @]
    /\ changes' = changes + 1
    /\ UNCHANGED <<configuration, conn, agents>>

\* An administrator changes the hosts of Tableau's workers.
ChangeHosts ==
    /\ changes < MaxChanges
    /\ hosts' \in SUBSET (Machines \ installed) \ {hosts}
    /\ changes' = changes + 1
    /\ UNCHANGED <<installed, yml, sync, row, conn, agents>>

\* The network or the agent breaks.
Break(c) ==
    /\ Live(c)
    /\ conn' = [conn EXCEPT ![c].alive = FALSE]
    /\ UNCHANGED <<configuration, row, agents, changes>>

Restart ==
    /\ changes < MaxChanges
    /\ changes' = changes + 1
    /\ StartUp

Serve(c) ==
    \/ PingDisabled(c)
    \/ InitNewAgent(c)
    \/ Register(c) \/ Exits(c)
    \/ SetupFails(c) \/ SetupEnds(c)
    \/ Ping(c)

Next ==
    \/ \E c \in Conns, m \in Machines : Accept(c, m)
    \/ \E c \in Conns : Serve(c) \/ CommandFails(c) \/ Break(c)
    \/ FetchYml \/ SetAllAgentTypes
    \/ \E m \in Machines : CheckPort(m) \/ SetEnabled(m)
    \/ ChangeHosts
    \/ Restart

\* Each connection's thread runs; the scheduler comes back to 'yml' and to 'info all', whose
\* command fails on an agent that is gone.
Fairness ==
    /\ \A c \in Conns : WF_vars(Serve(c)) /\ WF_vars(~ Live(c) /\ CommandFails(c))
    /\ WF_vars(FetchYml) /\ WF_vars(SetAllAgentTypes)

Spec == Init /\ [][Next]_vars /\ Fairness

-----------------------------------------------------------------------------
(***************************************************************************)
(* Properties.                                                             *)
(***************************************************************************)

\* Two connections of one machine are never in the dictionary together: commands would go to
\* either of them.
OneConnectionPerMachine ==
    \A c, d \in agents : conn[c].of = conn[d].of => c = d

\* A step that takes the row of an agent that stays in the dictionary down fails a set-up.
HidesOnlyByFailedSetup ==
    \A c \in agents \intersect agents' :
       row[conn[c].of].up /\ ~ row'[conn[c].of].up =>
          \E d \in Conns : /\ conn[d].of = conn[c].of
                           /\ conn[d].pc \in {"init", "typed", "registered"}
                           /\ conn'[d].pc = "done"

\* What takes a registered agent's row down is never the removal of an older connection of its
\* machine, by its ping thread or a failed command, however late (forget marks the row whatever
\* connection it is asked about): only a set-up of that machine that fails late does.
OldConnectionsDoNotHideNew == [][HidesOnlyByFailedSetup]_vars

\* When the newest connection of a machine breaks, its row is marked, by whichever thread finds out:
\* its ping, a command, its set-up, or the connection that replaces it.  (A connection that was
\* ignored because the agent was disabled is an exception.)
Newest(c) == \A d \in Conns : conn[d].pc # "new" /\ conn[d].of = conn[c].of => d <= c

LossIsNoticed ==
    []<>(\A c \in Conns :
            conn[c].pc \notin {"new", "disabled", "ignored"} /\ ~ Live(c) /\ Newest(c) =>
               ~ row[conn[c].of].up)

\* An agent whose set-up failed after it was registered, or whose connection broke, does not stay
\* in the dictionary, although nobody pings it (a disabled one may).
DeadAgentsGo == []<>(\A c \in Enabled : Live(c))

\* A connection that breaks is found out, in the table of agents and in the dictionary.
LossIsFound == LossIsNoticed /\ DeadAgentsGo

\* With a primary that stays connected, every machine comes to be classified as the configuration
\* says, whatever was written by set-ups that used the old one.
TypesConverge ==
    (<>[] \E c \in Enabled : Primary(c) /\ Live(c))
       => <>[] \A m \in Machines :
                 row[m].type \in {"worker", "archive"} => (row[m].type = "worker" <=> m \in hosts)

=============================================================================
