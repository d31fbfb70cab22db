-------------------------- MODULE AgentConnections --------------------------
(***************************************************************************)
(* The connections of the primary agent: AgentManager.register,            *)
(* remove_agent, handle_agent_connection, setup_agent and ping_agent in    *)
(* src/controller/controller/agentmanager.py, Controller.remove_agent.     *)
(*                                                                         *)
(* All connections come from one agent (one uuid): Tableau has one primary *)
(* host.  register and remove_agent hold the manager's lock throughout,    *)
(* each is one action.                                                     *)
(***************************************************************************)
EXTENDS PaletteState

(***************************************************************************)
(* AgentManager.remove_agent: only a connection that is still in the       *)
(* dictionary changes the main state; the reported status stays.           *)
(***************************************************************************)
RemoveAgent(c) ==
    /\ up' = up \ {c}
    /\ IF primary = c
       THEN primary' = 0 /\ main' = "DISCONNECTED"
       ELSE UNCHANGED <<primary, main>>

(***************************************************************************)
(* Controller.remove_agent, called when a command or a ping could not be   *)
(* sent: the status table is emptied too when no primary is left.          *)
(***************************************************************************)
RemoveAgentAndStatus(c) ==
    /\ RemoveAgent(c)
    /\ reported' = IF primary' = 0 THEN "UNKNOWN" ELSE reported

-----------------------------------------------------------------------------
\* An agent connects: it is served when the upgrade lock can be read.
Connect(c) ==
    /\ CanRead
    /\ handler[c] = "new"
    /\ \A d \in Conns : d < c => handler[d] # "new"
    /\ handler' = [handler EXCEPT ![c] = "setup"]
    /\ up' = up \union {c}
    /\ UNCHANGED <<main, reported, tableau, primary, owner, upgrade, th>>

(***************************************************************************)
(* The agent is refused or breaks before it is registered.  A command that *)
(* failed on the way went through Controller.remove_agent.                 *)
(***************************************************************************)
SetupFails(c) ==
    /\ handler[c] = "setup"
    /\ handler' = [handler EXCEPT ![c] = "done"]
    /\ \/ RemoveAgentAndStatus(c)
       \/ RemoveAgent(c) /\ UNCHANGED reported
    /\ UNCHANGED <<tableau, owner, upgrade, th>>

\* register: the newest connection is kept, the older one is removed.
Register(c) ==
    /\ handler[c] = "setup"
    /\ handler' = [handler EXCEPT ![c] = "registered"]
    /\ up' = IF primary = 0 THEN up ELSE up \ {primary}
    /\ primary' = c
    /\ main' = "PENDING"
    /\ UNCHANGED <<reported, tableau, owner, upgrade, th>>

FinishSetup(c) ==
    /\ handler[c] = "registered"
    /\ c \in up
    /\ handler' = [handler EXCEPT ![c] = "pinging"]
    /\ UNCHANGED <<main, reported, tableau, primary, up, owner, upgrade, th>>

(***************************************************************************)
(* setup_agent fails after register (save_routes, the volumes): the socket *)
(* is closed, the agent stays in the dictionary and nobody pings it.       *)
(***************************************************************************)
SetupAborts(c) ==
    /\ handler[c] = "registered"
    /\ handler' = [handler EXCEPT ![c] = "done"]
    /\ up' = up \ {c}
    /\ UNCHANGED <<main, reported, tableau, primary, owner, upgrade, th>>

(***************************************************************************)
(* A ping that cannot be sent removes the agent in send_immediate, before  *)
(* ping_agent asks whether an upgrade is on; the ping thread ends when it  *)
(* finds its connection gone, at once or at its next turn.                 *)
(***************************************************************************)
PingFails(c) ==
    /\ handler[c] = "pinging"
    /\ c \notin up
    /\ handler' = [handler EXCEPT ![c] = "done"]
    /\ RemoveAgentAndStatus(c)
    /\ UNCHANGED <<tableau, owner, upgrade, th>>

-----------------------------------------------------------------------------
\* The socket breaks and nobody has noticed yet.
Disconnect(c) ==
    /\ "disconnect" \in Faults
    /\ c \in up
    /\ up' = up \ {c}
    /\ UNCHANGED <<main, reported, tableau, primary, handler, owner, upgrade, th>>

\* os._exit from any thread, and the controller's next start.
Crash ==
    /\ "crash" \in Faults
    /\ StartUp
    /\ UNCHANGED tableau

\* tabadmin typed on the primary host, or Tableau failing or recovering.
Outside ==
    /\ "outside" \in Faults
    /\ tableau' \in TableauStatuses \ {tableau}
    /\ UNCHANGED <<main, reported, primary, handler, up, owner, upgrade, th>>

Connections ==
    \E c \in Conns :
        \/ Connect(c) \/ SetupFails(c) \/ Register(c)
        \/ FinishSetup(c) \/ SetupAborts(c) \/ PingFails(c)

Environment == Crash \/ Outside \/ \E c \in Conns : Disconnect(c)

=============================================================================
