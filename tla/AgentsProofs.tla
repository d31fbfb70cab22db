---------------------------- MODULE AgentsProofs ----------------------------
(***************************************************************************)
(* What the dictionary of agents guarantees for any number of machines,    *)
(* connections and changes: one connection per machine, and a row that the *)
(* removal of an old connection does not take down.                        *)
(*                                                                         *)
(* OneConnectionPerMachine is inductive with TypeOK and Served: a new      *)
(* connection gets its machine when it is accepted, so one that is in the  *)
(* dictionary must have been accepted.                                     *)
(***************************************************************************)
EXTENDS Agents, TLAPS

Served == \A c \in agents : conn[c].pc # "new"

IInv == TypeOK /\ Served /\ OneConnectionPerMachine

Rows == [up : BOOLEAN, enabled : BOOLEAN, type : Types, name : Names]
Connections == [pc : Phases, of : Machines, alive : BOOLEAN, was : Types]

LEMMA InitIInv == Init => IInv
<1> SUFFICES ASSUME Init PROVE IInv
    OBVIOUS
<1>1. Machines # {}
    BY InstallationsAssumption DEF Init
<1>2. NoConn \in Connections
    BY <1>1 DEF NoConn, Connections, Phases, Types
<1>3. NoRow \in Rows
    BY DEF NoRow, Rows, Types, Names
<1>4. TypeOK
    BY <1>2, <1>3, BoundsAssumption DEF Init, TypeOK, Connections, Rows
<1> QED
    BY <1>4 DEF Init, IInv, Served, OneConnectionPerMachine

\* Updates of one field keep a row a row and a connection a connection.
LEMMA RowUp ==
    ASSUME row \in [Machines -> Rows], NEW m \in Machines, NEW b \in BOOLEAN
    PROVE  [row EXCEPT ![m].up = b] \in [Machines -> Rows]
BY DEF Rows

LEMMA RowSwitched ==
    ASSUME row \in [Machines -> Rows], NEW m \in Machines, NEW b \in BOOLEAN
    PROVE  [row EXCEPT ![m].enabled = b] \in [Machines -> Rows]
BY DEF Rows

LEMMA ConnDies ==
    ASSUME NEW phases \in [Conns -> Connections], NEW c \in Conns
    PROVE  /\ [phases EXCEPT ![c].alive = FALSE] \in [Conns -> Connections]
           /\ \A d \in Conns : /\ [phases EXCEPT ![c].alive = FALSE][d].of = phases[d].of
                              /\ [phases EXCEPT ![c].alive = FALSE][d].pc = phases[d].pc
BY DEF Connections

\* A step that only moves connections along keeps the dictionary's properties.
LEMMA SameMachines ==
    ASSUME IInv, agents' \subseteq agents, conn' \in [Conns -> Connections],
           row' \in [Machines -> Rows],
           \A d \in Conns : conn'[d].of = conn[d].of /\ (conn'[d].pc = "new" => conn[d].pc = "new"),
           installed' = installed, hosts' = hosts, yml' \in {yml, hosts},
           sync' \in {"idle", "fetched"}, changes' \in 0 .. MaxChanges
    PROVE  IInv'
<1>1. TypeOK'
    BY DEF IInv, TypeOK, Connections, Rows
<1>2. agents \subseteq Conns
    BY DEF IInv, TypeOK
<1> QED
    BY <1>1, <1>2 DEF IInv, Served, OneConnectionPerMachine

\* Taking an agent out of the dictionary.
LEMMA RemoveKeepsIInv ==
    ASSUME IInv, NEW c \in Conns, NEW phases \in [Conns -> Connections],
           \A d \in Conns : phases[d].of = conn[d].of /\ (phases[d].pc = "new" => conn[d].pc = "new"),
           Remove(c, phases), UNCHANGED <<configuration, changes>>
    PROVE  IInv'
<1>1. row \in [Machines -> Rows] /\ conn[c].of \in Machines /\ agents \subseteq Conns
    BY DEF IInv, TypeOK, Rows
<1>2. row' \in [Machines -> Rows] /\ agents' \subseteq agents
    BY <1>1, RowUp DEF Remove, Forget
<1> DEFINE broken == [phases EXCEPT ![c].alive = FALSE]
<1>3. conn' = broken \/ conn' = phases
    BY DEF Remove
<1>4. /\ conn' \in [Conns -> Connections]
      /\ \A d \in Conns : conn'[d].of = phases[d].of /\ conn'[d].pc = phases[d].pc
    <2>1. /\ broken \in [Conns -> Connections]
          /\ \A d \in Conns : broken[d].of = phases[d].of /\ broken[d].pc = phases[d].pc
        BY ConnDies
    <2> HIDE DEF broken
    <2> QED
        BY <1>3, <2>1
<1>5. sync' \in {"idle", "fetched"} /\ changes' \in 0 .. MaxChanges
    BY DEF IInv, TypeOK, configuration
<1> QED
    BY <1>2, <1>3, <1>4, <1>5, SameMachines DEF configuration

\* A row that is classified or named again is a row.
LEMMA NamedIsRow ==
    ASSUME NEW r \in Rows, NEW was
    PROVE  Named(r, was) \in Rows
BY DEF Named, NameFor, Rows, Types, Names

LEMMA ClassifiedAreRows ==
    ASSUME NEW rows \in [Machines -> Rows]
    PROVE  Classified(rows) \in [Machines -> Rows]
<1> SUFFICES ASSUME NEW m \in Machines PROVE Classified(rows)[m] \in Rows
    BY DEF Classified
<1> DEFINE r == [rows[m] EXCEPT !.type = WorkerOrArchive(m)]
<1>1. rows[m] \in Rows /\ r \in Rows
    BY DEF WorkerOrArchive, Rows, Types
<1>2. Named(r, rows[m].type) \in Rows
    BY <1>1, NamedIsRow
<1> QED
    BY <1>1, <1>2 DEF Classified

\* Classifying leaves what the rows say of the connection.
LEMMA ClassifiedKeepsUp ==
    ASSUME NEW rows \in [Machines -> Rows], NEW m \in Machines
    PROVE  Classified(rows)[m].up = rows[m].up
<1> DEFINE r == [rows[m] EXCEPT !.type = WorkerOrArchive(m)]
<1>1. rows[m] \in Rows /\ r \in Rows /\ r.up = rows[m].up
    BY DEF WorkerOrArchive, Rows, Types
<1>2. Named(r, rows[m].type).up = r.up
    BY <1>1 DEF Named, Rows
<1> QED
    BY <1>1, <1>2 DEF Classified

\* The controller's next start empties the dictionary.
LEMMA StartUpKeepsIInv ==
    ASSUME IInv, StartUp, changes' \in 0 .. MaxChanges
    PROVE  IInv'
<1>1. row \in [Machines -> Rows] /\ conn \in [Conns -> Connections]
    BY DEF IInv, TypeOK, Rows, Connections
<1>2. row' \in [Machines -> Rows]
    BY <1>1 DEF StartUp, Rows
<1>3. conn' \in [Conns -> Connections]
    BY <1>1 DEF StartUp, Connections, Phases, Types
<1>4. agents' = {} /\ installed' = installed /\ hosts' = hosts /\ yml' = yml /\ sync' = "idle"
    BY DEF StartUp
<1>5. TypeOK'
    BY <1>2, <1>3, <1>4 DEF IInv, TypeOK, Rows, Connections
<1> QED
    BY <1>4, <1>5 DEF IInv, Served, OneConnectionPerMachine

LEMMA AcceptKeepsIInv ==
    ASSUME IInv, NEW c \in Conns, NEW m \in Machines, Accept(c, m)
    PROVE  IInv'
<1> USE DEF IInv, Accept, Build, configuration
<1>1. TypeOK'
    BY DEF TypeOK, Phases, Types
<1>2. c \notin agents /\ \A d \in agents : conn'[d] = conn[d]
    BY DEF Served, TypeOK
<1> QED
    BY <1>1, <1>2 DEF Served, OneConnectionPerMachine

\* register takes the machine's older connections out when it puts the new one in.
LEMMA RegisterKeepsIInv ==
    ASSUME IInv, NEW c \in Conns, Register(c)
    PROVE  IInv'
<1> USE DEF IInv, configuration
<1> DEFINE rows == [row EXCEPT ![conn[c].of] = [Named(@, conn[c].was) EXCEPT !.up = TRUE]]
<1>1. row \in [Machines -> Rows] /\ conn \in [Conns -> Connections] /\ agents \subseteq Conns
    BY DEF TypeOK, Rows, Connections
<1>2. rows \in [Machines -> Rows]
    <2>1. Named(row[conn[c].of], conn[c].was) \in Rows
        BY <1>1, NamedIsRow DEF Connections
    <2> QED
        BY <1>1, <2>1 DEF Rows
<1>3. row' \in [Machines -> Rows]
    BY <1>2, ClassifiedAreRows DEF Register
<1>4. conn' \in [Conns -> Connections]
    BY <1>1 DEF Register, Connections, Phases, Types
<1>5. agents' \subseteq Conns
    BY <1>1 DEF Register, Older
<1>6. TypeOK'
    BY <1>3, <1>4, <1>5 DEF TypeOK, Register, Rows, Connections
<1>7. \A d \in Conns : conn'[d].of = conn[d].of /\ (conn'[d].pc = "new" => conn[d].pc = "new")
    BY <1>1 DEF Register, Connections
<1>8. \A d \in agents' : d = c \/ (d \in agents /\ conn[d].of # conn[c].of)
    BY DEF Register, Older
<1>9. Served'
    BY <1>1, <1>5, <1>7, <1>8 DEF Served, Register
<1>10. OneConnectionPerMachine'
    BY <1>1, <1>5, <1>7, <1>8 DEF OneConnectionPerMachine
<1> QED
    BY <1>6, <1>9, <1>10

LEMMA ServeKeepsIInv ==
    ASSUME IInv, NEW c \in Conns, Serve(c)
    PROVE  IInv'
<1>0. /\ row \in [Machines -> Rows] /\ conn \in [Conns -> Connections] /\ conn[c].of \in Machines
      /\ sync \in {"idle", "fetched"} /\ changes \in 0 .. MaxChanges
    BY DEF IInv, TypeOK, Rows, Connections
<1>1. CASE PingDisabled(c)
    <2>1. row' \in [Machines -> Rows]
        BY <1>0, <1>1, RowUp DEF PingDisabled, Build
    <2>2. /\ conn' \in [Conns -> Connections]
          /\ \A d \in Conns : conn'[d].of = conn[d].of /\ (conn'[d].pc = "new" => conn[d].pc = "new")
        BY <1>0, <1>1 DEF PingDisabled, Goto, Connections, Phases
    <2> QED
        BY <1>0, <1>1, <2>1, <2>2, SameMachines DEF PingDisabled, configuration
<1>2. CASE InitNewAgent(c)
    <2>1. row' \in [Machines -> Rows]
        BY <1>0, <1>2 DEF InitNewAgent, TypeOf, WorkerOrArchive, Rows, Types
    <2>2. /\ conn' \in [Conns -> Connections]
          /\ \A d \in Conns : conn'[d].of = conn[d].of /\ (conn'[d].pc = "new" => conn[d].pc = "new")
        <3>1. row[conn[c].of].type \in Types
            BY <1>0 DEF Rows
        <3> QED
            BY <1>0, <1>2, <3>1 DEF InitNewAgent, Connections, Phases
    <2> QED
        BY <1>0, <1>2, <2>1, <2>2, SameMachines DEF InitNewAgent
<1>3. CASE Register(c)
    BY <1>3, RegisterKeepsIInv
<1>4. CASE Exits(c)
    BY <1>0, <1>4, StartUpKeepsIInv DEF Exits
<1>5. CASE SetupFails(c)
    <2>1. row' \in [Machines -> Rows]
        BY <1>0, <1>5, RowUp DEF SetupFails, Forget
    <2>2. /\ conn' \in [Conns -> Connections]
          /\ \A d \in Conns : conn'[d].of = conn[d].of /\ (conn'[d].pc = "new" => conn[d].pc = "new")
        BY <1>0, <1>5 DEF SetupFails, Connections, Phases, Types
    <2> QED
        BY <1>0, <1>5, <2>1, <2>2, SameMachines DEF SetupFails, configuration
<1>6. CASE SetupEnds(c)
    <2>1. /\ conn' \in [Conns -> Connections]
          /\ \A d \in Conns : conn'[d].of = conn[d].of /\ (conn'[d].pc = "new" => conn[d].pc = "new")
        BY <1>0, <1>6 DEF SetupEnds, Goto, Connections, Phases
    <2> QED
        BY <1>0, <1>6, <2>1, SameMachines DEF SetupEnds, configuration
<1>7. CASE Ping(c)
    <2>1. Goto(c, "done") \in [Conns -> Connections]
        BY <1>0 DEF Goto, Connections, Phases
    <2>2. \A d \in Conns : /\ Goto(c, "done")[d].of = conn[d].of
                           /\ Goto(c, "done")[d].pc = "new" => conn[d].pc = "new"
        BY <1>0 DEF Goto, Connections
    <2> QED
        BY <1>7, <2>1, <2>2, RemoveKeepsIInv DEF Ping
<1> QED
    BY <1>1, <1>2, <1>3, <1>4, <1>5, <1>6, <1>7 DEF Serve

LEMMA NextIInv == IInv /\ [Next]_vars => IInv'
<1> SUFFICES ASSUME IInv, [Next]_vars PROVE IInv'
    OBVIOUS
<1> USE DEF IInv, configuration
<1>0. conn \in [Conns -> Connections] /\ agents \subseteq Conns
    BY DEF TypeOK, Connections
<1>1. CASE \E c \in Conns, m \in Machines : Accept(c, m)
    BY <1>1, AcceptKeepsIInv
<1>2. CASE \E c \in Conns : Serve(c)
    BY <1>2, ServeKeepsIInv
<1>3. CASE \E c \in Conns : CommandFails(c)
    BY <1>0, <1>3, RemoveKeepsIInv DEF CommandFails
<1>4. CASE \E c \in Conns : Break(c)
    <2>1. PICK c \in Conns : Break(c)
        BY <1>4
    <2>2. /\ conn' \in [Conns -> Connections]
          /\ \A d \in Conns : conn'[d].of = conn[d].of /\ conn'[d].pc = conn[d].pc
        BY <1>0, <2>1, ConnDies DEF Break
    <2> QED
        BY <2>1, <2>2, SameMachines DEF Break, TypeOK, Rows
<1>5. CASE FetchYml
    BY <1>5 DEF FetchYml, TypeOK, Served, OneConnectionPerMachine
<1>6. CASE SetAllAgentTypes
    <2>1. Classified(row) \in [Machines -> Rows]
        BY ClassifiedAreRows DEF TypeOK, Rows
    <2> QED
        BY <1>6, <2>1 DEF SetAllAgentTypes, TypeOK, Rows, Served, OneConnectionPerMachine
<1>7. CASE \E m \in Machines : CheckPort(m)
    <2>1. PICK m \in Machines : CheckPort(m)
        BY <1>7
    <2>2. PICK c \in agents : Remove(c, conn)
        BY <2>1 DEF CheckPort, AgentsByAgentid, Enabled
    <2> QED
        BY <1>0, <2>1, <2>2, RemoveKeepsIInv DEF CheckPort
<1>8. CASE \E m \in Machines : SetEnabled(m)
    <2>1. row' \in [Machines -> Rows]
        <3>1. row \in [Machines -> Rows]
            BY DEF TypeOK, Rows
        <3>2. PICK m \in Machines : SetEnabled(m)
            BY <1>8
        <3> DEFINE b == ~ row[m].enabled
        <3>3. row' = [row EXCEPT ![m].enabled = b] /\ b \in BOOLEAN
            BY <3>2 DEF SetEnabled
        <3> HIDE DEF b
        <3> QED
            BY <3>1, <3>3, RowSwitched
    <2> QED
        BY <1>8, <2>1, BoundsAssumption
        DEF SetEnabled, TypeOK, Rows, Served, OneConnectionPerMachine
<1>9. CASE ChangeHosts
    BY <1>9, BoundsAssumption DEF ChangeHosts, TypeOK, Served, OneConnectionPerMachine
<1>10. CASE Restart
    BY <1>10, StartUpKeepsIInv, BoundsAssumption DEF Restart, TypeOK
<1>11. CASE UNCHANGED vars
    BY <1>11 DEF vars, TypeOK, Served, OneConnectionPerMachine
<1> QED
    BY <1>1, <1>2, <1>3, <1>4, <1>5, <1>6, <1>7, <1>8, <1>9, <1>10, <1>11 DEF Next

\* register, remove_agent and the connections' threads never leave two connections of one machine
\* in AgentManager.agents, whatever breaks, fails or is switched off.
THEOREM OneConnection == Spec => []OneConnectionPerMachine
<1>1. IInv => OneConnectionPerMachine
    BY DEF IInv
<1> QED
    BY InitIInv, NextIInv, <1>1, PTL DEF Spec

\* The only rows that Remove takes down are those of the connection it takes out.
LEMMA RemoveHides ==
    ASSUME IInv, NEW c \in Conns, NEW phases, Remove(c, phases)
    PROVE  HidesOnlyByFailedSetup
<1> SUFFICES ASSUME NEW d \in agents, d \in agents', row[conn[d].of].up
             PROVE  row'[conn[d].of].up
    BY DEF HidesOnlyByFailedSetup
<1>1. row \in [Machines -> Rows] /\ d \in Conns /\ conn \in [Conns -> Connections]
    BY DEF IInv, TypeOK, Rows, Connections
<1>2. CASE c \in agents
    <2>1. c # d
        BY <1>2 DEF Remove
    <2>2. conn[c].of # conn[d].of
        BY <1>2, <2>1 DEF IInv, OneConnectionPerMachine
    <2> QED
        BY <1>1, <1>2, <2>2 DEF Remove, Forget, Rows, Connections
<1>3. CASE c \notin agents
    BY <1>3 DEF Remove
<1> QED
    BY <1>2, <1>3

LEMMA StepHides == IInv /\ [Next]_vars => [HidesOnlyByFailedSetup]_vars
<1> SUFFICES ASSUME IInv, Next PROVE HidesOnlyByFailedSetup
    OBVIOUS
<1>0. /\ row \in [Machines -> Rows] /\ conn \in [Conns -> Connections] /\ agents \subseteq Conns
      /\ \A c \in agents : conn[c].of \in Machines
    BY DEF IInv, TypeOK, Rows, Connections
<1>1. CASE \E c \in Conns, m \in Machines : Accept(c, m)
    <2>1. PICK m \in Machines : row' = [row EXCEPT ![m].up = TRUE]
        BY <1>1 DEF Accept, Build
    <2> QED
        BY <1>0, <2>1 DEF HidesOnlyByFailedSetup, Rows
<1>2. CASE \E c \in Conns : Serve(c)
    <2>1. PICK c \in Conns : Serve(c)
        BY <1>2
    <2>2. CASE PingDisabled(c)
        BY <1>0, <2>2 DEF PingDisabled, Build, HidesOnlyByFailedSetup, Rows, Connections
    <2>3. CASE InitNewAgent(c)
        BY <1>0, <2>3 DEF InitNewAgent, HidesOnlyByFailedSetup, Rows, Connections
    <2>4. CASE Register(c)
        <3> DEFINE rows == [row EXCEPT ![conn[c].of] = [Named(@, conn[c].was) EXCEPT !.up = TRUE]]
        <3>1. row' \in {rows, Classified(rows)}
            BY <2>4 DEF Register
        <3>2. rows \in [Machines -> Rows] /\ \A m \in Machines : row[m].up => rows[m].up
            <4>1. Named(row[conn[c].of], conn[c].was) \in Rows
                BY <1>0, NamedIsRow DEF Connections
            <4> QED
                BY <1>0, <4>1 DEF Rows
        <3>3. \A m \in Machines : Classified(rows)[m].up = rows[m].up
            BY <3>2, ClassifiedKeepsUp
        <3> HIDE DEF rows
        <3> QED
            BY <1>0, <3>1, <3>2, <3>3 DEF HidesOnlyByFailedSetup
    <2>5. CASE Exits(c)
        BY <2>5 DEF Exits, StartUp, HidesOnlyByFailedSetup
    <2>6. CASE SetupFails(c)
        BY <1>0, <2>6 DEF SetupFails, Forget, HidesOnlyByFailedSetup, Rows, Connections
    <2>7. CASE SetupEnds(c)
        BY <2>7 DEF SetupEnds, HidesOnlyByFailedSetup
    <2>8. CASE Ping(c)
        BY <2>8, RemoveHides DEF Ping
    <2> QED
        BY <2>1, <2>2, <2>3, <2>4, <2>5, <2>6, <2>7, <2>8 DEF Serve
<1>3. CASE \E c \in Conns : CommandFails(c)
    BY <1>3, RemoveHides DEF CommandFails
<1>4. CASE \E m \in Machines : CheckPort(m)
    BY <1>0, <1>4, RemoveHides DEF CheckPort, AgentsByAgentid, Enabled
<1>5. CASE SetAllAgentTypes
    BY <1>0, <1>5, ClassifiedKeepsUp DEF SetAllAgentTypes, HidesOnlyByFailedSetup
<1>6. CASE \E m \in Machines : SetEnabled(m)
    BY <1>0, <1>6 DEF SetEnabled, HidesOnlyByFailedSetup, Rows
<1>7. CASE (\E c \in Conns : Break(c)) \/ FetchYml \/ ChangeHosts
    BY <1>7 DEF Break, FetchYml, ChangeHosts, HidesOnlyByFailedSetup
<1>8. CASE Restart
    BY <1>8 DEF Restart, StartUp, HidesOnlyByFailedSetup
<1> QED
    BY <1>1, <1>2, <1>3, <1>4, <1>5, <1>6, <1>7, <1>8 DEF Next

\* Forgetting an old connection never hides the new one: the manager's lock and the dictionary
\* are enough, although forget itself does not look at the connection.
THEOREM OldDoesNotHideNew == Spec => OldConnectionsDoNotHideNew
BY InitIInv, NextIInv, StepHides, PTL DEF Spec, OldConnectionsDoNotHideNew

\* The types of all variables.
THEOREM TypeCorrect == Spec => []TypeOK
<1>1. IInv => TypeOK
    BY DEF IInv
<1> QED
    BY InitIInv, NextIInv, <1>1, PTL DEF Spec
=============================================================================
