------------------------------- MODULE Notices -------------------------------
(***************************************************************************)
(* Alerts that are sent when a colour changes: the load of the machines    *)
(* and of their processes (metrics.py), the use of their disks             *)
(* (update_agent_pinfo_vols in agentmanager.py), the Tableau licence       *)
(* (licensing.py) and the ports they must reach (ports.py).  Each keeps    *)
(* the colour it has notified in a row of the database (notifications.py,  *)
(* agent_volumes, ports) and follows the same course: measure, compare     *)
(* with the row, generate the event, write the row.                        *)
(*                                                                         *)
(* The kinds share nothing, so a behaviour is about one of them.  What is  *)
(* measured is reduced to the colour of its threshold, "none" when there   *)
(* are no samples (or the agent has just connected).                       *)
(***************************************************************************)
EXTENDS Naturals, FiniteSets

CONSTANTS
    Agents,       \* the machines; for "disk" their volumes
    LicenseHost,  \* the machine with the licence
    Scheduler,    \* the thread that runs the scheduled commands
    Other,        \* a thread that does the same check: an agent's set-up, a user's command, or
                  \* the scheduled command again (cpu_load does not wait for its answer)
    MaxChanges,   \* bound: changes of what is measured, and of a port being active
    MaxCrashes    \* bound: restarts of the controller

ASSUME LicenseAssumption == LicenseHost \in Agents
ASSUME ThreadAssumption == Scheduler # Other
ASSUME BoundAssumption == MaxChanges \in Nat /\ MaxCrashes \in Nat

Kinds == {"process", "cpu", "disk", "license", "port"}
Colors == {"green", "yellow", "red"}
None == "none"

VARIABLES
    kind,       \* what this behaviour is about
    level,      \* what is measured now
    active,     \* PortEntry.active
    row,        \* the notified colour in the database
    job,        \* the check each thread is at
    changes,    \* changes so far
    crashes,    \* restarts so far
    last,       \* history: the colour of the last event; None also when a restart came between
                \* it and its row, or the port was found inactive after it
    overlap     \* history: two checks have run side by side

noticesVars == <<kind, level, active, row, job, changes, crashes, last, overlap>>

Threads == {Scheduler, Other}

Watched == IF kind = "license" THEN {LicenseHost} ELSE Agents
Levels == CASE kind = "license" -> {"green", "red"}
            [] kind = "disk" -> Colors
            [] kind = "port" -> {"green", "red", None}
            [] OTHER -> Colors \union {None}

Idle == [pc |-> "idle", todo |-> {}, on |-> LicenseHost, color |-> None]

NoticesTypeOK ==
    /\ kind \in Kinds
    /\ level \in [Agents -> Levels]
    /\ active \in [Agents -> BOOLEAN]
    /\ kind # "port" => \A a \in Agents : active[a]
    /\ row \in [Agents -> Colors \union {None}]
    /\ job \in [Threads -> [pc : {"idle", "next", "tell", "write"}, todo : SUBSET Agents,
                            on : Agents, color : Colors \union {None}]]
    /\ \A t \in Threads : job[t].pc \in {"tell", "write"} => job[t].color # None
    /\ changes \in 0 .. MaxChanges /\ crashes \in 0 .. MaxCrashes
    /\ last \in [Agents -> Colors \union {None}]
    /\ overlap \in BOOLEAN

NoticesInit ==
    /\ kind \in Kinds
    /\ level = [a \in Agents |-> "green"]
    /\ active = [a \in Agents |-> TRUE]
    /\ row = [a \in Agents |-> None]
    /\ job = [t \in Threads |-> Idle]
    /\ changes = 0 /\ crashes = 0
    /\ last = [a \in Agents |-> None]
    /\ overlap = FALSE

Set(t, pc) == job' = [job EXCEPT ![t].pc = pc]

\* On to the next machine, or the end of the check.
Onward(t) == job' = [job EXCEPT ![t] = IF @.todo = {} THEN Idle ELSE [@ EXCEPT !.pc = "next"]]

\* Mutant: port checks, too, run side by side.
Free_Always(t) == job[t].pc = "idle"

\* check_ports_lock: a port check is refused while another one runs.  A metric check, or a
\* machine's report of its disks, is not (do_metric has the read lock only).
Free(t) ==
    /\ job[t].pc = "idle"
    /\ kind = "port" => \A u \in Threads : job[u].pc = "idle"

StartCheck(t) ==
    /\ Free(t)
    /\ job' = [job EXCEPT ![t].pc = "next", ![t].todo = Watched]
    /\ overlap' = (overlap \/ \E u \in Threads : job[u].pc # "idle")
    /\ UNCHANGED <<kind, level, active, row, changes, crashes, last>>

(***************************************************************************)
(* process_level_check joins the processes with the notifications of the   *)
(* same name and takes the least colour: the join is on the name alone,    *)
(* not on the agent, and 'green' < 'red' < 'yellow'.  Total CPU load,      *)
(* disks and the licence look at their own row only (when they tell).      *)
(***************************************************************************)
Joined(a) ==
    LET notified == {row[b] : b \in Agents} \ {None}
    IN CASE "green" \in notified -> "green"
         [] "red" \in notified /\ "green" \notin notified -> "red"
         [] notified = {"yellow"} -> "yellow"
         [] OTHER -> None

Changed(a) == kind = "process" => Joined(a) # level[a]

\* Without samples (a machine that has just connected) nothing is compared.
Measured(a) == level[a] # None

Measure(t) ==
    /\ job[t].pc = "next"
    /\ \E a \in job[t].todo :
         /\ active[a]
         /\ LET rest == [job[t] EXCEPT !.todo = @ \ {a}]
            IN job' = [job EXCEPT ![t] =
                         IF Measured(a) /\ Changed(a)
                         THEN [rest EXCEPT !.pc = "tell", !.on = a, !.color = level[a]]
                         ELSE IF rest.todo = {} THEN Idle ELSE rest]
    /\ UNCHANGED <<kind, level, active, row, changes, crashes, last, overlap>>

\* check_ports takes the colours of a port that is not active back, and tells nobody.
Neutral(t) ==
    /\ job[t].pc = "next"
    /\ \E a \in job[t].todo :
         /\ ~ active[a]
         /\ row' = [row EXCEPT ![a] = None]
         /\ last' = [last EXCEPT ![a] = None]
         /\ LET rest == [job[t] EXCEPT !.todo = @ \ {a}]
            IN job' = [job EXCEPT ![t] = IF rest.todo = {} THEN Idle ELSE rest]
    /\ UNCHANGED <<kind, level, active, changes, crashes, overlap>>

\* Mutant: yellow after red is not told.
EventDue_NoDowngrade(color, notified) ==
    /\ color # notified
    /\ color = "green" => notified # None
    /\ ~ (color = "yellow" /\ notified = "red")

\* An event is due for another colour than the notified one, but none for a first green.  (A port's
\* row is written all the same.)
EventDue(color, notified) == color # notified /\ (color = "green" => notified # None)

Tell(t) ==
    /\ job[t].pc = "tell"
    /\ LET a == job[t].on
           color == job[t].color
       IN IF EventDue(color, row[a])
          THEN last' = [last EXCEPT ![a] = color] /\ Set(t, "write")
          ELSE /\ IF kind = "port" THEN Set(t, "write") ELSE Onward(t)
               /\ UNCHANGED last
    /\ UNCHANGED <<kind, level, active, row, changes, crashes, overlap>>

\* Mutant: the row gets what is measured by now, not what was told.
Write_Now(t) ==
    /\ job[t].pc = "write"
    /\ row' = [row EXCEPT ![job[t].on] = level[job[t].on]]
    /\ Onward(t)
    /\ UNCHANGED <<kind, level, active, changes, crashes, last, overlap>>

Write(t) ==
    /\ job[t].pc = "write"
    /\ row' = [row EXCEPT ![job[t].on] = job[t].color]
    /\ Onward(t)
    /\ UNCHANGED <<kind, level, active, changes, crashes, last, overlap>>

\* The load, the disk or the licence changes.
Change ==
    /\ changes < MaxChanges
    /\ \E a \in Watched, l \in Levels : level' = [level EXCEPT ![a] = l]
    /\ changes' = changes + 1
    /\ UNCHANGED <<kind, active, row, job, crashes, last, overlap>>

\* Somebody switches the check of a port off or on, in its row.
Switch ==
    /\ kind = "port" /\ changes < MaxChanges
    /\ \E a \in Watched : active' = [active EXCEPT ![a] = ~ @]
    /\ changes' = changes + 1
    /\ UNCHANGED <<kind, level, row, job, crashes, last, overlap>>

\* Any unexpected exception ends the controller (os._exit); init starts it again.
Restart ==
    /\ crashes < MaxCrashes
    /\ crashes' = crashes + 1
    /\ last' = [a \in Agents |-> IF \E t \in Threads : job[t].pc = "write" /\ job[t].on = a
                                 THEN None ELSE last[a]]
    /\ job' = [t \in Threads |-> Idle]
    /\ UNCHANGED <<kind, level, active, row, changes, overlap>>

Goes(t) == Measure(t) \/ Neutral(t) \/ Tell(t) \/ Write(t)
CheckMachines(t) == StartCheck(t) \/ Goes(t)

NoticesNext ==
    \/ \E t \in Threads : CheckMachines(t)
    \/ Change \/ Switch
    \/ Restart

\* The scheduler comes back to each command; a check that has begun runs on.
Fairness == WF_noticesVars(CheckMachines(Scheduler)) /\ WF_noticesVars(Goes(Other))

NoticesSpec == NoticesInit /\ [][NoticesNext]_noticesVars /\ Fairness

-----------------------------------------------------------------------------
(***************************************************************************)
(* Properties.                                                             *)
(***************************************************************************)

\* The row says what is measured; nobody writes a row for a green that was never anything else.
Agrees(a) ==
    IF active[a]
    THEN row[a] = level[a] \/ level[a] = None \/ (level[a] = "green" /\ row[a] = None)
    ELSE row[a] = None

\* What is notified comes to agree with what is measured, also when two threads check the same
\* machine, disk or licence and one of them writes late, and after a restart between an event and
\* its row; the row of a port that is not watched any more says nothing.
NotifiedConverges == \A a \in Agents : <>[](kind # "process" => Agrees(a))

\* check_ports_lock keeps port checks apart; the others may overlap.
ChecksApart ==
    /\ kind = "port" => ~ overlap
    /\ ~ overlap => \A t, u \in Threads : job[t].pc # "idle" /\ job[u].pc # "idle" => t = u

Writing(t, a) == job[t].pc = "write" /\ job[t].on = a

\* The last event had the colour that is being written or, when nobody is writing, the row's.
ToldIsNoted ==
    ~ overlap => \A a \in Agents :
        /\ \A t \in Threads : Writing(t, a) => last[a] \in {None, job[t].color}
        /\ (\A t \in Threads : ~ Writing(t, a)) => last[a] \in {None, row[a]}

\* Two port checks never overlap, and as long as no two checks have, the row of an alert holds the
\* colour of the last event about it, or the check that runs is just about to write it, although
\* the event goes out before the row is written (metrics.py:281-297, ports.py:181-203), whoever
\* asks for checks, switches a port off and on, or restarts the controller.
NotesAreKept == NoticesTypeOK /\ ChecksApart /\ ToldIsNoted

Tells(t) == job[t].pc = "tell" /\ EventDue(job[t].color, row[job[t].on]) /\ job'[t].pc = "write"

\* PortManager, "Otherwise: 1) We can send the same 'failed to connect' event from two separate
\* threads": an event has the colour of the one before only after two checks overlapped, which
\* ChecksApart excludes for ports and nothing excludes for the rest (or after a restart between an
\* event and its row, or a time in which the port was not active).
AlertsAlternate ==
    [][\A t \in Threads : ~ overlap /\ Tells(t) => job[t].color # last[job[t].on]]_noticesVars

=============================================================================
