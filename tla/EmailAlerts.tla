----------------------------- MODULE EmailAlerts -----------------------------
(***************************************************************************)
(* From an event to its e-mail: EventControlManager.gen                    *)
(* (event_control.py), AlertEmail.send and its muting of short             *)
(* disconnections (alert_email.py), the limit on error mails               *)
(* (email_limit.py), the settings page that turns alerts on again          *)
(* (src/app/palette/general.py) and the daily reminder (clihandler.py).    *)
(*                                                                         *)
(* Events are generated by several threads at once, each database access   *)
(* is a step of its own, and time passes between any two of them.  One     *)
(* agent loses its connection and comes back.  Subjects, templates,        *)
(* addresses and mails to publishers are left out; the licence is valid    *)
(* (licensing_send answers so without asking anybody).                     *)
(***************************************************************************)
EXTENDS Naturals, FiniteSets

CONSTANTS
    Threads,    \* threads that generate events
    MaxCount,   \* system key email-max-count
    Lookback,   \* system key email-lookback-minutes
    Mute,       \* system key email-mute-reconnect-seconds
    MaxTime,    \* bound: the clock
    MaxEvents   \* bound: events generated

ASSUME LimitAssumption == MaxCount \in Nat /\ Lookback \in Nat /\ Mute \in Nat \ {0}
ASSUME BoundAssumption == MaxTime \in Nat \ {0} /\ MaxEvents \in Nat

Times == 0 .. MaxTime
Keys == {"error", "disconnect", "reconnect", "reminder"}
Phases == {"up", "down", "setup"}

VARIABLES
    now,        \* the clock of the database
    agent,      \* the agent's row: last_connection_time, last_disconnect_time; what its handler does
    admins,     \* system key alerts-admin-enabled
    spiked,     \* system key email-spike-disabled-alerts
    sent,       \* the rows of email_sent: creation_time, and their order among those of one time
    job,        \* the event each thread is mailing; row: its row of email_sent until counted
    sleepers,   \* the threads of _dis_thread
    events,     \* events generated
    allowed,    \* history: those rows of email_sent whose mail was not held back
    posted,     \* history: somebody has used the settings page
    announced,  \* history: an EMAIL-SPIKE mail was sent
    told,       \* history: the disconnections (by their time) that were mailed
    short       \* history: those after which the agent was back within email-mute-reconnect-seconds

settings == <<admins, spiked, posted, announced>>
log == <<sent, allowed>>
vars == <<now, agent, settings, log, job, sleepers, events, told, short>>

NoRow == [at |-> 0, n |-> 0]        \* none is to be counted, or it has been deleted
Idle == [pc |-> "idle", key |-> "error", row |-> NoRow]
\* _dis_thread before it has read the agent's row; sure: it has read it again, after its sleep.
Awake == [seen |-> 0, until |-> 0, sure |-> FALSE]

Rows == [at : Times, n : Nat]
Places == {"idle", "recipients", "log", "prune", "count", "spike", "disable", "mail"}
Jobs == [pc : Places, key : Keys, row : Rows]

TypeOK ==
    /\ now \in Times
    /\ agent \in [conn : Times, disc : Times, phase : Phases]
    /\ admins \in BOOLEAN /\ spiked \in BOOLEAN /\ posted \in BOOLEAN /\ announced \in BOOLEAN
    /\ sent \subseteq Rows /\ allowed \subseteq Rows
    /\ job \in [Threads -> Jobs]
    /\ sleepers \subseteq [seen : Times, until : 0 .. MaxTime + Mute, sure : BOOLEAN]
    /\ events \in 0 .. MaxEvents /\ told \subseteq Times /\ short \subseteq Times

Init ==
    /\ now = 1
    /\ agent = [conn |-> 1, disc |-> 0, phase |-> "up"]
    /\ admins \in BOOLEAN /\ spiked = FALSE /\ posted = FALSE /\ announced = FALSE
    /\ sent = {} /\ allowed = {}
    /\ job = [t \in Threads |-> Idle]
    /\ sleepers = {} /\ events = 0 /\ told = {} /\ short = {}

Connected(row) == row.disc < row.conn

\* func.now() never gives two updates of the agent's row the same time.
Fresh == now > agent.conn /\ now > agent.disc

Goto(t, pc) == job' = [job EXCEPT ![t].pc = pc]
Finish(t) == job' = [job EXCEPT ![t] = Idle]

(***************************************************************************)
(* Events.  gen commits an incomplete row for the eventid, then the event, *)
(* then calls send.                                                        *)
(***************************************************************************)
Gen(t, key) ==
    /\ job[t] = Idle
    /\ events < MaxEvents
    /\ events' = events + 1
    /\ job' = [job EXCEPT ![t] = [pc |-> "recipients", key |-> key, row |-> NoRow]]

Alarm(t) ==
    /\ Gen(t, "error")
    /\ UNCHANGED <<now, agent, settings, log, sleepers, told, short>>

\* remove_agent marks the row before it generates AGENT-DISCONNECT.
Disconnect(t) ==
    /\ agent.phase = "up" /\ Fresh
    /\ agent' = [agent EXCEPT !.disc = now, !.phase = "down"]
    /\ Gen(t, "disconnect")
    /\ UNCHANGED <<now, settings, log, sleepers, told, short>>

\* handle_agent_connection: build marks the row, then set-up takes its time.
Reconnect ==
    /\ agent.phase = "down" /\ Fresh
    /\ agent' = [agent EXCEPT !.conn = now, !.phase = "setup"]
    /\ short' = IF now < agent.disc + Mute THEN short \union {agent.disc} ELSE short
    /\ UNCHANGED <<now, settings, log, job, sleepers, events, told>>

SetupFails ==
    /\ agent.phase = "setup" /\ Fresh
    /\ agent' = [agent EXCEPT !.disc = now, !.phase = "down"]
    /\ UNCHANGED <<now, settings, log, job, sleepers, events, told, short>>

SetupEnds(t) ==
    /\ agent.phase = "setup"
    /\ agent' = [agent EXCEPT !.phase = "up"]
    /\ Gen(t, "reconnect")
    /\ UNCHANGED <<now, settings, log, sleepers, told, short>>

\* do_daily, a day or more after the spike.
Remind(t) ==
    /\ spiked
    /\ Gen(t, "reminder")
    /\ UNCHANGED <<now, agent, settings, log, sleepers, told, short>>

(***************************************************************************)
(* AlertEmail.send.  admin_emails makes an exception for the reminder.     *)
(***************************************************************************)
HasRecipients(key) == admins \/ key = "reminder"
IsError(key) == key \in {"error", "disconnect"}

Send(t) ==
    /\ job[t].pc = "recipients"
    /\ IF ~HasRecipients(job[t].key) THEN Finish(t)
       ELSE Goto(t, IF IsError(job[t].key) THEN "log" ELSE "mail")
    /\ UNCHANGED <<now, agent, settings, log, sleepers, events, told, short>>

(***************************************************************************)
(* email_limit_reached: log, prune and count, and at the limit tell the    *)
(* administrators and turn the alerts off.                                 *)
(***************************************************************************)
\* The rows that the database commits in one second are told apart by their number.
NewRow == [at |-> now, n |-> Cardinality({row \in sent : row.at = now}) + 1]

Log(t) ==
    /\ job[t].pc = "log"
    /\ sent' = sent \union {NewRow}
    /\ job' = [job EXCEPT ![t].pc = "prune", ![t].row = NewRow]
    /\ UNCHANGED <<now, agent, settings, allowed, sleepers, events, told, short>>

Recent(rows) == {row \in rows : row.at + Lookback >= now}

Prune(t) ==
    /\ job[t].pc = "prune"
    /\ sent' = Recent(sent) /\ allowed' = Recent(allowed)
    /\ Goto(t, "count")
    /\ UNCHANGED <<now, agent, settings, sleepers, events, told, short>>

\* Mutant: counts before it logs.
LimitReached_OthersOnly == Cardinality(sent) > MaxCount + 1
LimitReached == Cardinality(sent) > MaxCount

Count(t) ==
    /\ job[t].pc = "count"
    /\ allowed' = IF LimitReached THEN allowed ELSE allowed \union ({job[t].row} \ {NoRow})
    /\ job' = [job EXCEPT ![t].pc = IF LimitReached THEN "spike" ELSE "mail", ![t].row = NoRow]
    /\ UNCHANGED <<now, agent, settings, sent, sleepers, events, told, short>>

\* Mutant: turns the alerts off before it generates EMAIL-SPIKE.
Spike_SettingsFirst(t) ==
    /\ job[t].pc = "spike"
    /\ admins' = FALSE /\ spiked' = TRUE
    /\ Goto(t, "disable")
    /\ UNCHANGED <<now, agent, posted, announced, log, sleepers, events, told, short>>

\* _eventit: EMAIL-SPIKE is an event of its own, with its own look at the settings.
Spike(t) ==
    /\ job[t].pc = "spike"
    /\ announced' = (announced \/ admins)
    /\ Goto(t, "disable")
    /\ UNCHANGED <<now, agent, admins, spiked, posted, log, sleepers, events, told, short>>

Disable(t) ==
    /\ job[t].pc = "disable"
    /\ admins' = FALSE /\ spiked' = TRUE
    /\ Finish(t)
    /\ UNCHANGED <<now, agent, posted, announced, log, sleepers, events, told, short>>

(***************************************************************************)
(* Muting.  A disconnection is mailed by a thread that sleeps first, a     *)
(* reconnection at once or not at all.                                     *)
(***************************************************************************)
\* Mutant: the wrong column.
Soon_SinceConnection == now <= agent.conn + Mute
Soon == now <= agent.disc + Mute

Mail(t) ==
    /\ job[t].pc = "mail"
    /\ sleepers' = IF job[t].key = "disconnect" THEN sleepers \union {Awake} ELSE sleepers
    /\ Finish(t)
    /\ UNCHANGED <<now, agent, settings, log, events, told, short>>

Muted(t) == job[t].pc = "mail" /\ job[t].key = "reconnect" /\ Soon

FallAsleep ==
    /\ Awake \in sleepers
    /\ sleepers' = (sleepers \ {Awake}) \union {[seen |-> agent.disc, until |-> now + Mute, sure |-> FALSE]}
    /\ UNCHANGED <<now, agent, settings, log, job, events, told, short>>

\* Mutant: the copy of the row from before the sleep.
RowAfterSleep_Cached(s) == [conn |-> 0, disc |-> s.seen]
\* The row as _dis_thread reads it after the sleep (it expires the old copy first).
RowAfterSleep(s) == agent

StillGone(s) ==
    LET row == RowAfterSleep(s)
    IN ~Connected(row) /\ row.disc = s.seen

WakeUp(s) ==
    /\ s # Awake /\ ~ s.sure /\ now >= s.until
    /\ sleepers' = (sleepers \ {s}) \union (IF StillGone(s) THEN {[s EXCEPT !.sure = TRUE]} ELSE {})
    /\ UNCHANGED <<now, agent, settings, log, job, events, told, short>>

\* The mail goes out some time after the row was read: the agent may be back by then.
SendDisconnect(s) ==
    /\ s.sure
    /\ told' = told \union {s.seen}
    /\ sleepers' = sleepers \ {s}
    /\ UNCHANGED <<now, agent, settings, log, job, events, short>>

(***************************************************************************)
(* The settings page and the clock.                                        *)
(***************************************************************************)
TurnOn ==
    /\ admins' = TRUE /\ spiked' = FALSE /\ posted' = TRUE
    /\ sent' = {} /\ allowed' = {}
    /\ job' = [t \in Threads |-> [job[t] EXCEPT !.row = NoRow]]
    /\ UNCHANGED <<now, agent, announced, sleepers, events, told, short>>

TurnOff ==
    /\ admins' = FALSE /\ posted' = TRUE
    /\ UNCHANGED <<now, agent, spiked, announced, log, job, sleepers, events, told, short>>

Tick ==
    /\ now < MaxTime
    /\ now' = now + 1
    /\ UNCHANGED <<agent, settings, log, job, sleepers, events, told, short>>

Event(t) == Alarm(t) \/ Disconnect(t) \/ SetupEnds(t) \/ Remind(t)
Deliver(t) == Send(t) \/ Log(t) \/ Prune(t) \/ Count(t) \/ Spike(t) \/ Disable(t) \/ Mail(t)

Next ==
    \/ \E t \in Threads : Event(t) \/ Deliver(t)
    \/ FallAsleep
    \/ \E s \in sleepers : WakeUp(s) \/ SendDisconnect(s)
    \/ Reconnect \/ SetupFails
    \/ TurnOn \/ TurnOff
    \/ Tick

Spec == Init /\ [][Next]_vars

-----------------------------------------------------------------------------
(***************************************************************************)
(* Properties.                                                             *)
(***************************************************************************)

\* At most email-max-count of the error mails logged in a look-back period go out (since the
\* alerts were last turned on): email_limit.py logs a mail before it counts, so that of several
\* threads at the limit the last one to count sees all the others.
ErrorMailsAreLimited == Cardinality(Recent(allowed)) <= MaxCount

\* The counting tables and the mails that go by them agree (email_limit.py:56-95).
LimitHolds == TypeOK /\ ErrorMailsAreLimited

\* As long as nobody uses the settings page, alerts that the limit has turned off have been
\* announced to the administrators, whichever thread was first (email_limit.py:97-103).
OffIsAnnounced == spiked /\ ~posted => announced

\* A disconnection is mailed only when at least email-mute-reconnect-seconds have passed and the
\* agent was not back before they had (docstring of _dis_thread), whatever threads sleep for other
\* disconnections of it; it may be back when the mail goes out (alert_email.py:297-305).
DisconnectMailIsTrue ==
    [][\A d \in told' \ told : d + Mute <= now /\ d \notin short]_vars

\* The two mutes fit together: a return that is not mailed belongs to a disconnection that was
\* not mailed either (except in the second in which both are due).
MutedReturnWasNotTold ==
    [][\A t \in Threads : Muted(t) /\ job'[t] = Idle =>
          agent.disc \notin told \/ now = agent.disc + Mute]_vars
=============================================================================
