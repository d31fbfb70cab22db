# Palette controller: specification and proofs

Palette is a server that looks after one Tableau Server installation. Its
*controller* (`src/controller/controller`, Python 2) keeps TCP connections from
agents, one of them on the *primary* host where Tableau runs; polls Tableau's
status through that agent; runs the actions a user or the scheduler types on a
telnet connection (backup, restore, start, stop, ...); sends alerts; and archives
what is published on Tableau. The web application (`src/app/palette`) reads and
writes the shared database and types telnet commands.

The modules here model the controller's threads and what they share, the protocol
with the agent, the alerts, the archives, and the page users look at.

## 1. Inventory

Sources without a directory are in `src/controller/controller/`.

| Component | State | Operations | What is hard | What makes it correct |
|---|---|---|---|---|
| Upgrade lock, `rwlock.py` | `rwlock`, `writers_waiting`, one monitor with two conditions | acquire / try / release | notification after the monitor is given up; errors raised with the monitor held | counters say who holds it; no lost wake-up; writers first |
| Main state, `state.py`, `state_transitions.py` | one row of table `system` | `update`, `TRANSITIONS` | a state that is not in the table can only be left by the action that set it | the state comes to agree with Tableau |
| User actions, `clihandler.py`, `controller.py` | main state, user action lock, saved state in a local variable | ten actions of one shape: lock, check, mark, command, check status, unlock; upgrade on / off | forty return paths; commands fail after they had their effect; the agent reconnects meanwhile | locks are given up, no state of an action is left behind |
| Status monitor, `tableau.py` | status table, `first_degraded_time`, `sent_degraded_event` | poll, fetch, `_finish_status`, events | checks the lock, releases it, fetches, takes it again; times kept across polls and actions | nobody overwrites an action's state; DEGRADED is told late, once, and taken back |
| Maintenance servers, `controller.py maint` | `maint_started`, a server per gateway | start, stop, at transitions and connections | one flag for several servers | the flag is right |
| Agents, `agentmanager.py`, `agent.py` | dictionary of connections, table `agent` | accept, enable, set up, register, classify, ping, remove | one thread per connection; a new connection replaces an old one whose removal comes late | one connection per machine; a lost agent is noticed, a connected one is shown |
| Agent commands, `cli_cmd.py`, `src/agent/processmanager.py` | xid, socket lock, the agent's process table | start, poll, kill, cleanup, immediate commands, files, pings | timeouts with the answer unread or read in part; reconnection between the steps | answers are not mixed up, nothing left on the agent, failures are reported |
| Events and mail, `event_control.py`, `alert_email.py`, `email_limit.py` | count of recent mails, waiting threads, the agents' times | send, mute, limit, remind | mails that wait while the agent comes back; threads that count at once | the limit holds, what is mailed is true |
| Notified colours, `metrics.py`, `notifications.py`, `ports.py`, `licensing.py`, disks in `agentmanager.py` | a row per machine, disk, port | measure, compare, tell, write | read and write in separate statements, two threads | one alert per change of colour as long as checks do not overlap, which only ports prevent; rows converge |
| Archives, `workbooks.py`, `datasources.py`, `extract_archive.py`, `archive_mixin.py` | rows of revisions, rows of files, retention counts | import, fixup, refresh, fetch, place, retain, prune | many commits per command; failures that switch the job off | archives have their files; retention keeps the newest; all is archived in the end |
| Extract alerts, `extracts.py` | copy of `background_jobs` with its warn / error bits | load, thresholds, events | the cursor is the newest row copied; event and row in commits of their own; a restore of Tableau gives numbers again | reported once, never missed, but for what a restore touched |
| Monitor page, `src/app/palette/monitor.py`, `state_control.json` | none: reads rows | poll from the browser | rows written one by one; buttons kept in a table apart from the commands' tests | what is offered is accepted; green hides nothing |
| Scheduler, `sched.py` | jobs | run what is due | jobs run again after a restart | - |
| The rest | `cloud.py`, `sites.py`, `auth.py`, `firewall*.py`, `odbc.py`, `yml.py`, packaging, other pages, akiri.framework | requests and rows | - | - |

Threads meet in the database row of the main state (no transaction spans a read
and the write that depends on it), in the user action lock (an `RLock` in each
`AgentConnection`), the upgrade lock (`upgrade_rwlock`, read by a decorator
around every command, by the monitor and by agent set-up), the lock of each
connection's socket, the agent dictionary with its lock, and the rows of alerts
and archives. `PROJECT.json` lists the hazards line by line.

## 2. Modules

| Module | Models |
|---|---|
| `AbstractRWLock` | what the docstrings of `rwlock.py` promise: sets of readers, writer, waiting writers |
| `RWLock`, `RWLockProofs` | `rwlock.py`, one action per stretch that the monitor protects; implements `AbstractRWLock` |
| `StateTransitions` | states and `TRANSITIONS`: operators only |
| `PaletteState` | the shared variables, the threads' places and local variables |
| `AgentConnections` | the primary's connections among the actions: register, remove, set-up, pings; crash, disconnection, Tableau used from outside |
| `StatusMonitor` | the monitor's loop and `check_status_with_connection`, which actions call as well |
| `UserActions` | the ten user actions |
| `TableauState` | upgrades, the composition of the four above, fairness, properties |
| `MonitorPage`, `TableauStateProofs` | the administrators' page as a function of `TableauState`'s variables; the proofs about both |
| `MCTableauState` | symmetry of the users |
| `StatusEvents`, `StatusEventsProofs` | `_send_events`, `maint` and the actions that switch them; extends `StateTransitions`. The proofs are also those of `Notices` |
| `AgentCommand` | what `cli_cmd` promises about a command: its process runs once, its result is told once and is true |
| `CliCommand`, `CliCommandProofs` | one agent, its connections and process table, the threads that use it; implements `AgentCommand` |
| `Agents`, `AgentsProofs` | several machines, their rows, types and names |
| `EmailAlerts`, `EmailAlertsProofs` | from an event to its mail |
| `Notices` | the alerts that are sent when a colour changes |
| `ArchiveStore` | what a manager promises about its archives: sets of revisions that grow by one and lose their oldest |
| `Archives`, `ArchivesProofs` | the three archive managers; implements `ArchiveStore` |
| `Extracts`, `ExtractsProofs` | the load of `background_jobs` and its alerts |

`PaletteState`, `AgentConnections`, `StatusMonitor`, `UserActions`,
`TableauState` and `MonitorPage` extend each other in that order, over one set
of variables. The others are closed models: what another module decides comes
in as a free choice (a command of `UserActions` succeeds, fails or is lost; how,
is `CliCommand`).

**TableauState.** `main` is `system[SystemKeys.STATE]`, `reported` the "Status"
row of `tableau_processes`, `primary` the key of the primary in
`AgentManager.agents` (0: none), `owner[c]` the holder of the connection's
`user_action_lockobj`, `handler[c]` how far the thread in
`handle_agent_connection` is, `up` the connections on which a request would be
answered, `upgrade` the writer's side of the upgrade lock with `UPGRADING`, and
`th[t]` a thread's program counter with the locals it keeps across steps.
`tableau` is what Tableau really is; the controller sees it only in answers.

A step is a stretch between two accesses to shared state. Merged are: an update
of the state with the unlock and the release of the read lock that follow it on
a return path, when nothing that can fail lies between; `register` and
`remove_agent`, which hold the manager's lock; the end of a crash and the next
start (connection numbers start again, so `MaxConn` bounds one run of the
controller); a command with its polls: it succeeds, or fails with or without
its effect on Tableau, or is lost and removes the agent. A misread answer
(`bad_status`) is unknown, or STOPPED for a gateway that is silent.

**MonitorPage** has no state: `AdminView(machines)` is what `get_admin_view`
answers for the main state, the connection and the given rows of the machines.
Its properties are looked at in every state of `TableauState`, for all rows
(`GreenIsHealthy`), or those that matter (`Glances`).

**StatusEvents** measures `first_degraded_time` and the run of DEGRADED statuses
in ages, capped at `DegradedMin`: nothing in the code tells longer times
apart. `serving` is the set of gateways whose server runs, `maint` the flag.
`told` and `heard` are history: which events went out, and what they said last.

**CliCommand.** `holder[c]` has `aconn.lock()`, `wire[c]` is the request or answer
on the socket, `dirs` and `proc` the agent's directories and processes,
`stuck` and `half` connections with an answer nobody has begun to read, or whose
body was read in part (`Unread`: httplib refuses to send on the first, and sends on
the second without ever handing out an answer), `members` the dictionary, `row[x]` the state in the table `xid`. `ended` is history: how an xid was reported.

**Agents.** `agents` is the dictionary, `conn[c]` the connection's thread,
`row[m]` the machine's row (its two times are one Boolean, `up`), `hosts` and
`yml` the configuration on the primary and the copy the controller has read.

**EmailAlerts.** `job[t]` is where thread t is between the event and its mail,
`agent` the two times of the agent's row, `sleepers` the threads of
`_dis_thread`: `WakeUp` reads the row, `SendDisconnect` mails later; `sent` the rows of the table `email_sent`; `allowed`, `told`,
`announced` and `posted` are history.

**Notices.** `Threads` are the scheduler's and one more that may do the same check: a
user's command, an agent's set-up, or the scheduler's own again (`sched` does not wait
for the answer of `cpu_load`). `active` is the column of a port that somebody switches
in the database; `overlap` is history: two checks have run side by side.

**Notices, Archives.** The kinds of alerts, and the three archive managers,
have the same course and share nothing: `kind` is chosen once, and the places
where their code differs are guarded by it.

**Extracts.** `job[j]` is Tableau's row, `entry[j]` the controller's copy,
`load` the command at work with the thresholds it read at its start. `Restore` takes
Tableau's jobs back to what they were at an earlier moment (`AsOf`), after which
numbers are given again, to jobs of any kind; `touched` is history: the numbers whose
job this changed, of which the manager cannot know that they mean another job.


## 3. What is checked

Some properties are conjunctions, whose parts stand beside them with comments of
their own: `Inv` (of `RWLock`), `LocksKeepApart`, `NoStateIsATrap`, `OffersAreRight`
(which also is an action property, `ButtonsStayAway`), `TruthIsFound`, `EverybodyEnds`, `AnswersAreOwn`, `LeavesNothing`, `LimitHolds`,
`LossIsFound`, `NothingIsLeft`, `NotesAreKept`, `NothingIsRepeated`, `DelayHolds`, `UsersAreTold`.

| Run | Instance | Distinct states | Shows |
|---|---|---|---|
| `RWLockThreads` | 4 threads, stray releases | 35 thousand | counters and wake-ups are right in the gap of `finish_release` (`Inv`), the lock does what its docstring says (`ImplementsAbstract`), writers get in (`WritersNotStarved`) |
| `TableauSafety` | 2 users, 8 kinds of action, all faults, 1 connection | 3.1 million | locks are given up and keep apart (`LocksKeepApart`), no main state is orphaned (`NoStateIsATrap`), nobody but the owner of the lock, another connection's thread or the agent's coming and going writes the state (`LockOwnerControlsState`) |
| `TableauReconnect` | 2 users, stop with and without a backup, 2 connections | 1.5 million | the agent comes back under an action: two locks, two owners; commands, checks, agents and upgrades use the upgrade lock as `AbstractRWLock` says (`ImplementsLock`); the page's buttons are those of the commands that may begin, and stay away while an action works on the primary, unless a thread on the replaced connection brings them back (`OffersAreRight`) |
| `TableauLive` | 1 user, 6 kinds, disconnections, outside changes | 135 thousand | the state comes to agree with Tableau and dead primaries go (`TruthIsFound`), actions and upgrades get to their end (`EverybodyEnds`), a green page hides nothing (`GreenIsHealthy`) |
| `CliCommand` | 2 threads and the ping thread, 1 xid, 2 connections | 113 thousand | answers are those of the command that waits, what is sent behind an unread or half-read answer is never taken for answered (`NothingIsReadBehind`), nothing is left on a connected agent, a process runs once and its success is not told early (`ImplementsCommand`), commands end, a dead connection is found |
| `EmailAlerts` | 2 threads, 3 events, limit 1, clock to 6 | 6.3 million | the limit holds with threads that count at once, turning alerts off is announced, the two mutes fit |
| `Notices` | 2 machines, scheduler and one more thread, 3 changes (of a level or of a port being active), 1 restart | 977 thousand | port checks do not overlap, and until two checks have, a row holds what was last told (`NotesAreKept`) and there is one alert per change (`AlertsAlternate`); what was notified converges to what is measured |
| `Agents` | 2 machines, 3 connections, 2 changes | 723 thousand | one connection per machine, late removals hide nothing, losses are found, types converge |
| `Archives` | 2 items, 2 publications, 2 failures, 1 crash, 1 change of the setting | 143 thousand | archives have their files; nothing stays that should be gone; each revision is archived once and only the oldest of an item goes (`ImplementsStore`); all is archived |
| `Extracts` | 3 jobs (2 from before), the duration watch, 1 restore, change or crash | 395 thousand | alerts are not repeated or downgraded, what overran or finished is reported, also after a restore |
| `StatusEvents` | 1 gateway, delay 2 | 20 thousand | DEGRADED is late but not hasty, sent once, taken back; the maintenance flag is right |
| `MaintGateways` | 2 gateways | violation | with two gateways the flag is wrong: see below |

### Bounds

* Four threads let a reader, a sleeping writer, a notified writer and a releaser
  meet in the gap of `finish_release`; the proof has no bound.
* Two users: every conflict between actions is between two of them (the lock has
  one owner, the monitor is a third thread). `deletefile` is not in `Kinds`: it
  has the steps of `cleanup`. One connection per controller run keeps the eight
  kinds within reach; a crash gives connections anew. What two connections
  change, two owners and a late `remove_agent`, `TableauReconnect` has with
  `stop`, which holds a state longest (a backup, its copy, the stop and the check).
  The exception of `OffersAreRight` occurs there: without it the run fails.
* `CliCommand` has one xid: liveness is about one command among pings and file
  requests. Two connections are what "lost, come back" takes; the agent has one
  socket at a time.
* `EmailAlerts`: the limit is reached by the second mail; six ticks cover a
  look-back, a mute and a second disconnection.
* `Agents`: three connections of which two can be of one machine while the third
  is of another, or all three of one.
* `Archives`: two publications per instance make one archive too many for a count
  of 1, and none for 2; eight files are more than four archives can own.
* `Extracts`: an overrun is two ages. A restore that takes away the newest job, known to
  the manager, while two that stay change afterwards, takes three jobs: then the prune
  empties the table and the load asks for one of the two only, which
  `FinishedIsReported` excepts (without the exception the run fails). Two of the jobs
  are from before the first load (`Backlog`), which keeps the clock short.
* `StatusEvents`: the delay is two ages, so that "no time", "some", "enough" differ.

`CHECK_DEADLOCK FALSE` is set where the system really may stop: `RWLockThreads`
(a stray release holds the monitor for ever), `CliCommand` and `Agents` (the
connections are used up), `EmailAlerts` (the clock ends).

### Fairness

A thread inside a handler runs on: weak fairness of its next step. In
`TableauState` this includes commands, because every request to an agent has a
time limit (`cli_cmd.py:298`), and the monitor's polls. Nobody is obliged to type
a command, to connect, or to end an upgrade. `EverybodyEnds` is about actions
that have their lock: a `restore_url` that waits for the user action lock may
lose it again and again. In `CliCommand` the socket lock is strongly fair (it is
given up again and again), and a time limit strikes at some turn of the polling
loop; nothing is assumed of the agent. In `Archives` and `Extracts` a command
once begun goes on, and the scheduler comes back every minute; the commands of
one manager share a lock that each tries, hence strong fairness. In `Agents`
the connection threads run, and the scheduled commands ask every agent.
In `Notices` the scheduler's checks come again and a check that has begun runs on.
`StatusEvents`: polls, commands, time. `EmailAlerts` states safety only.

### A disagreement a run shows

`MaintGateways`: `maint_started` is one flag for all gateways. A start that fails on
one of them (TLC's trace), and `config_servers`, which stops the server of the agent
that connects, both end in `update_maint_status` (`controller.py:937-969`), which
clears the flag although another gateway's server runs. `do_start` looks at the flag
to free the port (`clihandler.py:1793-1795`) and leaves that server up.

### Others, met while modelling

These are modelled as the code has them, and no property hides them.

* `rwlock.py:72`: an `upgrade off` without a writer raises with the monitor held,
  and the lock is held for ever by a thread that goes on. `WritersNotStarved`
  excepts it.
* `controller.py:535`: a restore looks for "RUNNING"; a DEGRADED Tableau is
  restored without being stopped.
* `tableau.py:203`: for Tableau before 8.2 the monitor leaves STARTING-RESTORE
  alone; a restore that loses its agent then stays there. The runs have 8.2.
* `clihandler.py:2743`: a support case goes on without the user action lock, and
  its release then raises, which ends the controller.
* `controller.py:601`: after a failed restore the state that is put back may be
  STARTED with a stopped Tableau: the next poll calls it STOPPED-UNEXPECTED.
* `controller.py:1142`: a failed ping removes the agent before the check that
  should ignore it during an upgrade.
* `agentmanager.py:95-100`: after a timeout in `res.read()` the lock is given up with
  the body read in part; httplib sends the next request behind it and then has no answer for it
  (`ResponseNotReady`). The connection is of no use until a request that removes
  agents, a command's or a ping, fails on it.
* `clihandler.py:1623`: `do_metric` has the read lock only, so two checks may send the
  same alert. So may the disk checks of an agent's set-up and of the scheduler.
* `extracts.py:147`: when a restore has emptied the table, the load asks for the
  newest extract job only; one that finished meanwhile is not reported.
* `tableau.py:977-980`: "If the user_action_lock is taken, that thread should control the
  state." The lock is one of each connection (`agentmanager.py:70-72`): a poll that
  fetched on a connection which is replaced meanwhile takes the old one's lock
  and writes over the state of an action that has the new one's. Likewise two actions may work
  at once. `LockOwnerControlsState` says what is left of the comment.
* `extracts.py:320-323`: "If the Tableau Server was restored, there may be events in the
  Controller database that no longer exist: remove them." What goes are rows above the
  `MAX(id)` of all background jobs (`extracts.py:308`); a row whose number Tableau
  has given to another job by then stays. An extract job of that number takes over its
  `notification_state` (`extracts.py:174`), so its overrun may never be reported:
  `OverrunIsReported` leaves out the numbers that a restore has touched.
* `cli_cmd.py:105-109`: a process that has ended when its start is answered is
  not polled: its exit status is not looked at, its directory stays.
* `agentmanager.py:1308`: a set-up that fails late marks the row of a machine
  whose newer connection is registered (`OldConnectionsDoNotHideNew` excepts
  exactly this).
* `agentmanager.py:889`: `agent_by_agentid` falls out of its loop with the last
  agent: a port check may ask, and remove, another machine's agent.
* `metrics.py:207`: the notified colour of a process is joined on its name only,
  and its minimum is taken of words: one machine may hide another's alert.
* `workbooks.py:263-278`: the item, which moves the cursor, is committed before
  its revision; an end of the controller in between loses the revision.

## 4. What is proved

TLAPS checks every proof for all values of the constants that the named
assumptions allow. TLC has looked at the properties first, and at the inductive
invariants of `Archives`, `Extracts` and `Notices` on their instances and larger ones.

| Module | Theorems | States the property |
|---|---|---|
| `RWLockProofs` | `Invariance`, `WriterIsAlone`, `Refinement` | `Inv`, mutual exclusion, `ImplementsAbstract` |
| `TableauStateProofs` | `LocksKeepThemApart`, `NoTrap`, `TheOwnerControls`, `LockIsUsedAsPromised`, `GreenMeansHealthy`, `OffersFollowTheWork` | `LocksKeepApart`, `NoStateIsATrap`, `LockOwnerControlsState`, `ImplementsLock`, `GreenIsHealthy`, `OffersAreRight` |
| `CliCommandProofs` | `EveryAnswerIsOwn`, `CommandsLeaveNothing`, `NobodyReadsBehind`, `CommandIsImplemented` | `AnswersAreOwn`, `LeavesNothing`, `NothingIsReadBehind`, `ImplementsCommand` |
| `EmailAlertsProofs` | `OffIsAlwaysAnnounced`, `TheLimitHolds`, `DisconnectMailsAreTrue`, `MutesFitTogether` | `OffIsAnnounced`, `LimitHolds`, `DisconnectMailIsTrue`, `MutedReturnWasNotTold` |
| `AgentsProofs` | `OneConnection`, `OldDoesNotHideNew`, `TypeCorrect` | `OneConnectionPerMachine`, `OldConnectionsDoNotHideNew`, types |
| `ArchivesProofs` | `ArchivesHaveFiles`, `StoreIsKept`, `NothingStays`, `TypesCorrect` | `ArchivedHasFiles`, `ImplementsStore`, `NothingIsLeft`, types |
| `ExtractsProofs` | `NothingTwice`, `ErrorsSilenceWarnings` | `NothingIsRepeated`, `NoWarningAfterError` |
| `StatusEventsProofs` | `FlagIsTrue`, `LateEventIsSentOnce`, `LateEventIsNotHasty` | `MaintIsKnown`, `DelayHolds`, `NoHastyDegraded` |
| the same, of `Notices` | `WhatWasToldIsNoted`, `AlertsRepeatAfterOverlapOnly` | `NotesAreKept`, `AlertsAlternate` |

**RWLockProofs** (any finite set of threads, with or without stray releases:
`RWLockAssumption`). `Inv` is inductive: `CounterIsHolders` and `WaitingIsCounted` are needed
for `NoLostWakeup`, since `finish_release` decides by the counters whom to wake,
and `TypeOK` for the arithmetic. Each action moves one thread between two places; lemmas
say what this does to the sets of holders and waiters and to their sizes. From
`Inv` follow mutual exclusion and the refinement: initial states map to initial
states, each action to a step or a stutter of `AbstractRWLock`.

**TableauStateProofs** (any users, connections, kinds of action and faults;
`PaletteAssumption` keeps the names of threads apart). Neither `NoLeakedLock` nor
`NoOrphanedAction` is inductive: that an action gives its lock up needs that it
had it (`HasLock`), that it is at a place of its kind with a saved state it can
put back (`ThreadsOK`), and that a state of an action has a thread that has
marked it and has not written it since (`Settled`, sharper than the property,
which also counts a thread that is still to mark). Every step of a user's action
is then summarised once: how it moves (`Moves`), what it does to the two
locks (`Locks`), what it may write (`Writes`), what it leaves alone (`Leaves`);
the monitor's steps likewise; and each conjunct is shown to survive any such step.
`LockOwnerControlsState` comes from the same summaries. `ImplementsLock` maps the
threads in a command and the connections in set-up to readers; it needs
`ReaderAssumption`, that threads and connections have different names. An end of the
controller is the only step that is not one of `AbstractRWLock`. `GreenIsHealthy` goes
through the cases of `get_admin_view`. `OffersAreRight` is proved for
any number of connections. Its first part compares `state_control.json` with the state
tests of `clihandler.py` row by row (`TablesAgree`). For the second, an action at
work under its mark has the lock of its connection, the primary's (`HasLock`, `Kept`):
the steps of other threads are those of the monitor and of actions that do not have that
lock, and so write no state with buttons or are on another connection
(`StepsElsewhere`, the exception); `register` and `remove_agent` write only states
without buttons.

**CliCommandProofs** (any threads, xids and connections). `Wires` says of each
connection that what is on its wire belongs to the thread that holds its lock
and is true of the agent's process; `Knowledge`, that what a thread has read is
still true. They rest on an xid having one thread (`OneUse`) and on connections
not being opened again (`Generations`), so that an answer read late is about a
connection that is gone. `EndedIsCleaned` and `FailureIsReported` carry this
to the end of the command. For the refinement of `AgentCommand`, `Started` adds that
a start on its way is the first of its xid, and that an answer that says the process
has ended is true; then an arriving start is `Start`, the end of the process
`End`, the return of `cli_cmd` `Report`, and every other step, a lost connection or
a kill among them, a stutter or `End`.

**EmailAlertsProofs** (any threads, limits and times). `Announcing`: a
thread between the settings and EMAIL-SPIKE has found the administrators on, or
another thread had turned them off before. `Limited`: a recent mail that went
out, and a recent one still to be counted, has its row in `email_sent`, so
that the thread that mails has seen, in the size of the table, all those that went out;
the transactions of other threads between its own (log, prune, count) take away
only what is old. `Ordered`: a sleeper wakes up a whole mute period after what
it has seen, and one that has looked at the row mails what was true when it did.

**AgentsProofs** (any machines, installations and bounds). `IInv` adds to
`TypeOK` and `OneConnectionPerMachine` the fact `Served`, that a connection in the
dictionary has been accepted, so that accepting another one does not give its
number to a different machine. `register` removes what is older under one lock, so
the new connection is alone. `OldConnectionsDoNotHideNew` follows: whoever removes a
connection that is in the dictionary removes the only one of its machine.

**ArchivesProofs** (any items, files, counts, failures and crashes; the
retention count is a positive number or -1, `KeepAssumption`, the values the
settings page offers). That an archived row's files are in the files table needs
that no file has two rows, that a file about to be removed belongs to no row, and
that a file just placed is in the table and in no row but the one at work: the
conjuncts `Tables`, `Loading`, `Placing` and `Dropping`, one for each stage of a
command. It holds at every crash point since each conjunct speaks of the state
between two commits. For retention, `Awaiting` says that what is imported or
fetched is not archived yet, and `Retained` that every row that is to be dropped
has as many newer archives as are kept: a drop keeps this true of the others
because the newest of the newer ones are not to be dropped. `OldestFirst` says the
rest of what `ArchiveStore` promises: what is to be dropped are the oldest archives of its
item, and as many as the count stay. For
`NothingIsLeft` every step is shown to add nothing to the files without an
owner, or at most two and a failure or a crash (`LooseIsBounded`); and `Trimmed`
counts: after a command that nothing interfered with, an archive that is not to
be dropped has fewer newer ones than the count, so there are at most that
many. The oldest row of a set, which this last step takes, comes from well-founded
induction on the revision numbers.

**ExtractsProofs** (any jobs, thresholds, restores, changes and crashes). The
manager keeps no note of what it has reported, and the invariant, `Good(j)` for every
number that no restore has touched, says what serves instead: a finished copy is final
(`Copied`, `Placed`) and jobs a load has still to take are unfinished in the table
(`Taking`), so a finished row is never taken again. What a restore touches leaves the
statement, and what it does not touch it leaves as it was; `Exists` keeps a number
that is not touched from being given twice. `Reported` and `Sent` count the
events against that.

**StatusEventsProofs**. The flag is never FALSE while the server runs if the
primary is the only gateway; without this assumption the run `MaintGateways` refutes it.
`Held`: `first_degraded_time` is never older than the run of DEGRADED statuses, and a
late event that went out is remembered by `sent_degraded_event` as long as it
lasts; from it follow both properties of the delay, for any gateways.

**Notices**, in the same module, which extends both (any machines, changes and
restarts; hence `NoticesSpec` and its like in `Notices`). "The row holds
what was last told" is not true between an event and its row, nor after two checks
have overlapped: of two threads that measure, tell and write, each may tell what the
other has told. `NotesAreKept` is inductive: until checks have overlapped one thread is at work
(`ChecksApart`; for ports `check_ports_lock` keeps it so for ever), and between event
and row the last event has the colour that is being written (`ToldIsNoted`). An event
then differs from the row, which is the last one told. A restart between an event and
its row forgets the event, which is then sent again; a port that is found switched off
loses its colour without an event.

Only model-checked:

* liveness, everywhere: `WritersNotStarved`, `TruthIsFound`, `EverybodyEnds`,
  `CommandsEnd`, `DeadAgentIsRemoved`, `NotifiedConverges`, `LossIsFound`,
  `TypesConverge`, `PublishedIsArchived`, `FinishedIsReported`,
  `OverrunIsReported`, `UsersAreTold`. TLAPS has no rules for fairness here, and none for ENABLED.

## 5. Not modelled

* The object-relational mapper: rows that are detached, or expired by hand. An
  exception after `remove_agent` made a row transient counts as a failed command.
* In `MonitorPage`: rows of a page that are read at different moments. The browser asks
  every second and keeps nothing.
* Failures of the database: every exception there ends the controller, as a crash does.
* In `UserActions`: the telnet commands that list, test or change settings of
  their own tables; `repair-license`, `activate`, `sched`. Tableau before 8.2 is a
  constant (`Pre82`) that no run sets: its restore has the trap named above.
* In `Extracts`: the delay watch, whose code is that of the duration watch. How late a row
  is whose job has changed since is a free choice (`Lateness`): the clock goes on, the row does not.
* In `CliCommand`: an agent that answers in HTTP/1.0 and closes the connection amid an
  answer, whose rest httplib reads as the answer, without headers, to a request sent behind it.
* In `EmailAlerts`: publishers' mail, templates and delivery. In `Notices`: the
  SQL that averages samples, and memory, whose code is that of CPU load.
* Rotation of backups, ziplogs and log files, and the choice of a volume: loops
  over rows within one command.
* `sched.py`: its jobs are commands that may come at any time, again after a
  restart; `croniter` is date arithmetic.
* Copies from Tableau's database (`sites.py`, `projects.py`, `data_connections.py`,
  `http_control.py`), authentication, `cloud.py`, `firewall*.py`, `odbc.py`, packaging,
  the licence server: one request or one loop over rows, without state between calls.
* The other pages of the web application, and akiri.framework below it.
* The agents on Windows, which are not in this repository; `src/agent` is modelled
  in `CliCommand` as far as the protocol needs it.

## 6. Plan

Next come the refinement of a single abstract alert by the watches of `Extracts` and
the kinds of `Notices`; then file rotation and the scheduler's table as modules of
their own, and the delay watch as a second value of `Watches` in the instance of
`Extracts`.
