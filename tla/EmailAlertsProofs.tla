-------------------------- MODULE EmailAlertsProofs --------------------------
(***************************************************************************)
(* The e-mail alerts, for every number of threads and every setting.       *)
(*                                                                         *)
(* Turning off.  OffIsAnnounced is not inductive: a thread that turns the  *)
(* alerts off has looked at the settings before, and has found the         *)
(* administrators on unless another thread had been through this already.  *)
(*                                                                         *)
(* The limit.  The mails that go out are rows of email_sent while they are *)
(* recent, whatever other threads log, prune or count in between, and a    *)
(* thread that mails has just seen that the table has few rows.            *)
(*                                                                         *)
(* Muting.  A sleeper wakes up a whole Mute after the disconnection it has *)
(* seen.                                                                   *)
(***************************************************************************)
EXTENDS EmailAlerts, FiniteSetTheorems, TLAPS

-----------------------------------------------------------------------------
(***************************************************************************)
(* Types.  A row's number is one more than the size of a table, which has  *)
(* to be finite.                                                           *)
(***************************************************************************)
Typed == TypeOK /\ IsFiniteSet(sent)

LEMMA Values == NoRow \in Rows /\ Idle \in Jobs /\ Idle.pc = "idle" /\ Idle.row = NoRow
<1>1. NoRow \in Rows
    BY BoundAssumption DEF NoRow, Rows, Times
<1> QED
    BY <1>1 DEF Idle, Jobs, Places, Keys

LEMMA NewRowIsRow == Typed => NewRow \in Rows
<1> SUFFICES ASSUME Typed PROVE NewRow \in Rows
    OBVIOUS
<1> DEFINE same == {row \in sent : row.at = now}
<1>1. IsFiniteSet(same)
    BY FS_Subset DEF Typed
<1>2. Cardinality(same) + 1 \in Nat
    BY <1>1, FS_CardinalityType
<1> QED
    BY <1>2 DEF NewRow, Rows, Typed, TypeOK

\* What a step does to the job of the thread that takes it.
LEMMA Moves ==
    ASSUME job \in [Threads -> Jobs], NEW t \in Threads, NEW p \in Places, NEW r \in Rows,
           job' = [job EXCEPT ![t].pc = p, ![t].row = r]
    PROVE  /\ job' \in [Threads -> Jobs]
           /\ job'[t].pc = p /\ job'[t].row = r
           /\ \A u \in Threads \ {t} : job'[u] = job[u]
BY DEF Jobs

LEMMA Goes ==
    ASSUME job \in [Threads -> Jobs], NEW t \in Threads, NEW p \in Places, Goto(t, p)
    PROVE  /\ job' \in [Threads -> Jobs]
           /\ job'[t].pc = p /\ job'[t].row = job[t].row
           /\ \A u \in Threads \ {t} : job'[u] = job[u]
BY DEF Jobs, Goto

LEMMA Finishes ==
    ASSUME job \in [Threads -> Jobs], NEW t \in Threads, Finish(t)
    PROVE  /\ job' \in [Threads -> Jobs]
           /\ job'[t].pc = "idle" /\ job'[t].row = NoRow
           /\ \A u \in Threads \ {t} : job'[u] = job[u]
BY Values DEF Finish

LEMMA Begins ==
    ASSUME job \in [Threads -> Jobs], NEW t \in Threads, NEW key \in Keys, Gen(t, key)
    PROVE  /\ job' \in [Threads -> Jobs]
           /\ job'[t].pc = "recipients" /\ job'[t].row = NoRow
           /\ \A u \in Threads \ {t} : job'[u] = job[u]
BY Values DEF Gen, Jobs, Places

\* TurnOn deletes the rows of the jobs.
LEMMA Emptied ==
    ASSUME job \in [Threads -> Jobs],
           job' = [t \in Threads |-> [job[t] EXCEPT !.row = NoRow]]
    PROVE  /\ job' \in [Threads -> Jobs]
           /\ \A t \in Threads : job'[t].pc = job[t].pc /\ job'[t].row = NoRow
BY Values DEF Jobs

\* A new event: the thread's job, the counter of events, and the row of the agent.
LEMMA EventBegins ==
    ASSUME TypeOK, NEW t \in Threads, Event(t)
    PROVE  /\ \E key \in Keys : Gen(t, key)
           /\ agent' \in [conn : Times, disc : Times, phase : Phases]
           /\ agent'.disc \in {agent.disc, now}
           /\ UNCHANGED <<now, settings, log, sleepers, told, short>>
<1> USE DEF TypeOK, Keys, Phases
<1>1. CASE Alarm(t)
    BY <1>1 DEF Alarm
<1>2. CASE Disconnect(t)
    BY <1>2 DEF Disconnect
<1>3. CASE SetupEnds(t)
    BY <1>3 DEF SetupEnds
<1>4. CASE Remind(t)
    BY <1>4 DEF Remind
<1> QED
    BY <1>1, <1>2, <1>3, <1>4 DEF Event

LEMMA InitTyped == Init => Typed
<1> SUFFICES ASSUME Init PROVE Typed
    OBVIOUS
<1>1. now \in Times /\ agent \in [conn : Times, disc : Times, phase : Phases]
    BY BoundAssumption DEF Init, Times, Phases
<1>2. job \in [Threads -> Jobs]
    BY Values DEF Init
<1>3. IsFiniteSet(sent)
    BY FS_EmptySet DEF Init
<1>4. events \in 0 .. MaxEvents
    BY BoundAssumption DEF Init
<1>5. admins \in BOOLEAN /\ spiked \in BOOLEAN /\ posted \in BOOLEAN /\ announced \in BOOLEAN
    BY Zenon DEF Init
<1> QED
    BY <1>1, <1>2, <1>3, <1>4, <1>5 DEF Init, Typed, TypeOK

LEMMA DeliverTyped ==
    ASSUME Typed, NEW t \in Threads, Deliver(t)
    PROVE  Typed'
<1> USE DEF Typed, TypeOK, settings, log
<1>0. \A p \in {"log", "mail", "count", "spike", "disable", "prune"} : p \in Places
    BY DEF Places
<1>1. CASE Send(t)
    <2>1. Finish(t) \/ Goto(t, "log") \/ Goto(t, "mail")
        BY <1>1 DEF Send
    <2>2. job' \in [Threads -> Jobs]
        BY <1>0, <2>1, Goes, Finishes
    <2> QED
        BY <1>1, <2>2 DEF Send
<1>2. CASE Log(t)
    <2>1. job' \in [Threads -> Jobs]
        BY <1>0, <1>2, Moves, NewRowIsRow DEF Log
    <2>2. IsFiniteSet(sent')
        BY <1>2, FS_AddElement DEF Log
    <2> QED
        BY <1>2, <2>1, <2>2, NewRowIsRow DEF Log
<1>3. CASE Prune(t)
    <2>1. job' \in [Threads -> Jobs]
        BY <1>0, <1>3, Goes DEF Prune
    <2>2. sent' \subseteq sent /\ allowed' \subseteq allowed
        BY <1>3 DEF Prune, Recent
    <2>3. IsFiniteSet(sent')
        BY <2>2, FS_Subset
    <2> QED
        BY <1>3, <2>1, <2>2, <2>3 DEF Prune
<1>4. CASE Count(t)
    <2>1. PICK p \in {"spike", "mail"} : job' = [job EXCEPT ![t].pc = p, ![t].row = NoRow]
        BY <1>4 DEF Count
    <2>2. job' \in [Threads -> Jobs]
        BY <1>0, <2>1, Moves, Values
    <2>3. job[t].row \in Rows
        BY DEF Jobs
    <2>4. allowed' \subseteq allowed \union {job[t].row}
        BY <1>4 DEF Count
    <2> QED
        BY <1>4, <2>2, <2>3, <2>4 DEF Count
<1>5. CASE Spike(t)
    <2>1. job' \in [Threads -> Jobs]
        BY <1>0, <1>5, Goes DEF Spike
    <2> QED
        BY <1>5, <2>1 DEF Spike
<1>6. CASE Disable(t)
    <2>1. job' \in [Threads -> Jobs]
        BY <1>6, Finishes DEF Disable
    <2> QED
        BY <1>6, <2>1 DEF Disable
<1>7. CASE Mail(t)
    <2>1. job' \in [Threads -> Jobs]
        BY <1>7, Finishes DEF Mail
    <2>2. Awake \in [seen : Times, until : 0 .. MaxTime + Mute, sure : BOOLEAN]
        BY BoundAssumption, LimitAssumption DEF Awake, Times
    <2> QED
        BY <1>7, <2>1, <2>2 DEF Mail
<1> QED
    BY <1>1, <1>2, <1>3, <1>4, <1>5, <1>6, <1>7 DEF Deliver

LEMMA NextTyped == Typed /\ [Next]_vars => Typed'
<1> SUFFICES ASSUME Typed, [Next]_vars PROVE Typed'
    OBVIOUS
<1> USE DEF Typed, TypeOK, settings, log
<1>1. ASSUME NEW t \in Threads, Event(t) PROVE Typed'
    <2>1. PICK key \in Keys : Gen(t, key)
        BY <1>1, EventBegins
    <2>2. events' \in 0 .. MaxEvents
        BY <2>1, BoundAssumption DEF Gen
    <2> QED
        BY <1>1, <2>1, <2>2, EventBegins, Begins
<1>2. ASSUME NEW t \in Threads, Deliver(t) PROVE Typed'
    BY <1>2, DeliverTyped
<1>3. CASE FallAsleep
    <2>1. [seen |-> agent.disc, until |-> now + Mute, sure |-> FALSE]
              \in [seen : Times, until : 0 .. MaxTime + Mute, sure : BOOLEAN]
        BY BoundAssumption, LimitAssumption DEF Times
    <2> QED
        BY <1>3, <2>1 DEF FallAsleep
<1>4. ASSUME NEW s \in sleepers, WakeUp(s) \/ SendDisconnect(s) PROVE Typed'
    <2>1. /\ s.seen \in Times
          /\ [s EXCEPT !.sure = TRUE] \in [seen : Times, until : 0 .. MaxTime + Mute, sure : BOOLEAN]
        OBVIOUS
    <2> QED
        BY <1>4, <2>1 DEF WakeUp, SendDisconnect
<1>5. CASE Reconnect \/ SetupFails
    BY <1>5 DEF Reconnect, SetupFails, Phases
<1>6. CASE TurnOn
    <2>1. job' \in [Threads -> Jobs]
        BY <1>6, Emptied DEF TurnOn
    <2> QED
        BY <1>6, <2>1, FS_EmptySet DEF TurnOn
<1>7. CASE TurnOff \/ UNCHANGED vars
    BY <1>7 DEF TurnOff, vars
<1>8. CASE Tick
    BY <1>8, BoundAssumption DEF Tick, Times
<1> QED
    BY <1>1, <1>2, <1>3, <1>4, <1>5, <1>6, <1>7, <1>8 DEF Next

-----------------------------------------------------------------------------
(***************************************************************************)
(* Turning off.                                                            *)
(***************************************************************************)
\* The thread is past the settings with an error mail.
PastSettings(t) == job[t].pc \in {"log", "prune", "count", "spike", "disable"}

Announcing ==
    ~posted =>
        /\ \A t \in Threads : PastSettings(t) => admins \/ spiked
        /\ \A t \in Threads : job[t].pc = "disable" => announced
        /\ OffIsAnnounced

LEMMA InitAnnouncing == Init => Announcing
BY Values DEF Init, Announcing, PastSettings, OffIsAnnounced

\* The steps that mail an event.
LEMMA DeliverKeepsAnnouncing ==
    ASSUME Typed, Announcing, NEW t \in Threads, Deliver(t)
    PROVE  Announcing'
<1> USE DEF Announcing, PastSettings, OffIsAnnounced, settings
<1>0. /\ job \in [Threads -> Jobs]
      /\ \A p \in {"log", "mail", "count", "spike", "disable", "prune"} : p \in Places
    BY DEF Typed, TypeOK, Places
<1>1. CASE Send(t)
    <2>1. \/ Finish(t)
          \/ Goto(t, "mail")
          \/ Goto(t, "log") /\ admins
        BY <1>1 DEF Send, HasRecipients, IsError
    <2>2. CASE Finish(t)
        BY <1>0, <1>1, <2>2, Finishes DEF Send
    <2>3. CASE Goto(t, "mail")
        BY <1>0, <1>1, <2>3, Goes DEF Send
    <2>4. CASE Goto(t, "log") /\ admins
        BY <1>0, <1>1, <2>4, Goes DEF Send
    <2> QED
        BY <2>1, <2>2, <2>3, <2>4
<1>2. CASE Log(t)
    <2>1. /\ job'[t].pc = "prune"
          /\ \A u \in Threads \ {t} : job'[u] = job[u]
        BY <1>0, <1>2, Moves, NewRowIsRow DEF Log
    <2> QED
        BY <1>2, <2>1 DEF Log
<1>3. CASE Prune(t)
    <2>1. /\ job'[t].pc = "count"
          /\ \A u \in Threads \ {t} : job'[u] = job[u]
        BY <1>0, <1>3, Goes DEF Prune
    <2> QED
        BY <1>3, <2>1 DEF Prune
<1>4. CASE Count(t)
    <2>1. PICK p \in {"spike", "mail"} : job' = [job EXCEPT ![t].pc = p, ![t].row = NoRow]
        BY <1>4 DEF Count
    <2>2. /\ job'[t].pc = p
          /\ \A u \in Threads \ {t} : job'[u] = job[u]
        BY <1>0, <2>1, Moves, Values
    <2> QED
        BY <1>4, <2>2 DEF Count
<1>5. CASE Spike(t)
    <2>1. /\ job'[t].pc = "disable"
          /\ \A u \in Threads \ {t} : job'[u] = job[u]
        BY <1>0, <1>5, Goes DEF Spike
    <2> QED
        BY <1>5, <2>1 DEF Spike
<1>6. CASE Disable(t)
    <2>1. /\ job'[t].pc = "idle"
          /\ \A u \in Threads \ {t} : job'[u] = job[u]
        BY <1>0, <1>6, Finishes DEF Disable
    <2> QED
        BY <1>6, <2>1 DEF Disable
<1>7. CASE Mail(t)
    <2>1. /\ job'[t].pc = "idle"
          /\ \A u \in Threads \ {t} : job'[u] = job[u]
        BY <1>0, <1>7, Finishes DEF Mail
    <2> QED
        BY <1>7, <2>1 DEF Mail
<1> QED
    BY <1>1, <1>2, <1>3, <1>4, <1>5, <1>6, <1>7 DEF Deliver

LEMMA NextAnnouncing == Typed /\ Announcing /\ [Next]_vars => Announcing'
<1> SUFFICES ASSUME Typed, Announcing, [Next]_vars PROVE Announcing'
    OBVIOUS
<1>1. ASSUME NEW t \in Threads, Event(t) PROVE Announcing'
    <2>1. /\ job'[t].pc = "recipients"
          /\ \A u \in Threads \ {t} : job'[u] = job[u]
        BY <1>1, EventBegins, Begins DEF Typed, TypeOK
    <2>2. UNCHANGED settings
        BY <1>1, EventBegins DEF Typed
    <2> QED
        BY <2>1, <2>2 DEF Announcing, PastSettings, OffIsAnnounced, settings
<1>2. ASSUME NEW t \in Threads, Deliver(t) PROVE Announcing'
    BY <1>2, DeliverKeepsAnnouncing
<1>3. CASE TurnOn \/ TurnOff
    BY <1>3 DEF TurnOn, TurnOff, Announcing
<1>4. CASE UNCHANGED <<job, settings>>
    BY <1>4 DEF Announcing, PastSettings, OffIsAnnounced, settings
<1>5. CASE \/ FallAsleep \/ (\E s \in sleepers : WakeUp(s) \/ SendDisconnect(s)) \/ Reconnect \/ SetupFails \/ Tick
           \/ UNCHANGED vars
    BY <1>4, <1>5 DEF FallAsleep, WakeUp, SendDisconnect, Reconnect, SetupFails, Tick, vars
<1> QED
    BY <1>1, <1>2, <1>3, <1>5 DEF Next

\* Whichever of several threads reaches the limit first, administrators who have not touched the
\* settings page have been told that their alerts are off (email_limit.py:97-103).
THEOREM OffIsAlwaysAnnounced == Spec => []OffIsAnnounced
<1>1. Announcing => OffIsAnnounced
    BY DEF Announcing, OffIsAnnounced
<1> QED
    BY InitTyped, NextTyped, InitAnnouncing, NextAnnouncing, <1>1, PTL DEF Spec

-----------------------------------------------------------------------------
(***************************************************************************)
(* The limit.  A recent mail that went out, and a recent mail that is      *)
(* still to be counted, has its row in the table.                          *)
(***************************************************************************)
Pending(t) == IF job[t].pc \in {"prune", "count"} THEN {job[t].row} \ {NoRow} ELSE {}

Limited ==
    /\ Recent(allowed) \subseteq sent
    /\ \A t \in Threads : Recent(Pending(t)) \subseteq sent
    /\ ErrorMailsAreLimited

LEMMA InitLimited == Init => Limited
<1> SUFFICES ASSUME Init PROVE Limited
    OBVIOUS
<1>1. Recent(allowed) = {} /\ \A t \in Threads : Recent(Pending(t)) = {}
    BY Values DEF Init, Recent, Pending
<1>2. Cardinality({}) <= MaxCount
    BY FS_EmptySet, LimitAssumption
<1> QED
    BY <1>1, <1>2 DEF Limited, ErrorMailsAreLimited

\* A row that is not recent never becomes recent again.
LEMMA TimePasses ==
    ASSUME Typed, NEW S \in SUBSET Rows, Tick
    PROVE  Recent(S)' \subseteq Recent(S)
<1> SUFFICES ASSUME NEW r \in S, r.at + Lookback >= now + 1 PROVE r.at + Lookback >= now
    BY DEF Recent, Tick
<1>1. r.at \in Nat /\ now \in Nat /\ Lookback \in Nat
    BY LimitAssumption, BoundAssumption DEF Rows, Times, Typed, TypeOK
<1> QED
    BY <1>1

\* The rows that count become fewer, and nothing leaves the table before it has become old.
LEMMA LimitStays ==
    ASSUME Typed, Limited, ErrorMailsAreLimited',
           Recent(allowed)' \subseteq Recent(allowed),
           \A t \in Threads : Recent(Pending(t))' \subseteq Recent(Pending(t)),
           sent \subseteq sent'
    PROVE  Limited'
BY DEF Limited

\* As many or fewer recent mails as before.
LEMMA FewerMails ==
    ASSUME Typed, Limited, Recent(allowed)' \subseteq Recent(allowed)
    PROVE  ErrorMailsAreLimited'
<1>1. IsFiniteSet(Recent(allowed))
    BY FS_Subset DEF Typed, Limited
<1>2. /\ Cardinality(Recent(allowed)') <= Cardinality(Recent(allowed))
      /\ IsFiniteSet(Recent(allowed)')
    BY <1>1, FS_Subset
<1>3. Cardinality(Recent(allowed)) \in Nat /\ Cardinality(Recent(allowed)') \in Nat
    BY <1>1, <1>2, FS_CardinalityType
<1>4. Cardinality(Recent(allowed)) <= MaxCount
    BY DEF Limited, ErrorMailsAreLimited
<1>5. Cardinality(Recent(allowed)') <= MaxCount
    BY <1>2, <1>3, <1>4, LimitAssumption
<1> QED
    BY <1>5 DEF ErrorMailsAreLimited

\* Steps by which no job comes to have a row, and the two tables stay.
LEMMA QuietKeepsLimited ==
    ASSUME Typed, Limited, UNCHANGED <<now, log>>,
           \A t \in Threads : Pending(t)' \subseteq Pending(t)
    PROVE  Limited'
<1>1. Recent(allowed)' \subseteq Recent(allowed) /\ sent \subseteq sent'
    BY DEF Recent, log
<1>2. \A t \in Threads : Recent(Pending(t))' \subseteq Recent(Pending(t))
    BY DEF Recent
<1> QED
    BY <1>1, <1>2, FewerMails, LimitStays

LEMMA DeliverKeepsLimited ==
    ASSUME Typed, Limited, NEW t \in Threads, Deliver(t)
    PROVE  Limited'
<1>0. /\ job \in [Threads -> Jobs]
      /\ \A p \in {"log", "mail", "count", "spike", "disable", "prune"} : p \in Places
    BY DEF Typed, TypeOK, Places
<1>1. CASE Send(t)
    <2>1. Finish(t) \/ Goto(t, "mail") \/ Goto(t, "log")
        BY <1>1 DEF Send
    <2>2. /\ job'[t].pc \in {"idle", "mail", "log"}
          /\ \A u \in Threads \ {t} : job'[u] = job[u]
        BY <1>0, <2>1, Finishes, Goes
    <2>3. \A u \in Threads : Pending(u)' \subseteq Pending(u)
        BY <2>2 DEF Pending
    <2> QED
        BY <1>1, <2>3, QuietKeepsLimited DEF Send
<1>2. CASE Log(t)
    <2>1. /\ job'[t].row = NewRow
          /\ \A u \in Threads \ {t} : job'[u] = job[u]
        BY <1>0, <1>2, Moves, NewRowIsRow DEF Log
    <2>2. Recent(allowed)' = Recent(allowed) /\ sent' = sent \union {NewRow} /\ now' = now
        BY <1>2 DEF Log, Recent
    <2>3. \A u \in Threads : Recent(Pending(u))' \subseteq sent'
        BY <2>1, <2>2 DEF Limited, Recent, Pending
    <2> QED
        BY <2>2, <2>3, FewerMails DEF Limited
<1>3. CASE Prune(t)
    <2>1. /\ job'[t].pc = "count" /\ job'[t].row = job[t].row
          /\ \A u \in Threads \ {t} : job'[u] = job[u]
        BY <1>0, <1>3, Goes DEF Prune
    <2>2. \A u \in Threads : Pending(u)' = Pending(u)
        BY <1>3, <2>1 DEF Pending, Prune
    <2>3. now' = now /\ sent' = Recent(sent) /\ allowed' = Recent(allowed)
        BY <1>3 DEF Prune
    <2>4. Recent(allowed)' = Recent(allowed)
        BY <2>3 DEF Recent
    <2>5. Recent(allowed)' \subseteq sent'
        BY <2>3, <2>4 DEF Recent, Limited
    <2>6. \A u \in Threads : Recent(Pending(u))' \subseteq sent'
        BY <2>2, <2>3 DEF Recent, Limited
    <2> QED
        BY <2>4, <2>5, <2>6, FewerMails DEF Limited
<1>4. CASE Count(t)
    <2>1. PICK p \in {"spike", "mail"} : job' = [job EXCEPT ![t].pc = p, ![t].row = NoRow]
        BY <1>4 DEF Count
    <2>2. /\ job'[t].pc = p
          /\ \A u \in Threads \ {t} : job'[u] = job[u]
        BY <1>0, <2>1, Moves, Values
    <2>3. \A u \in Threads : Pending(u)' \subseteq Pending(u)
        BY <2>2 DEF Pending
    <2>4. CASE LimitReached
        BY <1>4, <2>3, <2>4, QuietKeepsLimited DEF Count, log
    <2>5. CASE ~LimitReached
        <3>1. now' = now /\ sent' = sent /\ allowed' = allowed \union Pending(t)
            BY <1>4, <2>5 DEF Count, Pending
        <3>2. Recent(allowed)' \subseteq sent
            BY <3>1 DEF Recent, Limited
        <3>3. Cardinality(Recent(allowed)') <= Cardinality(sent) /\ IsFiniteSet(Recent(allowed)')
            BY <3>2, FS_Subset DEF Typed
        <3>4. Cardinality(Recent(allowed)') \in Nat /\ Cardinality(sent) \in Nat
            BY <3>3, FS_CardinalityType DEF Typed
        <3>5. Cardinality(Recent(allowed)') <= MaxCount
            BY <2>5, <3>3, <3>4, LimitAssumption DEF LimitReached
        <3>6. \A u \in Threads : Recent(Pending(u))' \subseteq Recent(Pending(u))
            BY <2>3, <3>1 DEF Recent
        <3> QED
            BY <3>1, <3>2, <3>5, <3>6 DEF Limited, ErrorMailsAreLimited
    <2> QED
        BY <2>4, <2>5
<1>5. CASE Spike(t)
    <2>1. /\ job'[t].pc = "disable"
          /\ \A u \in Threads \ {t} : job'[u] = job[u]
        BY <1>0, <1>5, Goes DEF Spike
    <2>2. \A u \in Threads : Pending(u)' \subseteq Pending(u)
        BY <2>1 DEF Pending
    <2> QED
        BY <1>5, <2>2, QuietKeepsLimited DEF Spike
<1>6. CASE Disable(t) \/ Mail(t)
    <2>1. /\ job'[t].pc = "idle"
          /\ \A u \in Threads \ {t} : job'[u] = job[u]
        BY <1>0, <1>6, Finishes DEF Disable, Mail
    <2>2. \A u \in Threads : Pending(u)' \subseteq Pending(u)
        BY <2>1 DEF Pending
    <2> QED
        BY <1>6, <2>2, QuietKeepsLimited DEF Disable, Mail
<1> QED
    BY <1>1, <1>2, <1>3, <1>4, <1>5, <1>6 DEF Deliver

LEMMA NextLimited == Typed /\ Limited /\ [Next]_vars => Limited'
<1> SUFFICES ASSUME Typed, Limited, [Next]_vars PROVE Limited'
    OBVIOUS
<1>1. ASSUME NEW t \in Threads, Event(t) PROVE Limited'
    <2>1. /\ job'[t].pc = "recipients"
          /\ \A u \in Threads \ {t} : job'[u] = job[u]
          /\ UNCHANGED <<now, log>>
        BY <1>1, EventBegins, Begins DEF Typed, TypeOK
    <2>2. \A u \in Threads : Pending(u)' \subseteq Pending(u)
        BY <2>1 DEF Pending
    <2> QED
        BY <2>1, <2>2, QuietKeepsLimited
<1>2. ASSUME NEW t \in Threads, Deliver(t) PROVE Limited'
    BY <1>2, DeliverKeepsLimited
<1>3. CASE TurnOn
    <2>1. \A t \in Threads : Pending(t)' = {}
        BY <1>3, Emptied DEF TurnOn, Pending, Typed, TypeOK
    <2>2. Recent(allowed)' = {} /\ \A t \in Threads : Recent(Pending(t))' = {}
        BY <1>3, <2>1 DEF TurnOn, Recent
    <2>3. Cardinality({}) <= MaxCount
        BY FS_EmptySet, LimitAssumption
    <2> QED
        BY <2>2, <2>3 DEF Limited, ErrorMailsAreLimited
<1>4. CASE Tick
    <2>1. \A t \in Threads : Pending(t)' = Pending(t) /\ Pending(t) \in SUBSET Rows
        BY <1>4 DEF Tick, Pending, Typed, TypeOK, Jobs
    <2>2. sent' = sent /\ allowed' = allowed /\ allowed \in SUBSET Rows /\ now' = now + 1
        BY <1>4 DEF Tick, Typed, TypeOK, log
    <2>3. Recent(allowed)' \subseteq Recent(allowed)
        BY <1>4, <2>2, TimePasses DEF Recent
    <2>4. \A t \in Threads : Recent(Pending(t))' \subseteq Recent(Pending(t))
        BY <1>4, <2>1, <2>2, TimePasses DEF Recent
    <2> QED
        BY <2>2, <2>3, <2>4, FewerMails, LimitStays
<1>5. CASE UNCHANGED <<now, log, job>>
    BY <1>5, QuietKeepsLimited DEF Pending
<1>6. CASE \/ TurnOff \/ FallAsleep \/ (\E s \in sleepers : WakeUp(s) \/ SendDisconnect(s)) \/ Reconnect \/ SetupFails
           \/ UNCHANGED vars
    BY <1>5, <1>6 DEF TurnOff, FallAsleep, WakeUp, SendDisconnect, Reconnect, SetupFails, vars
<1> QED
    BY <1>1, <1>2, <1>3, <1>4, <1>6 DEF Next

\* However many threads log, prune and count at once, no more than email-max-count of the error
\* mails logged in a look-back period go out (email_limit.py:64-107).
THEOREM TheLimitHolds == Spec => []LimitHolds
<1>1. Typed /\ Limited => LimitHolds
    BY DEF Typed, Limited, LimitHolds
<1> QED
    BY InitTyped, NextTyped, InitLimited, NextLimited, <1>1, PTL DEF Spec

-----------------------------------------------------------------------------
(***************************************************************************)
(* The muting of short disconnections.  A sleeper wakes up a whole Mute    *)
(* after the disconnection it has seen, so whatever is mailed is that old, *)
(* while a return is muted only before: the two can meet in one second.    *)
(* An agent that comes back has a connection later than every disconnection*)
(* that was short, so a row that says that it is gone names none of them.  *)
(***************************************************************************)
Sleepers == [seen : Nat, until : Nat, sure : BOOLEAN]

Timed ==
    /\ now \in Nat
    /\ agent \in [conn : Nat, disc : Nat, phase : Phases] /\ agent.disc <= now
    /\ \A d \in told : d \in Nat /\ d + Mute <= now
    /\ \A d \in short : d \in Nat /\ d < agent.conn

Slept(s) ==
    /\ s \in Sleepers
    /\ s # Awake => s.seen + Mute <= s.until
    /\ s.sure => s.seen + Mute <= now /\ s.seen \notin short

Ordered == Timed /\ \A s \in sleepers : Slept(s)

LEMMA InitOrdered == Init => Ordered
BY DEF Init, Ordered, Timed, Phases

LEMMA AwakeSlept == Slept(Awake)
BY DEF Slept, Sleepers, Awake

LEMMA NextOrdered == Ordered /\ [Next]_vars => Ordered'
<1> SUFFICES ASSUME Ordered, [Next]_vars PROVE Ordered'
    OBVIOUS
<1>0. Mute \in Nat /\ Timed /\ \A s \in sleepers : Slept(s)
    BY LimitAssumption DEF Ordered
<1>1. ASSUME NEW t \in Threads, Event(t) PROVE Ordered'
    <2>1. /\ UNCHANGED <<now, sleepers, told, short>>
          /\ agent' \in [conn : Nat, disc : Nat, phase : Phases]
          /\ agent'.disc \in {agent.disc, now} /\ agent'.conn = agent.conn
        BY <1>0, <1>1 DEF Event, Alarm, Disconnect, SetupEnds, Remind, Timed, Phases
    <2> QED
        BY <1>0, <2>1 DEF Ordered, Timed, Slept
<1>2. ASSUME NEW t \in Threads, Deliver(t) PROVE Ordered'
    <2>1. UNCHANGED <<now, agent, told, short>> /\ sleepers' \subseteq sleepers \union {Awake}
        BY <1>2 DEF Deliver, Send, Log, Prune, Count, Spike, Disable, Mail
    <2> QED
        BY <1>0, <2>1, AwakeSlept DEF Ordered, Timed, Slept
<1>3. CASE FallAsleep
    <2> DEFINE z == [seen |-> agent.disc, until |-> now + Mute, sure |-> FALSE]
    <2>1. UNCHANGED <<now, agent, told, short>> /\ sleepers' \subseteq sleepers \union {z}
        BY <1>3 DEF FallAsleep
    <2>2. Slept(z)
        BY <1>0 DEF Timed, Slept, Sleepers
    <2> QED
        BY <1>0, <2>1, <2>2 DEF Ordered, Timed, Slept
<1>4. ASSUME NEW s \in sleepers, WakeUp(s) PROVE Ordered'
    <2> DEFINE z == [s EXCEPT !.sure = TRUE]
    <2>1. UNCHANGED <<now, agent, told, short>>
        BY <1>4 DEF WakeUp
    <2>2. \/ sleepers' \subseteq sleepers
          \/ sleepers' \subseteq sleepers \union {z} /\ StillGone(s)
        BY <1>4 DEF WakeUp
    <2>3. ASSUME StillGone(s) PROVE Slept(z)
        <3>1. /\ s.seen \in Nat /\ s.until \in Nat /\ s.seen + Mute <= s.until /\ s.until <= now
              /\ z \in Sleepers /\ z.seen = s.seen /\ z.until = s.until
            BY <1>0, <1>4 DEF WakeUp, Slept, Sleepers
        <3>2. s.seen = agent.disc /\ ~ (agent.disc < agent.conn)
            BY <2>3 DEF StillGone, RowAfterSleep, Connected
        <3>3. s.seen \notin short
            BY <1>0, <3>2 DEF Timed
        <3>4. s.seen + Mute <= now
            BY <1>0, <3>1 DEF Timed
        <3> QED
            BY <3>1, <3>3, <3>4 DEF Slept
    <2> QED
        BY <1>0, <2>1, <2>2, <2>3 DEF Ordered, Timed, Slept
<1>5. ASSUME NEW s \in sleepers, SendDisconnect(s) PROVE Ordered'
    <2>1. /\ UNCHANGED <<now, agent, short>> /\ sleepers' \subseteq sleepers
          /\ told' = told \union {s.seen} /\ s.sure
        BY <1>5 DEF SendDisconnect
    <2>2. s.seen \in Nat /\ s.seen + Mute <= now
        BY <1>0, <2>1 DEF Slept, Sleepers
    <2> QED
        BY <1>0, <2>1, <2>2 DEF Ordered, Timed, Slept
<1>6. CASE Reconnect
    <2>1. /\ UNCHANGED <<now, sleepers, told>> /\ Fresh
          /\ agent' \in [conn : Nat, disc : Nat, phase : Phases]
          /\ agent'.disc = agent.disc /\ agent'.conn = now
        BY <1>0, <1>6 DEF Reconnect, Timed, Phases
    <2>2. \A d \in short' : d \in short \/ (d = agent.disc /\ now < agent.disc + Mute)
        BY <1>6 DEF Reconnect
    <2>3. Timed'
        BY <1>0, <2>1, <2>2 DEF Timed, Fresh
    <2>4. ASSUME NEW s \in sleepers PROVE Slept(s)'
        BY <1>0, <2>1, <2>2 DEF Timed, Slept, Sleepers
    <2> QED
        BY <2>1, <2>3, <2>4 DEF Ordered
<1>7. CASE SetupFails
    <2>1. /\ UNCHANGED <<now, sleepers, told, short>>
          /\ agent' \in [conn : Nat, disc : Nat, phase : Phases]
          /\ agent'.disc = now /\ agent'.conn = agent.conn
        BY <1>0, <1>7 DEF SetupFails, Timed, Phases
    <2> QED
        BY <1>0, <2>1 DEF Ordered, Timed, Slept
<1>8. CASE TurnOn \/ TurnOff \/ UNCHANGED vars
    BY <1>0, <1>8 DEF TurnOn, TurnOff, vars, Ordered, Timed, Slept
<1>9. CASE Tick
    <2>1. now' = now + 1 /\ UNCHANGED <<agent, sleepers, told, short>>
        BY <1>9 DEF Tick
    <2>2. Timed'
        BY <1>0, <2>1 DEF Timed
    <2>3. ASSUME NEW s \in sleepers PROVE Slept(s)'
        BY <1>0, <2>1 DEF Timed, Slept, Sleepers
    <2> QED
        BY <2>1, <2>2, <2>3 DEF Ordered
<1> QED
    BY <1>1, <1>2, <1>3, <1>4, <1>5, <1>6, <1>7, <1>8, <1>9 DEF Next

\* The docstring of _dis_thread: a disconnection is mailed only when the seconds of the setting
\* have passed and the agent was not back before they had, whatever the setting and however many
\* sleepers and reconnections overlap (alert_email.py:266-310).
THEOREM DisconnectMailsAreTrue == Spec => DisconnectMailIsTrue
<1> DEFINE True == \A d \in told' \ told : d + Mute <= now /\ d \notin short
<1>1. Ordered /\ [Next]_vars => [True]_vars
    <2> SUFFICES ASSUME Ordered, Next, NEW d \in told' \ told
                 PROVE  d + Mute <= now /\ d \notin short
        OBVIOUS
    <2>1. PICK s \in sleepers : SendDisconnect(s)
        BY DEF Next, Event, Alarm, Disconnect, SetupEnds, Remind, Deliver, Send, Log, Prune, Count,
               Spike, Disable, Mail, FallAsleep, WakeUp, Reconnect, SetupFails, TurnOn, TurnOff, Tick
    <2>2. d = s.seen /\ s.sure
        BY <2>1 DEF SendDisconnect
    <2> QED
        BY <2>2 DEF Ordered, Slept
<1> QED
    BY <1>1, InitOrdered, NextOrdered, PTL DEF Spec, DisconnectMailIsTrue

\* _email_reconnect and _dis_thread mute the same disconnections: nobody is told of a
\* disconnection and left without word of the return, unless both fall into the same second.
THEOREM MutesFitTogether == Spec => MutedReturnWasNotTold
<1> DEFINE Fits == \A t \in Threads : Muted(t) /\ job'[t] = Idle =>
                       agent.disc \notin told \/ now = agent.disc + Mute
<1>1. Ordered => Fits
    BY LimitAssumption DEF Ordered, Timed, Muted, Soon
<1> QED
    BY <1>1, InitOrdered, NextOrdered, PTL DEF Spec, MutedReturnWasNotTold
=============================================================================
