---------------------------- MODULE StatusMonitor ---------------------------
(***************************************************************************)
(* TableauStatusMonitor in src/controller/controller/tableau.py: its own   *)
(* loop, and check_status_with_connection, which the user actions call too *)
(* when they have changed Tableau.                                         *)
(***************************************************************************)
EXTENDS AgentConnections

\* Mutant: the monitor does not take the upgrade lock.
MonitorStart_NoReadLock ==
    /\ th[Monitor].pc = "idle"
    /\ primary # 0
    /\ owner[primary] = Nobody
    /\ th' = [th EXCEPT ![Monitor] =
                 [Idle EXCEPT !.pc = "fetch", !.conn = primary]]
    /\ UNCHANGED <<main, reported, tableau, primary, handler, up, owner, upgrade>>

(***************************************************************************)
(* tableau_status_loop and check_status: not while upgrading, not without  *)
(* a primary, not while a user action has the lock.  The lock is given up  *)
(* at once: an action may start while the status is fetched.               *)
(***************************************************************************)
MonitorStart ==
    /\ th[Monitor].pc = "idle"
    /\ CanRead
    /\ primary # 0
    /\ owner[primary] = Nobody
    /\ th' = [th EXCEPT ![Monitor] =
                 [Idle EXCEPT !.pc = "fetch", !.conn = primary]]
    /\ UNCHANGED <<main, reported, tableau, primary, handler, up, owner, upgrade>>

\* What check_status_with_connection's caller does next.
AfterCheck(t) ==
    IF t = Monitor THEN Return(t)
    ELSE th' = [th EXCEPT ![t].pc = "finish", ![t].fetched = Idle.fetched,
                          ![t].seen = Idle.seen]

(***************************************************************************)
(* The status a request may bring.  A misread one is unknown (systeminfo   *)
(* alone is allowed, or says StatusNotAvailable), or stopped: a gateway    *)
(* that no longer answers is taken for a stopped Tableau.                  *)
(***************************************************************************)
Answers(c) ==
    (IF c \in up THEN {tableau} ELSE {}) \union
    (IF "bad_status" \notin Faults THEN {}
     ELSE IF c \in up THEN {"UNKNOWN", "STOPPED"} ELSE {"UNKNOWN"})

FetchAnswered(t) ==
    /\ th[t].pc = "fetch"
    /\ \E status \in Answers(th[t].conn) :
          th' = [th EXCEPT ![t].pc = "apply", ![t].fetched = status]
    /\ UNCHANGED <<main, reported, tableau, primary, handler, up, owner, upgrade>>

\* _get_status_tabadmin returns early: an exit status, no or strange output.
FetchFails(t) ==
    /\ th[t].pc = "fetch"
    /\ "bad_status" \in Faults
    /\ th[t].conn \in up
    /\ AfterCheck(t)
    /\ UNCHANGED <<main, reported, tableau, primary, handler, up, owner, upgrade>>

\* The request cannot be sent: the agent is removed.
FetchLost(t) ==
    /\ th[t].pc = "fetch"
    /\ th[t].conn \notin up
    /\ RemoveAgentAndStatus(th[t].conn)
    /\ AfterCheck(t)
    /\ UNCHANGED <<tableau, handler, owner, upgrade>>

\* Mutant: _finish_status goes on without the lock.
Apply_Unlocked(t) ==
    /\ th[t].pc = "apply"
    /\ th' = [th EXCEPT ![t].pc = "write", ![t].seen = main]
    /\ UNCHANGED <<main, reported, tableau, primary, handler, up, owner, upgrade>>

(***************************************************************************)
(* _finish_status takes the user action lock (a user action that checks    *)
(* already holds it) and _set_main_state reads the state; without the lock *)
(* the fetched status is thrown away.                                      *)
(***************************************************************************)
Apply(t) ==
    LET c == th[t].conn IN
    /\ th[t].pc = "apply"
    /\ \/ /\ owner[c] \in {Nobody, t}
          /\ owner' = [owner EXCEPT ![c] = t]
          /\ th' = [th EXCEPT ![t].pc = "write", ![t].seen = main]
       \/ /\ owner[c] \notin {Nobody, t}
          /\ AfterCheck(t)
          /\ UNCHANGED owner
    /\ UNCHANGED <<main, reported, tableau, primary, handler, up, upgrade>>

WriteState(t) ==
    LET next == NextState(th[t].seen, th[t].fetched, Pre82) IN
    main' = IF next = th[t].seen THEN main ELSE next

\* The state is updated if the table says so, the status table is committed.
Write(t) ==
    /\ th[t].pc = "write"
    /\ WriteState(t)
    /\ reported' = th[t].fetched
    /\ AfterCheck(t)
    /\ IF t = Monitor THEN Unlock(t) ELSE UNCHANGED owner
    /\ UNCHANGED <<tableau, primary, handler, up, upgrade>>

CheckStatus(t) ==
    FetchAnswered(t) \/ FetchFails(t) \/ FetchLost(t) \/ Apply(t) \/ Write(t)

=============================================================================
