----------------------------- MODULE CliCommand -----------------------------
(***************************************************************************)
(* A command on an agent: CliCmd.cli_cmd and its three requests (start,    *)
(* status, cleanup) in src/controller/controller/cli_cmd.py, kill_cmd,     *)
(* send_immediate and clean_xid_dirs in controller.py, http_send in        *)
(* agentmanager.py, and the process table the agent keeps for them in      *)
(* src/agent/processmanager.py (one directory per xid).                    *)
(*                                                                         *)
(* One agent, which may lose its connection and come back.  Threads run    *)
(* commands ("cli"), immediate commands ("pinfo") and file requests        *)
(* ("file"); the agent's ping thread sends pings.  All of them share the   *)
(* socket of the connection and its lock.                                  *)
(***************************************************************************)
EXTENDS Naturals, FiniteSets

CONSTANTS
    Workers,    \* threads that run commands
    Pinger,     \* the ping thread of the agent
    None,       \* no thread
    MaxXid,     \* bound: commands started
    MaxConn     \* bound: connections made by the agent

ASSUME ThreadsAssumption == Pinger \notin Workers /\ None \notin Workers \union {Pinger}
ASSUME BoundsAssumption == MaxXid \in Nat /\ MaxConn \in Nat

Threads == Workers \union {Pinger}
Xids == 1 .. MaxXid
Conns == 1 .. MaxConn
Kinds == {"cli", "pinfo", "file", "ping"}
Requests == {"start", "run", "status", "kill", "cleanup", "file", "ping"}
Answers == {"none", "ok", "refused", "running", "good", "bad"}

VARIABLES
    members,    \* connections in AgentManager.agents
    open,       \* connections whose socket works
    stuck,      \* open connections left with an answer nobody began to read
    half,       \* open connections left with an answer read in part
    holder,     \* AgentConnection.lockobj: the thread that holds it
    wire,       \* the request a connection carries, its answer, and whether
                \* an answer nobody has read comes before that
    dirs,       \* xids that have a directory on the agent
    proc,       \* what became of the process of an xid
    canKill,    \* the agent knows the request 'kill' (the Linux agent does not)
    th,         \* the command each thread is at
    made,       \* connections made so far
    row,        \* XIDEntry.state by xid
    ended       \* how the command of an xid ended

vars == <<members, open, stuck, half, holder, wire, dirs, proc, canKill, th, made, row, ended>>

NoRequest == [req |-> "none", xid |-> 0, by |-> None, ans |-> "none", over |-> FALSE]
Idle == [pc |-> "idle", kind |-> "ping", req |-> "none", conn |-> 0, xid |-> 0,
         result |-> "ok"]

TypeOK ==
    /\ members \subseteq Conns /\ open \subseteq Conns /\ stuck \subseteq Conns /\ half \subseteq Conns
    /\ holder \in [Conns -> Threads \union {None}]
    /\ wire \in [Conns -> [req : Requests \union {"none"}, xid : Xids \union {0},
                           by : Threads \union {None}, ans : Answers, over : BOOLEAN]]
    /\ dirs \subseteq Xids
    /\ proc \in [Xids -> {"none", "running", "good", "bad"}]
    /\ canKill \in BOOLEAN
    /\ th \in [Threads -> [pc : {"idle", "loop", "ready", "sent"}, kind : Kinds,
                           req : Requests \union {"none"}, conn : Conns \union {0},
                           xid : Xids \union {0}, result : {"ok", "error", "killed"}]]
    /\ made \in Conns \union {0}
    /\ row \in [Xids -> {"none", "started", "finished"}]
    /\ ended \in [Xids -> [result : {"no", "ok", "error", "killed"}, polled : BOOLEAN,
                           conn : Conns \union {0}]]

NotEnded == [result |-> "no", polled |-> FALSE, conn |-> 0]

Init ==
    /\ members = {} /\ open = {} /\ stuck = {} /\ half = {}
    /\ holder = [c \in Conns |-> None]
    /\ wire = [c \in Conns |-> NoRequest]
    /\ dirs = {}
    /\ proc = [x \in Xids |-> "none"]
    /\ canKill \in BOOLEAN
    /\ th = [t \in Threads |-> Idle]
    /\ made = 0
    /\ row = [x \in Xids |-> "none"]
    /\ ended = [x \in Xids |-> NotEnded]

-----------------------------------------------------------------------------
(***************************************************************************)
(* Controller.remove_agent: the connection leaves the dictionary and its   *)
(* socket is closed.                                                       *)
(***************************************************************************)
RemoveAgent(c) ==
    /\ members' = members \ {c}
    /\ open' = IF c \in members THEN open \ {c} ELSE open

KeepAgent(c) == UNCHANGED <<members, open>>

FirstRequest(k) == CASE k = "cli" -> "start" [] k = "pinfo" -> "run" [] OTHER -> k
Starting == {t \in Threads : th[t].pc # "idle" /\ th[t].req \in {"start", "run"} /\ th[t].xid = 0}
XidsLeft == Cardinality(Starting) < Cardinality({x \in Xids : row[x] = "none"})
Fresh(x) == x \in Xids /\ row[x] = "none" /\ \A y \in Xids : y < x => row[y] # "none"

\* A thread finds the agent and begins; the ping thread only pings.
Begin(t, k) ==
    /\ th[t].pc = "idle"
    /\ (t = Pinger) <=> (k = "ping")
    /\ k \in {"cli", "pinfo"} => XidsLeft
    /\ \E c \in members :
          th' = [th EXCEPT ![t] = [Idle EXCEPT !.pc = "ready", !.kind = k,
                                               !.req = FirstRequest(k), !.conn = c]]
    /\ UNCHANGED <<members, open, stuck, half, holder, wire, dirs, proc, canKill, made, row, ended>>

\* Mutant: a request is sent without aconn.lock().
Locks_Not(t, c) == UNCHANGED holder

\* aconn.lock(): waits until nobody holds the lock.
Locks(t, c) == holder[c] = None /\ holder' = [holder EXCEPT ![c] = t]

(***************************************************************************)
(* aconn.lock() and httpconn.request().  Request.__init__ makes the row of *)
(* the xid under the lock.  A broken socket, or one whose last answer      *)
(* nobody began to read (CannotSendRequest), shows when the answer is      *)
(* wanted.  After an answer read in part httplib is idle, and the request  *)
(* goes out behind what is left of it.                                     *)
(***************************************************************************)
RowFor(t, x) ==
    CASE th[t].req \in {"start", "run"} -> Fresh(x) /\ row' = [row EXCEPT ![x] = "started"]
      [] th[t].req = "cleanup" -> x = th[t].xid /\ row' = [row EXCEPT ![x] = "finished"]
      [] OTHER -> x = th[t].xid /\ UNCHANGED row

Send(t) ==
    LET c == th[t].conn IN
    /\ th[t].pc = "ready"
    /\ Locks(t, c)
    /\ \E x \in Xids \union {0} :
          /\ RowFor(t, x)
          /\ th' = [th EXCEPT ![t].pc = "sent", ![t].xid = x]
          /\ wire' = IF c \in open \ stuck
                     THEN [wire EXCEPT ![c] = [req |-> th[t].req, xid |-> x, by |-> t, ans |-> "none",
                                               over |-> wire[c].req # "none"]]
                     ELSE wire
    /\ UNCHANGED <<members, open, stuck, half, dirs, proc, canKill, made, ended>>

-----------------------------------------------------------------------------
(***************************************************************************)
(* The agent (handle_cli and ProcessManager).                              *)
(***************************************************************************)
\* The process writes its return code.
Exit(x) ==
    /\ proc[x] = "running"
    /\ \E code \in {"good", "bad"} : proc' = [proc EXCEPT ![x] = code]
    /\ UNCHANGED <<members, open, stuck, half, holder, wire, dirs, canKill, th, made, row, ended>>

Answer(c, a) == wire' = [wire EXCEPT ![c].ans = a]

(***************************************************************************)
(* ProcessManager.start makes the directory and the process; the answer is *)
(* what getinfo finds right after.  An immediate start ("run") waits for   *)
(* the process and removes the directory before it answers.                *)
(***************************************************************************)
AnswerStart(c) ==
    /\ wire[c].req \in {"start", "run"}
    /\ dirs' = IF wire[c].req = "start" THEN dirs \union {wire[c].xid} ELSE dirs
    /\ \E status \in {"good", "bad"} \union (IF wire[c].req = "start" THEN {"running"} ELSE {}) :
          Answer(c, status) /\ proc' = [proc EXCEPT ![wire[c].xid] = status]

AnswerStatus(c) ==
    /\ wire[c].req = "status"
    /\ Answer(c, proc[wire[c].xid])
    /\ UNCHANGED <<dirs, proc>>

AnswerKill(c) ==
    LET x == wire[c].xid IN
    /\ wire[c].req = "kill"
    /\ Answer(c, IF canKill THEN "ok" ELSE "refused")
    /\ proc' = IF canKill /\ proc[x] = "running" THEN [proc EXCEPT ![x] = "bad"] ELSE proc
    /\ UNCHANGED dirs

AnswerCleanup(c) ==
    /\ wire[c].req = "cleanup"
    /\ dirs' = dirs \ {wire[c].xid}
    /\ Answer(c, "ok")
    /\ UNCHANGED proc

AnswerOther(c) ==
    /\ wire[c].req \in {"file", "ping"}
    /\ Answer(c, "ok")
    /\ UNCHANGED <<dirs, proc>>

AgentAnswers(c) ==
    /\ c \in open
    /\ wire[c].ans = "none"
    /\ \/ AnswerStart(c) \/ AnswerStatus(c) \/ AnswerKill(c)
       \/ AnswerCleanup(c) \/ AnswerOther(c)
    /\ UNCHANGED <<members, open, stuck, half, holder, canKill, th, made, row, ended>>

-----------------------------------------------------------------------------
(***************************************************************************)
(* What a thread does once a request of its command is answered (or has    *)
(* failed: "error").  Later requests of a command follow the earlier ones. *)
(***************************************************************************)
Goes(t, request, result) ==
    /\ th' = [th EXCEPT ![t].pc = IF request = "status" THEN "loop" ELSE "ready",
                        ![t].req = request, ![t].result = result]
    /\ UNCHANGED ended

Ends(t, result) ==
    /\ th' = [th EXCEPT ![t] = Idle]
    /\ ended' = IF th[t].kind # "cli" THEN ended
                ELSE [ended EXCEPT ![th[t].xid] =
                        [result |-> result, polled |-> th[t].req # "start",
                         conn |-> IF th[t].req = "start" THEN 0 ELSE th[t].conn]]

\* Mutant: the answer to the start is taken for the result.
AfterStart_Unpolled(t, a) == Ends(t, IF a = "error" THEN "error" ELSE "ok")

\* A process that has not ended when its start is answered is polled.
AfterStart(t, a) ==
    \/ a = "running" /\ Goes(t, "status", "ok")
    \/ a # "running" /\ Ends(t, IF a = "error" THEN "error" ELSE "ok")

Continue(t, a) ==
    \/ th[t].req \in {"start", "run"} /\ AfterStart(t, a)
    \/ th[t].req = "status" /\ a = "running" /\ Goes(t, "status", "ok")
    \/ th[t].req = "status" /\ a = "good" /\ Goes(t, "cleanup", "ok")
    \/ th[t].req = "status" /\ a \in {"bad", "error"} /\ Goes(t, "cleanup", "error")
    \/ th[t].req = "kill" /\ Goes(t, "cleanup", "killed")
    \/ th[t].req = "cleanup" /\ Ends(t, IF a = "error" /\ th[t].result = "ok" THEN "error" ELSE th[t].result)
    \/ th[t].req \in {"file", "ping"} /\ Ends(t, IF a = "error" THEN "error" ELSE "ok")

\* Mutant: an agent that refuses a request is kept.
OnRefusal_KeepAgent(t, c) == KeepAgent(c)

\* res.status != httplib.OK
OnRefusal(t, c) == RemoveAgent(c)

\* Connections whose next answer httplib does not hand out (ResponseNotReady).
Owing == stuck \union half

\* The answer is read, the lock is given up (finally).
Receive(t) ==
    LET c == th[t].conn
        a == wire[c].ans
    IN /\ th[t].pc = "sent"
       /\ wire[c].by = t /\ a # "none" /\ c \notin Owing
       /\ wire' = [wire EXCEPT ![c] = NoRequest]
       /\ holder' = [holder EXCEPT ![c] = None]
       /\ IF a = "refused" THEN OnRefusal(t, c) ELSE KeepAgent(c)
       /\ Continue(t, IF a = "refused" THEN "error" ELSE a)
       /\ UNCHANGED <<stuck, half, dirs, proc, canKill, made, row>>

\* Mutant: the lock is kept when a request fails.
Unlock_OnlyWhenAnswered(c) == UNCHANGED holder

\* finally: aconn.unlock()
Unlock(c) == holder' = [holder EXCEPT ![c] = None]

\* Mutant: the next request is sent, and answered, although an answer is due.
Unread_Forgotten(t, c) == UNCHANGED <<stuck, half>>

(***************************************************************************)
(* httplib after the exchange failed, on a socket that stays open           *)
(* (ReverseHTTPConnection.close does nothing).  A request whose answer was *)
(* not begun keeps it from sending.  With the body read in part it is idle *)
(* and sends one more request, or, when the agent answers in HTTP/1.0,     *)
(* any number; it hands out no answer to them.                             *)
(***************************************************************************)
Unread(t, c) ==
    IF c \in open' /\ wire[c].by = t
    THEN \/ stuck' = stuck \union {c} /\ half' = half \ {c}
         \/ /\ wire[c].ans # "none" \/ c \in half
            /\ half' = half \union {c} /\ stuck' = stuck
    ELSE stuck' = stuck \intersect open' /\ half' = half \intersect open'

\* Mutant: a ping that fails only raises.
Removes_NotByPing(t) == th[t].kind \notin {"file", "ping"}

\* The requests whose failure removes the agent: all but those of http_send.
Removes(t) == th[t].kind # "file"

(***************************************************************************)
(* The request fails: the socket broke, timed out before the answer or in  *)
(* the middle of its body, or could not be written to.  A command and a    *)
(* ping remove the agent; http_send only raises, and leaves the connection *)
(* with an unread answer.                                                  *)
(***************************************************************************)
Fail(t) ==
    LET c == th[t].conn IN
    /\ th[t].pc = "sent"
    /\ Unlock(c)
    /\ IF Removes(t) THEN RemoveAgent(c) ELSE KeepAgent(c)
    /\ Unread(t, c)
    /\ wire' = IF c \in open' /\ wire[c].by # t THEN wire
               ELSE IF c \in open' THEN [wire EXCEPT ![c].by = None]
               ELSE [wire EXCEPT ![c] = NoRequest]
    /\ Continue(t, "error")
    /\ UNCHANGED <<dirs, proc, canKill, made, row>>

(***************************************************************************)
(* The top of _get_cli_status' loop: the time the command is given is up   *)
(* (it may be at any turn), the agent is gone, or the status is asked for. *)
(***************************************************************************)
TimesOut(t) ==
    /\ th[t].pc = "loop"
    /\ th' = [th EXCEPT ![t].pc = "ready", ![t].req = "kill"]
    /\ UNCHANGED <<members, open, stuck, half, holder, wire, dirs, proc, canKill, made, row, ended>>

Loop(t) ==
    /\ th[t].pc = "loop"
    /\ IF th[t].conn \notin members
       THEN Goes(t, "cleanup", "error")
       ELSE th' = [th EXCEPT ![t].pc = "ready"] /\ UNCHANGED ended
    /\ UNCHANGED <<members, open, stuck, half, holder, wire, dirs, proc, canKill, made, row>>

-----------------------------------------------------------------------------
\* The network: a connection breaks with whatever it carried.
Break(c) ==
    /\ c \in open
    /\ open' = open \ {c}
    /\ stuck' = stuck \ {c} /\ half' = half \ {c}
    /\ wire' = [wire EXCEPT ![c] = NoRequest]
    /\ UNCHANGED <<members, holder, dirs, proc, canKill, th, made, row, ended>>

\* clean_xid_dirs on a new connection; listing the directories may fail.
CleanXidDirs == dirs' = {} \/ UNCHANGED dirs

(***************************************************************************)
(* The agent, which has one connection, comes back: init_new_agent removes *)
(* the directories of earlier xids, register drops the old connection.     *)
(***************************************************************************)
Connect ==
    /\ open = {}
    /\ made < MaxConn
    /\ made' = made + 1
    /\ open' = {made'}
    /\ members' = {made'}
    /\ CleanXidDirs
    /\ UNCHANGED <<stuck, half, holder, wire, proc, canKill, th, row, ended>>

Step(t) == Send(t) \/ Receive(t) \/ Fail(t) \/ Loop(t) \/ TimesOut(t)

Next ==
    \/ \E t \in Threads : Step(t) \/ \E k \in Kinds : Begin(t, k)
    \/ \E c \in Conns : AgentAnswers(c) \/ Break(c)
    \/ \E x \in Xids : Exit(x)
    \/ Connect

(***************************************************************************)
(* Threads run; a lock that is given up again and again is got; the ping   *)
(* thread pings; a loop that turns for ever finds its time up at some      *)
(* turn.  Nothing is assumed of the agent.                                 *)
(***************************************************************************)
Fairness ==
    /\ \A t \in Threads : SF_vars(Send(t)) /\ WF_vars(Receive(t) \/ Fail(t) \/ Loop(t))
    /\ \A t \in Workers : SF_vars(TimesOut(t))
    /\ WF_vars(Begin(Pinger, "ping"))

Spec == Init /\ [][Next]_vars /\ Fairness

-----------------------------------------------------------------------------
(***************************************************************************)
(* cli_cmd.py, "aconn.lock()": whoever holds the lock of a connection is   *)
(* in the middle of a request on it, and the request a connection carries  *)
(* is the one its holder waits for.                                        *)
(***************************************************************************)
ExchangeIsOwn ==
    /\ \A c \in Conns : holder[c] # None => th[holder[c]].pc = "sent" /\ th[holder[c]].conn = c
    /\ \A t \in Threads : th[t].pc = "sent" => holder[th[t].conn] = t
    /\ \A c \in Conns : wire[c].by # None =>
          LET t == wire[c].by IN
          /\ holder[c] = t
          /\ th[t].req = wire[c].req /\ th[t].xid = wire[c].xid

(***************************************************************************)
(* agentmanager.py, "Each agent connection has its own lock to allow only  *)
(* one thread to send/recv on the agent socket at a time".  The lock is    *)
(* given up with an answer unread when http_send times out; whatever other *)
(* threads put on the socket behind it, nobody takes an answer from that   *)
(* connection any more, so that no answer goes to the wrong request.       *)
(***************************************************************************)
NothingIsReadBehind ==
    [][\A c \in Conns : wire[c].over /\ c \in open' => wire'[c].over]_vars

(***************************************************************************)
(* ProcessManager.getinfo reads files of the xid's directory: a status     *)
(* that an agent is asked for is of an xid whose directory is still there, *)
(* whatever cleanups, kills and reconnections went before.                 *)
(***************************************************************************)
PolledDirExists ==
    \A c \in open : wire[c].req = "status" /\ wire[c].ans = "none" => wire[c].xid \in dirs

(***************************************************************************)
(* cli_cmd, "3) Sends cleanup": a command that was polled leaves no        *)
(* directory behind, unless it lost its connection.                        *)
(***************************************************************************)
EndedIsCleaned ==
    \A x \in Xids : ended[x].polled /\ ended[x].conn \in open => x \notin dirs

(***************************************************************************)
(* _get_cli_status kills what timed out: on an agent that is still         *)
(* connected no process runs on behind a command reported as failed.       *)
(***************************************************************************)
TimedOutIsStopped ==
    \A x \in Xids : ended[x].result = "killed" /\ ended[x].conn \in open => proc[x] # "running"

\* Every command, request and ping comes to its end, whatever the agent does.
CommandsEnd == \A t \in Workers : []<>(th[t].pc = "idle")

(***************************************************************************)
(* ping_check: a connection that broke, or whose answers http_send did not *)
(* read, is found by the ping thread and leaves the dictionary.            *)
(***************************************************************************)
Dead == members # {} /\ members \intersect (open \ Owing) = {}
DeadAgentIsRemoved == Dead ~> ~Dead

(***************************************************************************)
(* _get_cli_status says "Make sure if the command failed, that the 'error' *)
(* key is set": a command that was polled is not reported as done when its *)
(* process failed, was killed or still runs.  (One whose process has ended *)
(* when its start is answered is: cli_cmd returns that answer as it is.)   *)
(***************************************************************************)
FailureIsReported ==
    \A x \in Xids : ended[x].result = "ok" /\ ended[x].polled => proc[x] = "good"

(***************************************************************************)
(* One exchange at a time on each connection, with the xid it belongs to,  *)
(* so that every answer, and the result made of it, is about its command.  *)
(***************************************************************************)
AnswersAreOwn == TypeOK /\ ExchangeIsOwn /\ PolledDirExists /\ FailureIsReported

\* cli_cmd's kill and cleanup: nothing of a command stays on the agent.
LeavesNothing == EndedIsCleaned /\ TimedOutIsStopped

\* What the caller of cli_cmd knows: the start said it all, the polls said so, or it went wrong.
Reported(x) ==
    CASE ended[x].result = "no" -> "none"
      [] ended[x].result = "ok" /\ ~ended[x].polled -> "done"
      [] ended[x].result = "ok" /\ ended[x].polled -> "good"
      [] OTHER -> "failed"

Contract == INSTANCE AgentCommand WITH process <- proc, report <- [x \in Xids |-> Reported(x)]

(***************************************************************************)
(* cli_cmd keeps the promise of AgentCommand through timeouts, kills,      *)
(* refusals and lost connections: the process of an xid is started once    *)
(* (the id of its row is new), its result is reported once, and no success *)
(* is reported while it runs.                                              *)
(***************************************************************************)
ImplementsCommand == Contract!Spec

=============================================================================
