--------------------------- MODULE CliCommandProofs ---------------------------
(***************************************************************************)
(* A command on an agent, for any number of threads, commands and          *)
(* connections: exchanges on a socket do not mix, the result of a command  *)
(* is about its own process, and what was polled is killed and cleaned.    *)
(*                                                                         *)
(* The properties rest on one invariant: an answer on the wire is true     *)
(* of the agent (Wires), which rests on an xid having one thread (OneUse)  *)
(* and on a connection never being opened again (Generations).             *)
(***************************************************************************)
EXTENDS CliCommand, TLAPS

\* Where each kind of command can be.
InPlace(l) ==
    \/ l.pc = "idle"
    \/ l.pc = "loop" /\ l.kind = "cli" /\ l.req = "status" /\ l.xid # 0
    \/ /\ l.pc \in {"ready", "sent"}
       /\ \/ l.kind = "cli" /\ l.req = "start" /\ (l.xid # 0 <=> l.pc = "sent")
          \/ l.kind = "cli" /\ l.req \in {"status", "kill", "cleanup"} /\ l.xid # 0
          \/ l.kind = "pinfo" /\ l.req = "run" /\ (l.xid # 0 <=> l.pc = "sent")
          \/ l.kind \in {"file", "ping"} /\ l.req = l.kind /\ l.xid = 0

Places ==
    \A t \in Threads :
        /\ InPlace(th[t])
        /\ IF th[t].pc = "idle" THEN th[t] = Idle ELSE th[t].conn # 0

\* An xid belongs to one command, and to none that has ended.
OneUse ==
    /\ \A t \in Threads : th[t].xid # 0 => row[th[t].xid] # "none" /\ ended[th[t].xid].result = "no"
    /\ \A s, t \in Threads : s # t /\ th[s].xid # 0 => th[s].xid # th[t].xid
    /\ \A x \in Xids : IF ended[x].result = "no" THEN ended[x].conn = 0 ELSE row[x] # "none"

\* The agent has one connection at a time; a closed one stays closed.
Generations ==
    /\ open \subseteq members
    /\ \A c \in members : c <= made
    /\ \A t \in Threads : th[t].conn <= made
    /\ \A x \in Xids : ended[x].conn <= made

(***************************************************************************)
(* What a connection carries.  A request nobody waits for is one of        *)
(* http_send that failed; an answer is true of the agent.                  *)
(***************************************************************************)
Wire(c) ==
    LET w == wire[c] IN
    /\ w.req # "none" => c \in open
    /\ w.req # "none" /\ w.by = None => w.req = "file" /\ c \in Owing
    /\ w.over => w.req # "none" /\ c \in Owing
    /\ w.req = "start" /\ w.ans # "none" => w.xid \in dirs
    /\ w.req = "status" /\ w.ans = "good" => proc[w.xid] = "good"
    /\ w.req = "run" => w.ans # "running"
    /\ w.req = "kill" /\ w.ans \notin {"none", "refused"} => proc[w.xid] # "running"
    /\ w.req = "cleanup" /\ w.ans # "none" => w.ans = "ok" /\ w.xid \notin dirs

Wires == \A c \in Conns : Wire(c)

\* What a command knows of its process and of its directory.
Knows(t) ==
    LET l == th[t] IN
    /\ l.req = "status" /\ l.conn \in open => l.xid \in dirs
    /\ l.req = "cleanup" /\ l.result = "ok" => proc[l.xid] = "good"
    /\ l.req = "cleanup" /\ l.result = "killed" /\ l.conn \in open => proc[l.xid] # "running"

Knowledge == \A t \in Threads : Knows(t)

IInv ==
    /\ TypeOK
    /\ Places
    /\ OneUse
    /\ Generations
    /\ ExchangeIsOwn
    /\ Wires
    /\ Knowledge
    /\ FailureIsReported
    /\ LeavesNothing

Commands ==
    [pc : {"idle", "loop", "ready", "sent"}, kind : Kinds, req : Requests \union {"none"},
     conn : Conns \union {0}, xid : Xids \union {0}, result : {"ok", "error", "killed"}]

Ends_ == [result : {"no", "ok", "error", "killed"}, polled : BOOLEAN, conn : Conns \union {0}]

Exchanges ==
    [req : Requests \union {"none"}, xid : Xids \union {0}, by : Threads \union {None}, ans : Answers,
     over : BOOLEAN]

LEMMA Constant ==
    /\ None \notin Threads /\ 0 \notin Conns /\ 0 \notin Xids
    /\ Conns \subseteq Nat /\ MaxConn \in Nat
BY ThreadsAssumption, BoundsAssumption DEF Threads, Conns, Xids

LEMMA Types ==
    ASSUME TypeOK
    PROVE  /\ th \in [Threads -> Commands]
           /\ wire \in [Conns -> Exchanges]
           /\ ended \in [Xids -> Ends_]
           /\ holder \in [Conns -> Threads \union {None}]
           /\ made \in Nat
BY Constant DEF TypeOK, Commands, Exchanges, Ends_

LEMMA IdleIsCommand ==
    /\ Idle \in Commands
    /\ Idle.pc = "idle" /\ Idle.req = "none" /\ Idle.conn = 0 /\ Idle.xid = 0
    /\ Idle.result = "ok"
BY DEF Idle, Commands, Kinds, Requests

LEMMA NoRequestIsExchange ==
    /\ NoRequest \in Exchanges
    /\ NoRequest.req = "none" /\ NoRequest.by = None /\ NoRequest.over = FALSE
BY DEF NoRequest, Exchanges, Requests, Answers

LEMMA InitIInv == Init => IInv
<1> SUFFICES ASSUME Init PROVE IInv
    OBVIOUS
<1>1. NotEnded \in Ends_ /\ NotEnded.result = "no" /\ NotEnded.conn = 0
    BY DEF NotEnded, Ends_
<1>2. TypeOK
    BY <1>1, IdleIsCommand, NoRequestIsExchange DEF Init, TypeOK, Commands, Exchanges, Ends_
<1>3. Places
    BY IdleIsCommand DEF Init, Places, InPlace
<1>4. OneUse
    BY <1>1, IdleIsCommand DEF Init, OneUse
<1>5. Generations
    BY <1>1, IdleIsCommand DEF Init, Generations
<1>6. ExchangeIsOwn
    BY IdleIsCommand, NoRequestIsExchange DEF Init, ExchangeIsOwn
<1>7. Wires
    BY NoRequestIsExchange DEF Init, Wires, Wire
<1>8. Knowledge
    BY IdleIsCommand DEF Init, Knowledge, Knows
<1>9. FailureIsReported /\ LeavesNothing
    BY <1>1 DEF Init, FailureIsReported, LeavesNothing, EndedIsCleaned, TimedOutIsStopped
<1> QED
    BY <1>2, <1>3, <1>4, <1>5, <1>6, <1>7, <1>8, <1>9 DEF IInv

-----------------------------------------------------------------------------
(***************************************************************************)
(* What Continue does: the command goes on to its next request, or ends.   *)
(***************************************************************************)
GoesOn(t, a) ==
    /\ ended' = ended
    /\ th'[t].pc \in {"loop", "ready"}
    /\ th'[t].xid = th[t].xid /\ th'[t].conn = th[t].conn
    /\ \/ th'[t].req = "status" /\ a = "running" /\ th[t].req \in {"start", "status"}
       \/ /\ th'[t].req = "cleanup" /\ th[t].req = "status"
          /\ th'[t].result = "ok" => a = "good"
          /\ th'[t].result # "killed"
       \/ th'[t].req = "cleanup" /\ th[t].req = "kill" /\ th'[t].result = "killed"

ComesToEnd(t) ==
    /\ th'[t] = Idle
    /\ \/ ended' = ended
       \/ /\ th[t].xid \in Xids
          /\ ended' \in [Xids -> Ends_]
          /\ \A x \in Xids \ {th[t].xid} : ended'[x] = ended[x]
          /\ LET e == ended'[th[t].xid] IN
             \/ th[t].req = "start" /\ e.conn = 0 /\ e.polled = FALSE /\ e.result \in {"ok", "error"}
             \/ /\ th[t].req = "cleanup" /\ e.conn = th[t].conn
                /\ e.result \in {"ok", "error", "killed"}
                /\ e.result \in {"ok", "killed"} => th[t].result = e.result

Continued(t, a) ==
    /\ th' \in [Threads -> Commands]
    /\ \A s \in Threads \ {t} : th'[s] = th[s]
    /\ InPlace(th'[t])
    /\ GoesOn(t, a) \/ ComesToEnd(t)

LEMMA GoesContinues ==
    ASSUME IInv, NEW t \in Threads, NEW a, NEW req \in {"status", "cleanup"},
           NEW result \in {"ok", "error", "killed"}, Goes(t, req, result),
           th[t].kind = "cli", th[t].xid # 0,
           \/ req = "status" /\ a = "running" /\ th[t].req \in {"start", "status"}
           \/ /\ req = "cleanup" /\ th[t].req = "status"
              /\ result = "ok" => a = "good"
              /\ result # "killed"
           \/ req = "cleanup" /\ th[t].req = "kill" /\ result = "killed"
    PROVE  Continued(t, a)
<1> DEFINE l == [th[t] EXCEPT !.pc = IF req = "status" THEN "loop" ELSE "ready",
                              !.req = req, !.result = result]
<1>1. th \in [Threads -> Commands] /\ th[t] \in Commands
    BY Types DEF IInv
<1>2. th' = [th EXCEPT ![t] = l] /\ ended' = ended
    BY <1>1 DEF Goes
<1>3. /\ l \in Commands /\ l.req = req /\ l.result = result
      /\ l.pc = (IF req = "status" THEN "loop" ELSE "ready")
      /\ l.kind = th[t].kind /\ l.xid = th[t].xid /\ l.conn = th[t].conn
    BY <1>1 DEF Commands, Requests
<1> HIDE DEF l
<1>4. /\ th' \in [Threads -> Commands] /\ th'[t] = l
      /\ \A s \in Threads \ {t} : th'[s] = th[s]
    BY <1>1, <1>2, <1>3
<1>5. InPlace(l)
    BY <1>3 DEF InPlace
<1> QED
    BY <1>2, <1>3, <1>4, <1>5 DEF Continued, GoesOn

LEMMA EndsContinues ==
    ASSUME IInv, NEW t \in Threads, NEW a, NEW result \in {"ok", "error", "killed"},
           Ends(t, result), th[t].pc = "sent",
           \/ th[t].req \in {"start", "run", "file", "ping"} /\ result # "killed"
           \/ th[t].req = "cleanup" /\ (result \in {"ok", "killed"} => th[t].result = result)
    PROVE  Continued(t, a)
<1> DEFINE e == [result |-> result, polled |-> th[t].req # "start",
                 conn |-> IF th[t].req = "start" THEN 0 ELSE th[t].conn]
<1>1. /\ th \in [Threads -> Commands] /\ th[t] \in Commands /\ ended \in [Xids -> Ends_]
      /\ InPlace(th[t])
    BY Types DEF IInv, Places
<1>2. /\ th' \in [Threads -> Commands] /\ th'[t] = Idle
      /\ \A s \in Threads \ {t} : th'[s] = th[s]
    BY <1>1, IdleIsCommand DEF Ends
<1>3. InPlace(th'[t])
    BY <1>2, IdleIsCommand DEF InPlace
<1>4. e \in Ends_
    BY <1>1 DEF Ends_, Commands
<1>5. /\ e.result = result
      /\ e.conn = (IF th[t].req = "start" THEN 0 ELSE th[t].conn)
      /\ e.polled = (th[t].req # "start")
    OBVIOUS
<1>6. CASE th[t].kind = "cli"
    <2>1. th[t].xid \in Xids /\ th[t].req \in {"start", "cleanup"}
        BY <1>1, <1>6 DEF InPlace, Commands
    <2>2. ended' = [ended EXCEPT ![th[t].xid] = e]
        BY <1>6 DEF Ends
    <2> HIDE DEF e
    <2>3. ended' \in [Xids -> Ends_] /\ ended'[th[t].xid] = e
          /\ \A x \in Xids \ {th[t].xid} : ended'[x] = ended[x]
        BY <1>1, <1>4, <2>1, <2>2
    <2>4. ComesToEnd(t)
        BY <1>2, <1>5, <2>1, <2>3 DEF ComesToEnd
    <2> QED
        BY <1>2, <1>3, <2>4 DEF Continued
<1>7. CASE th[t].kind # "cli"
    BY <1>2, <1>3, <1>7 DEF Continued, ComesToEnd, Ends
<1> QED
    BY <1>6, <1>7

LEMMA Continues ==
    ASSUME IInv, NEW t \in Threads, NEW a, th[t].pc = "sent", Continue(t, a),
           th[t].req = "run" => a # "running"
    PROVE  Continued(t, a)
<1>0. InPlace(th[t]) /\ th[t].result \in {"ok", "error", "killed"}
    BY Types DEF IInv, Places, Commands
<1>1. CASE th[t].req \in {"start", "run"}
    BY <1>0, <1>1, GoesContinues, EndsContinues DEF Continue, AfterStart, InPlace
<1>2. CASE th[t].req \in {"status", "kill"}
    BY <1>0, <1>2, GoesContinues DEF Continue, InPlace
<1>3. CASE th[t].req \in {"cleanup", "file", "ping"}
    BY <1>0, <1>3, EndsContinues DEF Continue, InPlace
<1> QED
    BY <1>0, <1>1, <1>2, <1>3 DEF InPlace

(***************************************************************************)
(* A thread is done with its request on c and gives the lock up: what      *)
(* Receive and Fail have in common.  The hypotheses about a are what the   *)
(* answer, or the lack of one, says about the agent.                       *)
(***************************************************************************)
Done(t, a, c) ==
    /\ Continued(t, a)
    /\ holder' = [holder EXCEPT ![c] = None]
    /\ UNCHANGED <<dirs, proc, canKill, made, row>>
    /\ open' \subseteq open /\ members' \subseteq members /\ open' \subseteq members'
    /\ open \subseteq open' \union {c}
    /\ stuck' \subseteq Conns /\ half' \subseteq Conns
    /\ Owing \intersect open' \subseteq Owing'
    /\ wire' \in [Conns -> Exchanges]
    /\ \A d \in Conns \ {c} : wire'[d] = wire[d]
    /\ wire'[c].by = None
    /\ wire'[c].req # "none" => wire'[c].req = "file" /\ c \in open' /\ c \in Owing'
    /\ wire'[c].over => wire'[c].req # "none"

Told(t, a, c) ==
    /\ th[t].req = "start" /\ a = "running" /\ c \in open' => th[t].xid \in dirs
    /\ th[t].req = "status" /\ a = "good" => proc[th[t].xid] = "good"
    /\ th[t].req = "kill" /\ c \in open' => proc[th[t].xid] # "running"
    /\ th[t].req = "cleanup" /\ c \in open' => th[t].xid \notin dirs

LEMMA DoneIInv ==
    ASSUME IInv, NEW t \in Threads, NEW a, th[t].pc = "sent",
           Done(t, a, th[t].conn), Told(t, a, th[t].conn)
    PROVE  IInv'
<1> DEFINE c == th[t].conn
<1>0. /\ th \in [Threads -> Commands] /\ th[t] \in Commands
      /\ holder \in [Conns -> Threads \union {None}] /\ holder[c] = t
      /\ ended \in [Xids -> Ends_] /\ made \in Nat
      /\ c \in Conns /\ t # None
    <2>1. th \in [Threads -> Commands] /\ holder \in [Conns -> Threads \union {None}]
          /\ ended \in [Xids -> Ends_] /\ made \in Nat
        BY Types DEF IInv
    <2>2. holder[c] = t /\ t # None
        BY Constant DEF IInv, ExchangeIsOwn
    <2>3. c \in Conns
        BY <2>1 DEF Commands, IInv, Places
    <2> QED
        BY <2>1, <2>2, <2>3
<1>1. TypeOK'
    <2>1. ended' \in [Xids -> Ends_]
        BY <1>0 DEF Done, Continued, GoesOn, ComesToEnd
    <2>2. holder' \in [Conns -> Threads \union {None}]
        BY <1>0 DEF Done
    <2>3. members' \subseteq Conns /\ open' \subseteq Conns
        BY DEF Done, IInv, TypeOK
    <2> QED
        BY <2>1, <2>2, <2>3 DEF Done, Continued, IInv, TypeOK, Commands, Exchanges, Ends_
<1>2. Places'
    <2>1. IF th'[t].pc = "idle" THEN th'[t] = Idle ELSE th'[t].conn # 0
        BY IdleIsCommand DEF Done, Continued, GoesOn, ComesToEnd, IInv, Places
    <2> QED
        BY <2>1 DEF Done, Continued, IInv, Places
<1>3. OneUse'
    <2>1. th'[t].xid \in {0, th[t].xid}
        BY IdleIsCommand DEF Done, Continued, GoesOn, ComesToEnd
    <2>2. \A x \in Xids : IF ended'[x].result = "no" THEN ended'[x].conn = 0 ELSE row[x] # "none"
        BY Constant DEF Done, Continued, GoesOn, ComesToEnd, IInv, OneUse
    <2>3. \A s \in Threads : th'[s].xid # 0 =>
              th'[s].xid = th[s].xid /\ ended'[th'[s].xid].result = "no"
        <3> SUFFICES ASSUME NEW s \in Threads, th'[s].xid # 0
                     PROVE  th'[s].xid = th[s].xid /\ ended'[th'[s].xid].result = "no"
            OBVIOUS
        <3>1. th'[s].xid = th[s].xid /\ th[s].xid \in Xids
            BY <1>0, <2>1 DEF Done, Continued, Commands
        <3>2. ended[th[s].xid].result = "no"
            BY <3>1, Constant DEF IInv, OneUse
        <3>3. s = t => ended' = ended
            BY IdleIsCommand DEF Done, Continued, GoesOn, ComesToEnd
        <3>4. s # t => th[s].xid # th[t].xid
            BY <3>1, Constant DEF IInv, OneUse
        <3> QED
            BY <3>1, <3>2, <3>3, <3>4 DEF Done, Continued, GoesOn, ComesToEnd
    <2>4. row' = row
        BY DEF Done
    <2> QED
        BY <2>2, <2>3, <2>4 DEF IInv, OneUse
<1>4. Generations'
    <2>1. th'[t].conn \in {0, th[t].conn}
        BY IdleIsCommand DEF Done, Continued, GoesOn, ComesToEnd
    <2>2. \A s \in Threads : th'[s].conn <= made
        BY <1>0, <2>1 DEF Done, Continued, IInv, Generations
    <2>3. \A x \in Xids : ended'[x].conn <= made
        BY <1>0 DEF Done, Continued, GoesOn, ComesToEnd, IInv, Generations
    <2> QED
        BY <2>2, <2>3 DEF Done, IInv, Generations
<1>5. ExchangeIsOwn'
    <2>1. \A d \in Conns : holder'[d] # None =>
              th'[holder'[d]].pc = "sent" /\ th'[holder'[d]].conn = d
        BY <1>0 DEF Done, Continued, IInv, ExchangeIsOwn
    <2>2. \A s \in Threads : th'[s].pc = "sent" => holder'[th'[s].conn] = s
        <3>1. th'[t].pc # "sent"
            BY IdleIsCommand DEF Done, Continued, GoesOn, ComesToEnd
        <3>2. ASSUME NEW s \in Threads \ {t}, th[s].pc = "sent"
              PROVE  holder'[th[s].conn] = s
            <4>1. holder[th[s].conn] = s /\ th[s].conn # c
                BY <1>0, <3>2 DEF IInv, ExchangeIsOwn
            <4> QED
                BY <1>0, <4>1 DEF Done
        <3> QED
            BY <3>1, <3>2 DEF Done, Continued
    <2>3. \A d \in Conns : wire'[d].by # None =>
              LET s == wire'[d].by IN
              holder'[d] = s /\ th'[s].req = wire'[d].req /\ th'[s].xid = wire'[d].xid
        <3> SUFFICES ASSUME NEW d \in Conns, wire'[d].by # None
                     PROVE  LET s == wire'[d].by IN
                            holder'[d] = s /\ th'[s].req = wire'[d].req /\ th'[s].xid = wire'[d].xid
            OBVIOUS
        <3>1. d # c /\ wire'[d] = wire[d]
            BY DEF Done
        <3>2. holder[d] = wire[d].by /\ holder'[d] = holder[d]
            BY <1>0, <3>1 DEF Done, IInv, ExchangeIsOwn
        <3>3. wire[d].by \in Threads \ {t}
            BY <1>0, <3>1, <3>2 DEF IInv, ExchangeIsOwn
        <3> QED
            BY <3>1, <3>2, <3>3 DEF Done, Continued, IInv, ExchangeIsOwn
    <2> QED
        BY <2>1, <2>2, <2>3 DEF ExchangeIsOwn
<1>6. Wires'
    <2> SUFFICES ASSUME NEW d \in Conns PROVE Wire(d)'
        BY DEF Wires
    <2>1. CASE d = c
        BY <2>1 DEF Done, Wire
    <2>2. CASE d # c
        BY <2>2 DEF Done, IInv, Wires, Wire
    <2> QED
        BY <2>1, <2>2
<1>7. Knowledge'
    <2> SUFFICES ASSUME NEW s \in Threads PROVE Knows(s)'
        BY DEF Knowledge
    <2>1. CASE s # t
        BY <2>1 DEF Done, Continued, IInv, Knowledge, Knows
    <2>2. CASE s = t /\ ComesToEnd(t)
        BY <2>2, IdleIsCommand DEF ComesToEnd, Knows
    <2>3. CASE s = t /\ GoesOn(t, a)
        <3>1. th'[t].conn = c /\ th'[t].xid = th[t].xid
            BY <2>3 DEF GoesOn
        <3>2. CASE th'[t].req = "status"
            BY <2>3, <3>1, <3>2 DEF GoesOn, Told, Done, IInv, Knowledge, Knows
        <3>3. CASE th'[t].req = "cleanup"
            BY <2>3, <3>1, <3>3 DEF GoesOn, Told, Done, Knows
        <3> QED
            BY <2>3, <3>2, <3>3 DEF GoesOn
    <2> QED
        BY <2>1, <2>2, <2>3 DEF Done, Continued
<1>8. FailureIsReported' /\ LeavesNothing'
    <2> SUFFICES ASSUME NEW x \in Xids
                 PROVE  /\ ended'[x].result = "ok" /\ ended'[x].polled => proc[x] = "good"
                        /\ ended'[x].polled /\ ended'[x].conn \in open' => x \notin dirs
                        /\ ended'[x].result = "killed" /\ ended'[x].conn \in open' => proc[x] # "running"
        BY DEF Done, FailureIsReported, LeavesNothing, EndedIsCleaned, TimedOutIsStopped
    <2>1. CASE ended'[x] = ended[x]
        BY <2>1 DEF Done, IInv, FailureIsReported, LeavesNothing, EndedIsCleaned, TimedOutIsStopped
    <2>2. CASE ended'[x] # ended[x] /\ th[t].req = "cleanup"
        <3>1. x = th[t].xid /\ ended'[x].conn = c
              /\ (ended'[x].result \in {"ok", "killed"} => th[t].result = ended'[x].result)
            BY <2>2 DEF Done, Continued, GoesOn, ComesToEnd
        <3> QED
            BY <2>2, <3>1 DEF Told, Done, IInv, Knowledge, Knows
    <2>3. CASE ended'[x] # ended[x] /\ th[t].req # "cleanup"
        <3>1. ended'[x].conn = 0 /\ ended'[x].polled = FALSE /\ ended'[x].result # "killed"
            BY <2>3 DEF Done, Continued, GoesOn, ComesToEnd
        <3> QED
            BY <3>1
    <2> QED
        BY <2>1, <2>2, <2>3
<1> QED
    BY <1>1, <1>2, <1>3, <1>4, <1>5, <1>6, <1>7, <1>8 DEF IInv

-----------------------------------------------------------------------------
LEMMA Removed ==
    ASSUME IInv, NEW c, RemoveAgent(c)
    PROVE  /\ c \notin open' /\ open' \subseteq open /\ members' \subseteq members
           /\ open' \subseteq members' /\ open \subseteq open' \union {c}
BY DEF RemoveAgent, IInv, Generations

LEMMA SentPlace ==
    ASSUME IInv, NEW t \in Threads, th[t].pc = "sent"
    PROVE  /\ InPlace(th[t]) /\ th[t].conn \in Conns /\ holder[th[t].conn] = t
           /\ wire \in [Conns -> Exchanges] /\ Wire(th[t].conn)
BY Types DEF IInv, Places, Commands, ExchangeIsOwn, Wires

LEMMA ReceiveIInv ==
    ASSUME IInv, NEW t \in Threads, Receive(t)
    PROVE  IInv'
<1> DEFINE c == th[t].conn
           a == IF wire[c].ans = "refused" THEN "error" ELSE wire[c].ans
<1>0. /\ InPlace(th[t]) /\ c \in Conns /\ Wire(c) /\ wire \in [Conns -> Exchanges]
      /\ th[t].pc = "sent" /\ wire[c].by = t /\ wire[c].ans # "none"
      /\ Continue(t, a)
    BY SentPlace DEF Receive
<1>1. wire[c].req = th[t].req /\ wire[c].xid = th[t].xid
    BY <1>0, Constant DEF IInv, ExchangeIsOwn
<1>2. Continued(t, a)
    BY <1>0, <1>1, Continues DEF Wire
<1>3. /\ open' \subseteq open /\ members' \subseteq members
      /\ open' \subseteq members' /\ open \subseteq open' \union {c}
      /\ wire[c].ans = "refused" => c \notin open'
    BY Removed DEF Receive, OnRefusal, KeepAgent, IInv, Generations
<1>4. /\ wire' \in [Conns -> Exchanges] /\ wire'[c] = NoRequest
      /\ \A d \in Conns \ {c} : wire'[d] = wire[d]
    BY <1>0, NoRequestIsExchange DEF Receive
<1>5. Done(t, a, c)
    BY <1>2, <1>3, <1>4, NoRequestIsExchange DEF Done, Receive, Owing, IInv, TypeOK
<1>6. Told(t, a, c)
    BY <1>0, <1>1, <1>3 DEF Told, Wire
<1> QED
    BY <1>0, <1>5, <1>6, DoneIInv

LEMMA FailIInv ==
    ASSUME IInv, NEW t \in Threads, Fail(t)
    PROVE  IInv'
<1> DEFINE c == th[t].conn
<1>0. /\ InPlace(th[t]) /\ c \in Conns /\ Wire(c) /\ wire \in [Conns -> Exchanges]
      /\ th[t].pc = "sent" /\ holder[c] = t
    BY SentPlace DEF Fail
<1>1. Continued(t, "error")
    BY <1>0, Continues DEF Fail
<1>2. /\ open' \subseteq open /\ members' \subseteq members
      /\ open' \subseteq members' /\ open \subseteq open' \union {c}
      /\ th[t].kind # "file" => c \notin open'
    BY Removed DEF Fail, Removes, KeepAgent, IInv, Generations
<1>3. /\ stuck' \subseteq Conns /\ half' \subseteq Conns
      /\ Owing \intersect open' \subseteq Owing'
      /\ c \in open' /\ wire[c].by = t => c \in Owing'
    BY <1>0 DEF Fail, Unread, Owing, IInv, TypeOK
<1>4. wire[c].by \in {t, None}
    BY <1>0 DEF IInv, ExchangeIsOwn
<1>5. /\ wire' \in [Conns -> Exchanges]
      /\ \A d \in Conns \ {c} : wire'[d] = wire[d]
      /\ wire'[c].by = None
      /\ wire'[c].req # "none" => wire'[c].req = "file" /\ c \in open' /\ c \in Owing'
      /\ wire'[c].over => wire'[c].req # "none"
    <2>1. CASE c \in open' /\ wire[c].by # t
        BY <1>0, <1>3, <1>4, <2>1 DEF Fail, Wire
    <2>2. CASE c \in open' /\ wire[c].by = t
        <3>1. wire' = [wire EXCEPT ![c].by = None]
            BY <2>2 DEF Fail
        <3>2. /\ wire' \in [Conns -> Exchanges]
              /\ \A d \in Conns \ {c} : wire'[d] = wire[d]
              /\ wire'[c].by = None /\ wire'[c].req = wire[c].req
              /\ wire'[c].over = wire[c].over
            BY <1>0, <3>1 DEF Exchanges
        <3>3. wire[c].req = th[t].req /\ th[t].kind = "file"
            <4>1. th[t].kind = "file"
                BY <1>2, <2>2
            <4>2. wire[c].by = t /\ t # None
                BY <2>2, Constant
            <4>3. wire[c].req = th[t].req
                BY <1>0, <4>2 DEF IInv, ExchangeIsOwn
            <4> QED
                BY <4>1, <4>3
        <3> QED
            BY <1>0, <1>2, <1>3, <2>2, <3>2, <3>3 DEF InPlace
    <2>3. CASE c \notin open'
        BY <1>0, <2>3, NoRequestIsExchange DEF Fail
    <2> QED
        BY <2>1, <2>2, <2>3
<1>6. Done(t, "error", c)
    BY <1>1, <1>2, <1>3, <1>5 DEF Done, Fail, Unlock
<1>7. Told(t, "error", c)
    BY <1>0, <1>2 DEF Told, InPlace
<1> QED
    BY <1>0, <1>6, <1>7, DoneIInv

-----------------------------------------------------------------------------
(***************************************************************************)
(* A step of a thread that neither sends nor waits for an answer.          *)
(***************************************************************************)
LEMMA MovesIInv ==
    ASSUME IInv, NEW t \in Threads, NEW l \in Commands,
           th' = [th EXCEPT ![t] = l],
           UNCHANGED <<members, open, stuck, half, holder, wire, dirs, proc, canKill, made, row, ended>>,
           th[t].pc # "sent", l.pc \in {"ready", "loop"}, InPlace(l),
           l.conn \in Conns, l.conn <= made, l.xid = th[t].xid,
           Knows(t)'
    PROVE  IInv'
<1>0. /\ th \in [Threads -> Commands] /\ th' \in [Threads -> Commands]
      /\ th'[t] = l /\ \A s \in Threads \ {t} : th'[s] = th[s]
    BY Types DEF IInv
<1>1. TypeOK'
    BY <1>0 DEF IInv, TypeOK, Commands
<1>2. Places'
    BY <1>0, Constant DEF IInv, Places
<1>3. OneUse'
    BY <1>0 DEF IInv, OneUse
<1>4. Generations'
    BY <1>0 DEF IInv, Generations
<1>5. ExchangeIsOwn'
    <2>1. \A d \in Conns : holder[d] # t
        BY Constant DEF IInv, ExchangeIsOwn
    <2>2. \A d \in Conns : wire[d].by # t
        BY <2>1, Constant DEF IInv, ExchangeIsOwn
    <2>3. \A d \in Conns : holder[d] \in Threads \union {None} /\ wire[d].by \in Threads \union {None}
        BY Types DEF IInv, Exchanges
    <2> QED
        BY <1>0, <2>1, <2>2, <2>3 DEF IInv, ExchangeIsOwn
<1>6. Wires'
    BY DEF IInv, Wires, Wire, Owing
<1>7. Knowledge'
    <2> SUFFICES ASSUME NEW s \in Threads PROVE Knows(s)'
        BY DEF Knowledge
    <2>1. s # t => th'[s] = th[s]
        BY <1>0
    <2> QED
        BY <2>1 DEF IInv, Knowledge, Knows
<1>8. FailureIsReported' /\ LeavesNothing'
    BY DEF IInv, FailureIsReported, LeavesNothing, EndedIsCleaned, TimedOutIsStopped
<1> QED
    BY <1>1, <1>2, <1>3, <1>4, <1>5, <1>6, <1>7, <1>8 DEF IInv

LEMMA BeginIInv ==
    ASSUME IInv, NEW t \in Threads, NEW k \in Kinds, Begin(t, k)
    PROVE  IInv'
<1>1. PICK c \in members :
          th' = [th EXCEPT ![t] = [Idle EXCEPT !.pc = "ready", !.kind = k,
                                               !.req = FirstRequest(k), !.conn = c]]
    BY DEF Begin
<1> DEFINE l == [Idle EXCEPT !.pc = "ready", !.kind = k, !.req = FirstRequest(k), !.conn = c]
<1>2. c \in Conns /\ c <= made
    BY DEF IInv, TypeOK, Generations
<1>3. /\ l \in Commands /\ l.pc = "ready" /\ l.kind = k /\ l.req = FirstRequest(k)
      /\ l.conn = c /\ l.xid = 0
    BY <1>2, IdleIsCommand DEF Commands, FirstRequest, Kinds, Requests, Idle
<1> HIDE DEF l
<1>4. InPlace(l) /\ l.req \notin {"status", "cleanup"}
    BY <1>3 DEF InPlace, FirstRequest, Kinds
<1>5. th[t].xid = 0
    BY IdleIsCommand DEF Begin, IInv, Places
<1>6. th'[t] = l
    BY <1>1, Types DEF l, IInv
<1>7. Knows(t)'
    BY <1>4, <1>6 DEF Knows
<1> QED
    BY <1>1, <1>2, <1>3, <1>4, <1>5, <1>7, MovesIInv DEF Begin, l

\* The top of the loop: the command goes on, is killed, or finds the agent gone.
LEMMA LoopIInv ==
    ASSUME IInv, NEW t \in Threads, Loop(t) \/ TimesOut(t)
    PROVE  IInv'
<1>0. /\ th[t] \in Commands /\ th[t].pc = "loop" /\ th[t].kind = "cli" /\ th[t].req = "status"
      /\ th[t].xid # 0 /\ th[t].conn \in Conns /\ th[t].conn <= made
      /\ th \in [Threads -> Commands]
    BY Types DEF IInv, Places, InPlace, Loop, TimesOut, Commands, Generations
<1>1. ASSUME NEW l \in Commands, th' = [th EXCEPT ![t] = l],
             UNCHANGED <<members, open, stuck, half, holder, wire, dirs, proc, canKill, made, row, ended>>,
             l.pc = "ready", l.kind = "cli", l.conn = th[t].conn, l.xid = th[t].xid,
             l.req \in {"status", "kill"} \/ (l.req = "cleanup" /\ l.result = "error")
      PROVE  IInv'
    <2>1. InPlace(l) /\ l.pc \in {"ready", "loop"}
        BY <1>0, <1>1 DEF InPlace
    <2>2. th'[t] = l
        BY <1>0, <1>1
    <2>3. Knows(t)'
        BY <1>0, <1>1, <2>2 DEF Knows, IInv, Knowledge
    <2> QED
        BY <1>0, <1>1, <2>1, <2>3, MovesIInv
<1>2. CASE TimesOut(t)
    <2> DEFINE l == [th[t] EXCEPT !.pc = "ready", !.req = "kill"]
    <2>1. th' = [th EXCEPT ![t] = l]
        BY <1>0, <1>2 DEF TimesOut
    <2>2. l \in Commands /\ l.pc = "ready" /\ l.kind = "cli" /\ l.conn = th[t].conn
          /\ l.xid = th[t].xid /\ l.req = "kill"
        BY <1>0 DEF Commands, Requests
    <2> QED
        BY <1>1, <1>2, <2>1, <2>2 DEF TimesOut
<1>3. CASE Loop(t) /\ th[t].conn \in members
    <2> DEFINE l == [th[t] EXCEPT !.pc = "ready"]
    <2>1. th' = [th EXCEPT ![t] = l] /\ ended' = ended
        BY <1>0, <1>3 DEF Loop
    <2>2. l \in Commands /\ l.pc = "ready" /\ l.kind = "cli" /\ l.conn = th[t].conn
          /\ l.xid = th[t].xid /\ l.req = "status"
        BY <1>0 DEF Commands
    <2> QED
        BY <1>1, <1>3, <2>1, <2>2 DEF Loop
<1>4. CASE Loop(t) /\ th[t].conn \notin members
    <2> DEFINE l == [th[t] EXCEPT !.pc = "ready", !.req = "cleanup", !.result = "error"]
    <2>1. th' = [th EXCEPT ![t] = l] /\ ended' = ended
        BY <1>0, <1>4 DEF Loop, Goes
    <2>2. l \in Commands /\ l.pc = "ready" /\ l.kind = "cli" /\ l.conn = th[t].conn
          /\ l.xid = th[t].xid /\ l.req = "cleanup" /\ l.result = "error"
        BY <1>0 DEF Commands, Requests
    <2> QED
        BY <1>1, <1>4, <2>1, <2>2 DEF Loop
<1> QED
    BY <1>2, <1>3, <1>4

(***************************************************************************)
(* A request is sent.  An xid begins here, with no command but this one.   *)
(***************************************************************************)
LEMMA SendPlace ==
    ASSUME IInv, NEW t \in Threads, Send(t)
    PROVE  /\ th \in [Threads -> Commands] /\ th[t] \in Commands
           /\ th[t].pc = "ready" /\ InPlace(th[t])
           /\ th[t].conn \in Conns /\ holder[th[t].conn] = None /\ t # None
           /\ wire \in [Conns -> Exchanges]
           /\ holder \in [Conns -> Threads \union {None}]
BY Types, Constant DEF IInv, Places, Commands, Send, Locks

\* A request goes out behind another one only on a connection that owes an answer.
LEMMA BehindOwing ==
    ASSUME IInv, NEW t \in Threads, Send(t), wire[th[t].conn].req # "none"
    PROVE  th[t].conn \in Owing
<1>1. wire[th[t].conn].by = None
    BY SendPlace DEF IInv, ExchangeIsOwn
<1> QED
    BY <1>1, SendPlace DEF IInv, Wires, Wire

LEMMA SendIInv ==
    ASSUME IInv, NEW t \in Threads, Send(t)
    PROVE  IInv'
<1> DEFINE c == th[t].conn
<1>1. PICK x \in Xids \union {0} :
          /\ RowFor(t, x)
          /\ th' = [th EXCEPT ![t].pc = "sent", ![t].xid = x]
          /\ wire' = IF c \in open \ stuck
                     THEN [wire EXCEPT ![c] = [req |-> th[t].req, xid |-> x, by |-> t, ans |-> "none",
                                               over |-> wire[c].req # "none"]]
                     ELSE wire
    BY DEF Send
<1> DEFINE l == [th[t] EXCEPT !.pc = "sent", !.xid = x]
           w == [req |-> th[t].req, xid |-> x, by |-> t, ans |-> "none",
                 over |-> wire[c].req # "none"]
<1>2. /\ th \in [Threads -> Commands] /\ th[t] \in Commands
      /\ th[t].pc = "ready" /\ InPlace(th[t])
      /\ c \in Conns /\ holder[c] = None /\ t # None
      /\ wire \in [Conns -> Exchanges]
      /\ holder \in [Conns -> Threads \union {None}]
    BY SendPlace
<1>3. /\ l \in Commands /\ l.pc = "sent" /\ l.kind = th[t].kind /\ l.req = th[t].req
      /\ l.conn = c /\ l.xid = x /\ l.result = th[t].result
    BY <1>2 DEF Commands
<1>4. th' = [th EXCEPT ![t] = l]
    BY <1>1, <1>2
<1>5. /\ w \in Exchanges /\ w.req = th[t].req /\ w.xid = x /\ w.by = t /\ w.ans = "none"
      /\ w.over => c \in Owing
    BY <1>2, BehindOwing DEF Exchanges, Commands, Answers
<1>6. wire' = IF c \in open \ stuck THEN [wire EXCEPT ![c] = w] ELSE wire
    BY <1>1
<1> HIDE DEF l, w
<1>7. /\ th' \in [Threads -> Commands] /\ th'[t] = l
      /\ \A s \in Threads \ {t} : th'[s] = th[s]
    BY <1>2, <1>3, <1>4
<1>8. /\ wire' \in [Conns -> Exchanges]
      /\ \A d \in Conns : wire'[d] = wire[d] \/ (d = c /\ wire'[d] = w /\ c \in open)
    BY <1>2, <1>5, <1>6
<1>9. /\ holder' \in [Conns -> Threads \union {None}] /\ holder'[c] = t
      /\ \A d \in Conns \ {c} : holder'[d] = holder[d]
    BY <1>2 DEF Send, Locks
<1>10. UNCHANGED <<members, open, stuck, half, dirs, proc, canKill, made, ended>>
    BY DEF Send
<1>11. \/ /\ th[t].req \in {"start", "run"} /\ x \in Xids /\ row[x] = "none"
          /\ row' = [row EXCEPT ![x] = "started"]
       \/ /\ th[t].req = "cleanup" /\ x = th[t].xid /\ x \in Xids
          /\ row' = [row EXCEPT ![x] = "finished"]
       \/ th[t].req \notin {"start", "run"} /\ x = th[t].xid /\ row' = row
    BY <1>1, <1>2 DEF RowFor, Fresh, InPlace, Commands
<1>12. row' \in [Xids -> {"none", "started", "finished"}]
       /\ (\A y \in Xids : row[y] # "none" => row'[y] # "none")
       /\ (x # 0 => row'[x] # "none" /\ ended[x].result = "no"
                    /\ \A s \in Threads \ {t} : th[s].xid # x)
    <2>1. row \in [Xids -> {"none", "started", "finished"}]
        BY DEF IInv, TypeOK
    <2>2. CASE th[t].req \in {"start", "run"} /\ x \in Xids /\ row[x] = "none"
               /\ row' = [row EXCEPT ![x] = "started"]
        BY <2>1, <2>2, Constant DEF IInv, OneUse
    <2>3. CASE th[t].req = "cleanup" /\ x = th[t].xid /\ x \in Xids
               /\ row' = [row EXCEPT ![x] = "finished"]
        BY <2>1, <2>3 DEF IInv, OneUse
    <2>4. CASE x = th[t].xid /\ row' = row
        BY <2>1, <2>4 DEF IInv, OneUse
    <2> QED
        BY <1>11, <2>2, <2>3, <2>4
<1>13. InPlace(l)
    BY <1>2, <1>3, <1>11, Constant DEF InPlace
<1>a. TypeOK'
    BY <1>7, <1>8, <1>9, <1>10, <1>12 DEF IInv, TypeOK, Commands, Exchanges
<1>b. Places'
    BY <1>2, <1>3, <1>7, <1>13, Constant DEF IInv, Places
<1>c. OneUse'
    <2>1. \A s \in Threads : th'[s].xid # 0 =>
              row'[th'[s].xid] # "none" /\ ended[th'[s].xid].result = "no"
        BY <1>2, <1>3, <1>7, <1>12 DEF IInv, OneUse, Commands
    <2>2. \A r, s \in Threads : r # s /\ th'[r].xid # 0 => th'[r].xid # th'[s].xid
        BY <1>3, <1>7, <1>12 DEF IInv, OneUse
    <2>3. \A y \in Xids : IF ended[y].result = "no" THEN ended[y].conn = 0 ELSE row'[y] # "none"
        BY <1>12 DEF IInv, OneUse
    <2> QED
        BY <1>10, <2>1, <2>2, <2>3 DEF OneUse
<1>d. Generations'
    BY <1>3, <1>7, <1>10 DEF IInv, Generations
<1>e. ExchangeIsOwn'
    <2>1. \A d \in Conns : holder[d] # t /\ wire[d].by # t
        BY <1>2, Constant DEF IInv, ExchangeIsOwn
    <2>2. \A d \in Conns : holder'[d] # None =>
              th'[holder'[d]].pc = "sent" /\ th'[holder'[d]].conn = d
        BY <1>2, <1>3, <1>7, <1>9, <2>1 DEF IInv, ExchangeIsOwn
    <2>3. \A s \in Threads : th'[s].pc = "sent" => holder'[th'[s].conn] = s
        <3> SUFFICES ASSUME NEW s \in Threads, s # t, th[s].pc = "sent"
                     PROVE  holder'[th[s].conn] = s
            BY <1>3, <1>7, <1>9
        <3>1. holder[th[s].conn] = s /\ th[s].conn \in Conns /\ s # None
            BY <1>2, Constant DEF IInv, ExchangeIsOwn, Places, Commands
        <3> QED
            BY <1>2, <1>9, <3>1
    <2>4. \A d \in Conns : wire'[d].by # None =>
              LET s == wire'[d].by IN
              holder'[d] = s /\ th'[s].req = wire'[d].req /\ th'[s].xid = wire'[d].xid
        <3> SUFFICES ASSUME NEW d \in Conns, wire'[d].by # None
                     PROVE  LET s == wire'[d].by IN
                            holder'[d] = s /\ th'[s].req = wire'[d].req /\ th'[s].xid = wire'[d].xid
            OBVIOUS
        <3>1. CASE wire'[d] = wire[d]
            <4>1. holder[d] = wire[d].by /\ wire[d].by \in Threads \ {t} /\ d # c
                BY <1>2, <2>1, <3>1 DEF IInv, ExchangeIsOwn
            <4> QED
                BY <1>7, <1>9, <3>1, <4>1 DEF IInv, ExchangeIsOwn
        <3>2. CASE d = c /\ wire'[d] = w
            BY <1>3, <1>5, <1>7, <1>9, <3>2
        <3> QED
            BY <1>8, <3>1, <3>2
    <2> QED
        BY <2>2, <2>3, <2>4 DEF ExchangeIsOwn
<1>f. Wires'
    <2> SUFFICES ASSUME NEW d \in Conns PROVE Wire(d)'
        BY DEF Wires
    <2>1. CASE wire'[d] = wire[d]
        BY <1>10, <2>1 DEF IInv, Wires, Wire, Owing
    <2>2. CASE d = c /\ wire'[d] = w /\ c \in open
        BY <1>2, <1>5, <1>10, <2>2, Constant DEF Wire, Owing, InPlace
    <2> QED
        BY <1>8, <2>1, <2>2
<1>g. Knowledge'
    <2> SUFFICES ASSUME NEW s \in Threads PROVE Knows(s)'
        BY DEF Knowledge
    <2>1. CASE s # t
        BY <1>7, <1>10, <2>1 DEF IInv, Knowledge, Knows
    <2>2. CASE s = t /\ th[t].req \in {"start", "run"}
        BY <1>3, <1>7, <2>2 DEF Knows
    <2>3. CASE s = t /\ x = th[t].xid
        BY <1>3, <1>7, <1>10, <2>3 DEF IInv, Knowledge, Knows
    <2> QED
        BY <1>11, <2>1, <2>2, <2>3
<1>h. FailureIsReported' /\ LeavesNothing'
    BY <1>10 DEF IInv, FailureIsReported, LeavesNothing, EndedIsCleaned, TimedOutIsStopped
<1> QED
    BY <1>a, <1>b, <1>c, <1>d, <1>e, <1>f, <1>g, <1>h DEF IInv

-----------------------------------------------------------------------------
(***************************************************************************)
(* The agent answers the request on c, of the thread that waits for it.    *)
(* What it changes is of this thread's xid, and nobody else's.             *)
(***************************************************************************)
Answered(c, a) ==
    LET w == wire[c] IN
    /\ a \in Answers
    /\ wire' = [wire EXCEPT ![c].ans = a]
    /\ dirs' \subseteq Xids
    /\ proc' \in [Xids -> {"none", "running", "good", "bad"}]
    /\ \A x \in Xids \ {w.xid} : proc'[x] = proc[x] /\ (x \in dirs' <=> x \in dirs)
    /\ w.req \notin {"start", "run"} =>
          \A x \in Xids : /\ proc[x] = "good" => proc'[x] = "good"
                          /\ proc[x] # "running" => proc'[x] # "running"
    /\ w.req # "cleanup" => dirs \subseteq dirs'
    /\ w.req \in {"status", "file", "ping"} => dirs' = dirs /\ proc' = proc
    /\ w.req = "kill" => dirs' = dirs
    /\ w.req = "cleanup" => a = "ok" /\ w.xid \notin dirs'
    /\ w.req = "start" => w.xid \in dirs'
    /\ w.req = "run" => a # "running" /\ dirs' = dirs
    /\ w.req = "status" /\ a = "good" => proc[w.xid] = "good"
    /\ w.req = "kill" /\ a # "refused" => proc'[w.xid] # "running"

\* The thread and the place of the request an agent is at.
LEMMA AnswerPlace ==
    ASSUME IInv, NEW c \in Conns, wire[c].req # "none", wire[c].ans = "none"
    PROVE  \/ wire[c].req = "file"
           \/ LET t == wire[c].by IN
              /\ t \in Threads /\ th[t].pc = "sent" /\ th[t].conn = c /\ InPlace(th[t])
              /\ th[t].req = wire[c].req /\ th[t].xid = wire[c].xid
              /\ wire[c].req # "ping" => wire[c].xid \in Xids
<1> SUFFICES ASSUME wire[c].req # "file"
             PROVE  LET t == wire[c].by IN
                    /\ t \in Threads /\ th[t].pc = "sent" /\ th[t].conn = c /\ InPlace(th[t])
                    /\ th[t].req = wire[c].req /\ th[t].xid = wire[c].xid
                    /\ wire[c].req # "ping" => wire[c].xid \in Xids
    OBVIOUS
<1>1. wire[c] \in Exchanges /\ Wire(c)
    BY Types DEF IInv, Wires
<1>2. wire[c].by \in Threads /\ wire[c].by # None
    BY <1>1 DEF Wire, Exchanges
<1> DEFINE t == wire[c].by
<1>3. holder[c] = t /\ th[t].req = wire[c].req /\ th[t].xid = wire[c].xid
    BY <1>2 DEF IInv, ExchangeIsOwn
<1>4. th[t].pc = "sent" /\ th[t].conn = c /\ InPlace(th[t])
    BY <1>2, <1>3 DEF IInv, ExchangeIsOwn, Places
<1>5. wire[c].req # "ping" => wire[c].xid \in Xids
    BY <1>1, <1>3, <1>4 DEF InPlace, Exchanges
<1> QED
    BY <1>2, <1>3, <1>4, <1>5

LEMMA AgentAnswered ==
    ASSUME IInv, NEW c \in Conns, AgentAnswers(c)
    PROVE  wire[c].req # "none" /\ \E a : Answered(c, a)
<1>0. /\ wire[c].ans = "none"
      /\ proc \in [Xids -> {"none", "running", "good", "bad"}] /\ dirs \subseteq Xids
    BY DEF AgentAnswers, IInv, TypeOK
<1>p. wire[c].req \in {"start", "run", "status", "kill", "cleanup"} => wire[c].xid \in Xids
    BY <1>0, AnswerPlace
<1> DEFINE x == wire[c].xid
<1>1. CASE AnswerStart(c)
    <2>1. PICK status \in {"good", "bad"} \union (IF wire[c].req = "start" THEN {"running"} ELSE {}) :
              Answer(c, status) /\ proc' = [proc EXCEPT ![wire[c].xid] = status]
        BY <1>1 DEF AnswerStart
    <2>2. /\ wire[c].req \in {"start", "run"} /\ x \in Xids
          /\ dirs' = IF wire[c].req = "start" THEN dirs \union {x} ELSE dirs
        BY <1>1, <1>p DEF AnswerStart
    <2>3. Answered(c, status)
        BY <1>0, <2>1, <2>2 DEF Answered, Answer, Answers
    <2> QED
        BY <2>2, <2>3
<1>2. CASE AnswerStatus(c)
    <2>1. Answered(c, proc[x])
        BY <1>0, <1>2, <1>p DEF Answered, AnswerStatus, Answer, Answers
    <2> QED
        BY <1>2, <2>1 DEF AnswerStatus
<1>3. CASE AnswerKill(c)
    <2>1. Answered(c, IF canKill THEN "ok" ELSE "refused")
        BY <1>0, <1>3, <1>p DEF Answered, AnswerKill, Answer, Answers
    <2> QED
        BY <1>3, <2>1 DEF AnswerKill
<1>4. CASE AnswerCleanup(c)
    <2>1. Answered(c, "ok")
        BY <1>0, <1>4, <1>p DEF Answered, AnswerCleanup, Answer, Answers
    <2> QED
        BY <1>4, <2>1 DEF AnswerCleanup
<1>5. CASE AnswerOther(c)
    <2>1. Answered(c, "ok")
        BY <1>0, <1>5 DEF Answered, AnswerOther, Answer, Answers
    <2> QED
        BY <1>5, <2>1 DEF AnswerOther
<1> QED
    BY <1>1, <1>2, <1>3, <1>4, <1>5 DEF AgentAnswers

LEMMA AnswerIInv ==
    ASSUME IInv, NEW c \in Conns, AgentAnswers(c)
    PROVE  IInv'
<1>1. PICK a : Answered(c, a)
    BY AgentAnswered
<1> DEFINE x == wire[c].xid
           w == [wire[c] EXCEPT !.ans = a]
<1>2. /\ wire \in [Conns -> Exchanges] /\ wire[c] \in Exchanges /\ wire[c].ans = "none"
      /\ c \in open /\ wire[c].req # "none"
    BY Types, AgentAnswered DEF IInv, AgentAnswers
<1>3. /\ w \in Exchanges /\ w.req = wire[c].req /\ w.xid = x /\ w.by = wire[c].by /\ w.ans = a
      /\ w.over = wire[c].over
    BY <1>1, <1>2 DEF Exchanges, Answered
<1>4. wire' = [wire EXCEPT ![c] = w]
    BY <1>1, <1>2 DEF Answered
<1> HIDE DEF w
<1>5. /\ wire' \in [Conns -> Exchanges] /\ wire'[c] = w
      /\ \A d \in Conns \ {c} : wire'[d] = wire[d]
    BY <1>2, <1>3, <1>4
<1>6. UNCHANGED <<members, open, stuck, half, holder, canKill, th, made, row, ended>>
    BY DEF AgentAnswers
\* A file request and a ping change nothing; other requests have a thread.
<1>7. \/ dirs' = dirs /\ proc' = proc
      \/ /\ wire[c].by \in Threads /\ x \in Xids
         /\ th[wire[c].by].pc = "sent" /\ th[wire[c].by].conn = c
         /\ th[wire[c].by].req = wire[c].req /\ th[wire[c].by].xid = x
    BY <1>1, <1>2, AnswerPlace DEF Answered
\* Nothing of another xid changes, and no command of this one has ended.
<1>8. \A y \in Xids : \/ y # x /\ proc'[y] = proc[y] /\ (y \in dirs' <=> y \in dirs)
                      \/ y = x /\ dirs' = dirs /\ proc' = proc
                      \/ y = x /\ ended[y].result = "no" /\ ended[y].conn = 0
    BY <1>1, <1>7, Constant DEF Answered, IInv, OneUse
<1>9. \A s \in Threads : th[s].xid # x \/ s = wire[c].by \/ (dirs' = dirs /\ proc' = proc)
    BY <1>7, Constant DEF IInv, OneUse
<1>a. TypeOK'
    BY <1>1, <1>5, <1>6 DEF Answered, IInv, TypeOK, Exchanges
<1>b. Places' /\ OneUse' /\ Generations'
    BY <1>6 DEF IInv, Places, OneUse, Generations
<1>c. ExchangeIsOwn'
    <2>1. \A d \in Conns : wire'[d].by = wire[d].by /\ wire'[d].req = wire[d].req
                           /\ wire'[d].xid = wire[d].xid
        BY <1>3, <1>5
    <2> QED
        BY <1>6, <2>1 DEF IInv, ExchangeIsOwn
<1>d. Wires'
    <2> SUFFICES ASSUME NEW d \in Conns PROVE Wire(d)'
        BY DEF Wires
    <2>1. CASE d = c
        <3>1. wire[c].req = "file" \/ wire[c].by # None
            BY <1>2 DEF IInv, Wires, Wire
        <3>2. /\ wire[c].by = None => c \in Owing
              /\ wire[c].over => c \in Owing
            BY <1>2 DEF IInv, Wires, Wire
        <3>3. Owing' = Owing
            BY <1>6 DEF Owing
        <3> QED
            BY <1>1, <1>2, <1>3, <1>5, <1>6, <2>1, <3>1, <3>2, <3>3 DEF Answered, Wire
    <2>2. CASE d # c /\ wire[d].req \notin {"start", "status", "kill", "cleanup"}
        BY <1>5, <1>6, <2>2 DEF IInv, Wires, Wire, Owing
    <2>3. CASE d # c /\ wire[d].req \in {"start", "status", "kill", "cleanup"}
        <3>1. wire[d].by # None /\ wire[d] \in Exchanges
            BY <1>2, <2>3 DEF IInv, Wires, Wire
        <3>2. holder[d] = wire[d].by /\ th[wire[d].by].req = wire[d].req
              /\ th[wire[d].by].xid = wire[d].xid /\ wire[d].by \in Threads
            BY <3>1 DEF IInv, ExchangeIsOwn, Exchanges
        <3>3. th[wire[d].by].pc = "sent" /\ th[wire[d].by].conn = d
            BY <3>1, <3>2 DEF IInv, ExchangeIsOwn
        <3>4. wire[d].xid \in Xids
            BY <2>3, <3>1, <3>2, <3>3 DEF IInv, Places, InPlace, Exchanges
        <3>5. \/ dirs' = dirs /\ proc' = proc
              \/ wire[d].xid # x
            BY <1>7, <1>9, <2>3, <3>2, <3>3
        <3>6. /\ proc'[wire[d].xid] = proc[wire[d].xid]
              /\ wire[d].xid \in dirs' <=> wire[d].xid \in dirs
            BY <1>1, <3>4, <3>5 DEF Answered
        <3> QED
            BY <1>5, <1>6, <2>3, <3>6 DEF IInv, Wires, Wire, Owing
    <2> QED
        BY <2>1, <2>2, <2>3
<1>e. Knowledge'
    <2> SUFFICES ASSUME NEW s \in Threads, th[s].req \in {"status", "cleanup"} PROVE Knows(s)'
        BY <1>6 DEF Knowledge, Knows
    <2>1. th[s].xid \in Xids
        BY Types, IdleIsCommand DEF IInv, Places, InPlace, Commands
    <2>2. CASE dirs' = dirs /\ proc' = proc
        BY <1>6, <2>2 DEF IInv, Knowledge, Knows
    <2>3. CASE th[s].xid # x
        BY <1>1, <1>6, <2>1, <2>3 DEF Answered, IInv, Knowledge, Knows
    <2>4. CASE s = wire[c].by /\ th[s].req = wire[c].req /\ th[s].xid = x
        BY <1>1, <1>6, <2>1, <2>4 DEF Answered, IInv, Knowledge, Knows
    <2> QED
        BY <1>7, <1>9, <2>2, <2>3, <2>4
<1>f. FailureIsReported' /\ LeavesNothing'
    <2> SUFFICES ASSUME NEW y \in Xids
                 PROVE  /\ ended[y].result = "ok" /\ ended[y].polled => proc'[y] = "good"
                        /\ ended[y].polled /\ ended[y].conn \in open => y \notin dirs'
                        /\ ended[y].result = "killed" /\ ended[y].conn \in open => proc'[y] # "running"
        BY <1>6 DEF FailureIsReported, LeavesNothing, EndedIsCleaned, TimedOutIsStopped
    <2>1. 0 \notin open
        BY Constant DEF IInv, TypeOK
    <2> QED
        BY <1>8, <2>1 DEF IInv, FailureIsReported, LeavesNothing, EndedIsCleaned, TimedOutIsStopped
<1> QED
    BY <1>a, <1>b, <1>c, <1>d, <1>e, <1>f DEF IInv

-----------------------------------------------------------------------------
LEMMA ExitIInv ==
    ASSUME IInv, NEW x \in Xids, Exit(x)
    PROVE  IInv'
<1>0. UNCHANGED <<members, open, stuck, half, holder, wire, dirs, canKill, th, made, row, ended>>
    BY DEF Exit
<1>1. PICK code \in {"good", "bad"} : proc' = [proc EXCEPT ![x] = code]
    BY DEF Exit
<1>2. /\ proc' \in [Xids -> {"none", "running", "good", "bad"}]
      /\ \A y : proc[y] = "good" => proc'[y] = "good"
      /\ \A y : proc[y] # "running" => proc'[y] # "running"
    BY <1>1 DEF Exit, IInv, TypeOK
<1>3. TypeOK' /\ Places' /\ OneUse' /\ Generations' /\ ExchangeIsOwn'
    BY <1>0, <1>2 DEF IInv, TypeOK, Places, OneUse, Generations, ExchangeIsOwn
<1>4. Wires'
    BY <1>0, <1>2 DEF IInv, Wires, Wire, Owing
<1>5. Knowledge'
    BY <1>0, <1>2 DEF IInv, Knowledge, Knows
<1>6. FailureIsReported' /\ LeavesNothing'
    BY <1>0, <1>2 DEF IInv, FailureIsReported, LeavesNothing, EndedIsCleaned, TimedOutIsStopped
<1> QED
    BY <1>3, <1>4, <1>5, <1>6 DEF IInv

LEMMA BreakIInv ==
    ASSUME IInv, NEW c \in Conns, Break(c)
    PROVE  IInv'
<1>0. /\ UNCHANGED <<members, holder, dirs, proc, canKill, th, made, row, ended>>
      /\ open' = open \ {c} /\ stuck' = stuck \ {c} /\ half' = half \ {c}
    BY DEF Break
<1>1. /\ wire' \in [Conns -> Exchanges] /\ wire'[c] = NoRequest
      /\ \A d \in Conns \ {c} : wire'[d] = wire[d]
    BY Types, NoRequestIsExchange DEF Break, IInv
<1>2. TypeOK'
    BY <1>0, <1>1 DEF IInv, TypeOK, Exchanges
<1>3. Places' /\ OneUse' /\ Generations'
    BY <1>0 DEF IInv, Places, OneUse, Generations
<1>4. ExchangeIsOwn'
    BY <1>0, <1>1, NoRequestIsExchange DEF IInv, ExchangeIsOwn
<1>5. Wires'
    BY <1>0, <1>1, NoRequestIsExchange DEF IInv, Wires, Wire, Owing
<1>6. Knowledge'
    BY <1>0 DEF IInv, Knowledge, Knows
<1>7. FailureIsReported' /\ LeavesNothing'
    BY <1>0 DEF IInv, FailureIsReported, LeavesNothing, EndedIsCleaned, TimedOutIsStopped
<1> QED
    BY <1>2, <1>3, <1>4, <1>5, <1>6, <1>7 DEF IInv

\* The connection is a new one: no thread and no command is of it.
LEMMA ConnectIInv ==
    ASSUME IInv, Connect
    PROVE  IInv'
<1>0. /\ UNCHANGED <<stuck, half, holder, wire, proc, canKill, th, row, ended>>
      /\ open = {} /\ open' = {made'} /\ members' = {made'}
      /\ made' \in Conns /\ made' > made /\ made \in Nat /\ made' \in Nat
      /\ dirs' \subseteq dirs
    BY Types, Constant DEF Connect, CleanXidDirs, IInv, Conns
<1>1. /\ \A t \in Threads : th[t].conn <= made /\ th[t].conn \in Nat
      /\ \A x \in Xids : ended[x].conn <= made /\ ended[x].conn \in Nat
    <2>1. \A t \in Threads : th[t].conn \in Conns \union {0}
        BY Types DEF IInv, Commands
    <2>2. \A x \in Xids : ended[x].conn \in Conns \union {0}
        BY Types DEF IInv, Ends_
    <2>3. \A c \in Conns \union {0} : c \in Nat
        BY Constant
    <2>4. /\ \A t \in Threads : th[t].conn <= made
          /\ \A x \in Xids : ended[x].conn <= made
        BY DEF IInv, Generations
    <2> QED
        BY <2>1, <2>2, <2>3, <2>4
<1>2. TypeOK'
    BY <1>0 DEF IInv, TypeOK
<1>3. Places' /\ OneUse' /\ ExchangeIsOwn'
    BY <1>0 DEF IInv, Places, OneUse, ExchangeIsOwn
<1>4. Generations'
    BY <1>0, <1>1 DEF Generations
<1>5. Wires'
    <2>1. \A c \in Conns : wire[c].req = "none" /\ wire[c].over = FALSE
        BY <1>0, Types DEF IInv, Wires, Wire, Exchanges
    <2> QED
        BY <1>0, <2>1 DEF Wires, Wire
<1>6. Knowledge'
    BY <1>0, <1>1 DEF IInv, Knowledge, Knows
<1>7. FailureIsReported' /\ LeavesNothing'
    BY <1>0, <1>1 DEF IInv, FailureIsReported, LeavesNothing, EndedIsCleaned, TimedOutIsStopped
<1> QED
    BY <1>2, <1>3, <1>4, <1>5, <1>6, <1>7 DEF IInv

-----------------------------------------------------------------------------
LEMMA NextIInv == IInv /\ [Next]_vars => IInv'
<1> SUFFICES ASSUME IInv, [Next]_vars PROVE IInv'
    OBVIOUS
<1>1. ASSUME NEW t \in Threads, Step(t) PROVE IInv'
    BY <1>1, SendIInv, ReceiveIInv, FailIInv, LoopIInv DEF Step
<1>2. ASSUME NEW t \in Threads, NEW k \in Kinds, Begin(t, k) PROVE IInv'
    BY <1>2, BeginIInv
<1>3. ASSUME NEW c \in Conns, AgentAnswers(c) \/ Break(c) PROVE IInv'
    BY <1>3, AnswerIInv, BreakIInv
<1>4. ASSUME NEW x \in Xids, Exit(x) PROVE IInv'
    BY <1>4, ExitIInv
<1>5. CASE Connect
    BY <1>5, ConnectIInv
<1>6. CASE UNCHANGED vars
    <2>1. TypeOK' /\ Places' /\ OneUse' /\ Generations' /\ ExchangeIsOwn'
        BY <1>6 DEF vars, IInv, TypeOK, Places, OneUse, Generations, ExchangeIsOwn
    <2>2. Wires' /\ Knowledge'
        BY <1>6 DEF vars, IInv, Wires, Wire, Owing, Knowledge, Knows
    <2>3. FailureIsReported' /\ LeavesNothing'
        BY <1>6 DEF vars, IInv, FailureIsReported, LeavesNothing, EndedIsCleaned, TimedOutIsStopped
    <2> QED
        BY <2>1, <2>2, <2>3 DEF IInv
<1> QED
    BY <1>1, <1>2, <1>3, <1>4, <1>5, <1>6 DEF Next

\* The invariant the other theorems of this module rest on.
THEOREM CommandInvariance == Spec => []IInv
BY InitIInv, NextIInv, PTL DEF Spec

LEMMA StatusIsOfADir == IInv => PolledDirExists
<1> SUFFICES ASSUME IInv, NEW c \in open, wire[c].req = "status", wire[c].ans = "none"
             PROVE  wire[c].xid \in dirs
    BY DEF PolledDirExists
<1>1. c \in Conns
    BY DEF IInv, TypeOK
<1>2. /\ wire[c].by \in Threads /\ th[wire[c].by].conn = c
      /\ th[wire[c].by].req = "status" /\ th[wire[c].by].xid = wire[c].xid
    BY <1>1, AnswerPlace
<1> QED
    BY <1>2 DEF IInv, Knowledge, Knows

(***************************************************************************)
(* cli_cmd and _get_cli_status: each connection has one exchange at a      *)
(* time, of the thread that holds its lock; a status is asked for only     *)
(* while the agent has the directory of the xid; and a command that was    *)
(* polled is reported as done only when its own process ended well,        *)
(* however many commands share the agent and however often it comes back.  *)
(***************************************************************************)
THEOREM EveryAnswerIsOwn == Spec => []AnswersAreOwn
<1>1. IInv => AnswersAreOwn
    BY StatusIsOfADir DEF AnswersAreOwn, IInv
<1> QED
    BY <1>1, CommandInvariance, PTL

(***************************************************************************)
(* _get_cli_status' kill and cli_cmd's cleanup: a command that was polled  *)
(* leaves no directory, and one reported as failed after a kill no         *)
(* process, on an agent that has not lost the connection it ended on.      *)
(***************************************************************************)
THEOREM CommandsLeaveNothing == Spec => []LeavesNothing
<1>1. IInv => LeavesNothing
    BY DEF IInv
<1> QED
    BY <1>1, CommandInvariance, PTL

(***************************************************************************)
(* http_send may give the lock up with an answer unread, or read in part,  *)
(* and httplib may send the next request behind it.  For any number of     *)
(* threads and connections: what is sent there is never taken for          *)
(* answered, so that no thread reads an answer to somebody else's request. *)
(***************************************************************************)
THEOREM NobodyReadsBehind == Spec => NothingIsReadBehind
<1> DEFINE Stays == \A c \in Conns : wire[c].over /\ c \in open' => wire'[c].over
<1>1. IInv /\ [Next]_vars => [Stays]_vars
    <2> SUFFICES ASSUME IInv, Next, NEW c \in Conns, wire[c].over, c \in open'
                 PROVE  wire'[c].over
        OBVIOUS
    <2>0. /\ wire \in [Conns -> Exchanges] /\ wire[c] \in Exchanges
          /\ wire[c].req # "none" /\ c \in Owing
        BY Types DEF IInv, Wires, Wire
    <2>1. ASSUME NEW t \in Threads, Send(t) PROVE wire'[c].over
        <3>1. PICK x \in Xids \union {0} :
                  wire' = IF th[t].conn \in open \ stuck
                          THEN [wire EXCEPT ![th[t].conn] =
                                   [req |-> th[t].req, xid |-> x, by |-> t, ans |-> "none",
                                    over |-> wire[th[t].conn].req # "none"]]
                          ELSE wire
            BY <2>1 DEF Send
        <3>2. CASE c = th[t].conn /\ c \in open \ stuck
            BY <2>0, <3>1, <3>2
        <3> QED
            BY <2>0, <3>1, <3>2
    <2>2. ASSUME NEW t \in Threads, Receive(t) PROVE wire'[c].over
        BY <2>0, <2>2 DEF Receive
    <2>3. ASSUME NEW t \in Threads, Fail(t) PROVE wire'[c].over
        <3>1. \/ wire' = wire
              \/ wire' = [wire EXCEPT ![th[t].conn].by = None]
              \/ th[t].conn \notin open' /\ wire' = [wire EXCEPT ![th[t].conn] = NoRequest]
            BY <2>3 DEF Fail
        <3>2. CASE wire' = [wire EXCEPT ![th[t].conn].by = None]
            BY <2>0, <3>2 DEF Exchanges
        <3> QED
            BY <2>0, <3>1, <3>2
    <2>4. ASSUME NEW d \in Conns, AgentAnswers(d) PROVE wire'[c].over
        <3>1. PICK a : wire' = [wire EXCEPT ![d].ans = a]
            BY <2>4, AgentAnswered DEF Answered
        <3> QED
            BY <2>0, <3>1 DEF Exchanges
    <2>5. ASSUME NEW d \in Conns, Break(d) PROVE wire'[c].over
        BY <2>0, <2>5 DEF Break
    <2>6. CASE \/ \E t \in Threads : Loop(t) \/ TimesOut(t) \/ \E k \in Kinds : Begin(t, k)
               \/ \E x \in Xids : Exit(x)
               \/ Connect
        BY <2>6 DEF Loop, TimesOut, Begin, Exit, Connect
    <2> QED
        BY <2>1, <2>2, <2>3, <2>4, <2>5, <2>6 DEF Next, Step
<1> QED
    BY <1>1, CommandInvariance, PTL DEF Spec, NothingIsReadBehind

-----------------------------------------------------------------------------
(***************************************************************************)
(* cli_cmd implements AgentCommand.  Besides IInv this needs that a start  *)
(* on its way is the first of its xid, and that an answer to one tells     *)
(* the truth.                                                              *)
(***************************************************************************)
Started ==
    /\ \A x \in Xids : row[x] = "none" => proc[x] = "none"
    /\ \A c \in Conns : wire[c].req \in {"start", "run"} =>
          /\ wire[c].ans = "none" => proc[wire[c].xid] = "none"
          /\ wire[c].ans \notin {"none", "running"} => proc[wire[c].xid] \in Contract!Over

LEMMA InitStarted == Init => Started
BY NoRequestIsExchange DEF Init, Started

\* Steps that touch no process and put no new request on a connection.
LEMMA QuietStarted ==
    ASSUME Started, UNCHANGED <<proc, row>>,
           \A c \in Conns : \/ wire'[c].req \notin {"start", "run"}
                            \/ /\ wire'[c].req = wire[c].req /\ wire'[c].xid = wire[c].xid
                               /\ wire'[c].ans = wire[c].ans
    PROVE  Started'
BY DEF Started

LEMMA SendStarted ==
    ASSUME IInv, Started, NEW t \in Threads, Send(t)
    PROVE  Started'
<1>1. PICK x \in Xids \union {0} :
          /\ RowFor(t, x)
          /\ wire' = IF th[t].conn \in open \ stuck
                     THEN [wire EXCEPT ![th[t].conn] =
                              [req |-> th[t].req, xid |-> x, by |-> t, ans |-> "none",
                               over |-> wire[th[t].conn].req # "none"]]
                     ELSE wire
    BY DEF Send
<1>2. proc' = proc /\ wire \in [Conns -> Exchanges] /\ row \in [Xids -> {"none", "started", "finished"}]
    BY Types DEF Send, IInv, TypeOK
<1>3. \A y \in Xids : row'[y] = "none" => row[y] = "none"
    BY <1>1, <1>2 DEF RowFor, Fresh
<1>4. th[t].req \in {"start", "run"} => x \in Xids /\ proc[x] = "none"
    BY <1>1 DEF RowFor, Fresh, Started
<1>5. ASSUME NEW c \in Conns, wire'[c].req \in {"start", "run"}
      PROVE  /\ wire'[c].ans = "none" => proc[wire'[c].xid] = "none"
             /\ wire'[c].ans \notin {"none", "running"} => proc[wire'[c].xid] \in Contract!Over
    <2>1. CASE wire'[c] = wire[c]
        BY <1>5, <2>1 DEF Started
    <2>2. CASE wire'[c] = [req |-> th[t].req, xid |-> x, by |-> t, ans |-> "none",
                          over |-> wire[th[t].conn].req # "none"]
        BY <1>4, <1>5, <2>2
    <2> QED
        BY <1>1, <1>2, <2>1, <2>2
<1> QED
    BY <1>2, <1>3, <1>5 DEF Started

LEMMA ReceiveOrFailStarted ==
    ASSUME IInv, Started, NEW t \in Threads, Receive(t) \/ Fail(t)
    PROVE  Started'
<1>1. wire \in [Conns -> Exchanges]
    BY Types DEF IInv
<1>2. /\ UNCHANGED <<proc, row>>
      /\ \/ wire' = wire
         \/ wire' = [wire EXCEPT ![th[t].conn].by = None]
         \/ wire' = [wire EXCEPT ![th[t].conn] = NoRequest]
    BY DEF Receive, Fail
<1>3. ASSUME NEW c \in Conns
      PROVE  \/ wire'[c].req \notin {"start", "run"}
             \/ /\ wire'[c].req = wire[c].req /\ wire'[c].xid = wire[c].xid
                /\ wire'[c].ans = wire[c].ans
    <2>1. CASE wire' = [wire EXCEPT ![th[t].conn].by = None]
        BY <1>1, <2>1 DEF Exchanges
    <2>2. CASE wire' = [wire EXCEPT ![th[t].conn] = NoRequest]
        BY <1>1, <2>2, NoRequestIsExchange
    <2> QED
        BY <1>2, <2>1, <2>2
<1> QED
    BY <1>2, <1>3, QuietStarted

\* No two requests about an xid are on their way.
LEMMA OneOnItsWay ==
    ASSUME IInv, NEW c \in Conns, NEW d \in Conns,
           wire[c].ans = "none", wire[d].ans = "none", wire[c].xid = wire[d].xid,
           wire[c].req \in {"start", "run", "status", "kill", "cleanup"},
           wire[d].req \in {"start", "run", "status", "kill", "cleanup"}
    PROVE  c = d /\ wire[c].xid \in Xids /\ row[wire[c].xid] # "none"
<1> DEFINE s == wire[c].by
           t == wire[d].by
<1>1. /\ s \in Threads /\ th[s].conn = c /\ th[s].xid = wire[c].xid /\ wire[c].xid \in Xids
      /\ t \in Threads /\ th[t].conn = d /\ th[t].xid = wire[d].xid
    BY AnswerPlace
<1>2. th[s].xid # 0
    BY <1>1, Constant
<1>3. s = t /\ row[th[s].xid] # "none"
    BY <1>1, <1>2 DEF IInv, OneUse
<1> QED
    BY <1>1, <1>3

\* What an answer of the agent does to the processes.
AnswerOn(c) ==
    LET x == wire[c].xid IN
    \/ /\ wire[c].req \in {"start", "run"}
       /\ \E status \in {"running"} \union Contract!Over :
             /\ wire' = [wire EXCEPT ![c].ans = status]
             /\ proc' = [proc EXCEPT ![x] = status]
    \/ /\ wire[c].req \notin {"start", "run"}
       /\ \E a : wire' = [wire EXCEPT ![c].ans = a]
       /\ \/ proc' = proc
          \/ wire[c].req = "kill" /\ proc[x] = "running" /\ proc' = [proc EXCEPT ![x] = "bad"]

LEMMA AnswersOn ==
    ASSUME NEW c \in Conns, AgentAnswers(c)
    PROVE  AnswerOn(c)
<1>1. CASE AnswerStart(c)
    <2>1. PICK status \in {"good", "bad"} \union (IF wire[c].req = "start" THEN {"running"} ELSE {}) :
              Answer(c, status) /\ proc' = [proc EXCEPT ![wire[c].xid] = status]
        BY <1>1 DEF AnswerStart
    <2> QED
        BY <1>1, <2>1 DEF AnswerStart, Answer, AnswerOn, Contract!Over
<1>2. CASE AnswerStatus(c) \/ AnswerKill(c) \/ AnswerCleanup(c) \/ AnswerOther(c)
    BY <1>2 DEF AnswerStatus, AnswerKill, AnswerCleanup, AnswerOther, Answer, AnswerOn
<1> QED
    BY <1>1, <1>2 DEF AgentAnswers

LEMMA AnswerStarted ==
    ASSUME IInv, Started, NEW c \in Conns, AgentAnswers(c)
    PROVE  Started'
<1> DEFINE x == wire[c].xid
<1>1. /\ wire \in [Conns -> Exchanges] /\ proc \in [Xids -> {"none", "running", "good", "bad"}]
      /\ wire[c].ans = "none" /\ row' = row
    BY Types DEF IInv, TypeOK, AgentAnswers
<1>2. AnswerOn(c) /\ wire[c].req # "none"
    BY AnswersOn, AgentAnswered
<1>3. PICK a : wire' = [wire EXCEPT ![c].ans = a]
    BY <1>2 DEF AnswerOn
<1>4. \A d \in Conns : /\ wire'[d].req = wire[d].req /\ wire'[d].xid = wire[d].xid
                       /\ d # c => wire'[d].ans = wire[d].ans
                       /\ d = c => wire'[d].ans = a
    BY <1>1, <1>3 DEF Exchanges
<1>5. CASE wire[c].req \in {"start", "run"}
    <2>1. PICK status \in {"running"} \union Contract!Over :
             /\ wire' = [wire EXCEPT ![c].ans = status]
             /\ proc' = [proc EXCEPT ![x] = status]
        BY <1>2, <1>5 DEF AnswerOn
    <2>2. wire'[c].ans = status
        BY <1>1, <2>1 DEF Exchanges
    <2>3. x \in Xids /\ row[x] # "none"
        BY <1>1, <1>5, OneOnItsWay
    <2>4. proc'[x] = status /\ \A y \in Xids \ {x} : proc'[y] = proc[y]
        BY <1>1, <2>1, <2>3
    <2>5. status # "none"
        BY <2>1 DEF Contract!Over
    <2>6. proc[x] = "none"
        BY <1>1, <1>5 DEF Started
    <2>7. ASSUME NEW d \in Conns \ {c}, wire[d].req \in {"start", "run"}
          PROVE  /\ wire[d].ans = "none" => proc'[wire[d].xid] = "none"
                 /\ wire[d].ans \notin {"none", "running"} => proc'[wire[d].xid] \in Contract!Over
        <3>1. wire[d].ans = "none" => wire[d].xid # x
            BY <1>1, <1>5, <2>7, OneOnItsWay
        <3>2. wire[d].ans \notin {"none", "running"} => wire[d].xid # x
            BY <2>6, <2>7 DEF Started, Contract!Over
        <3>3. wire[d].xid # x => proc'[wire[d].xid] = proc[wire[d].xid]
            BY <2>1
        <3> QED
            BY <2>7, <3>1, <3>2, <3>3 DEF Started
    <2> QED
        BY <1>1, <1>4, <2>1, <2>2, <2>3, <2>4, <2>5, <2>7 DEF Started
<1>6. CASE wire[c].req \notin {"start", "run"} /\ proc' = proc
    <2>1. ASSUME NEW d \in Conns, wire'[d].req \in {"start", "run"}
          PROVE  wire'[d].xid = wire[d].xid /\ wire'[d].ans = wire[d].ans /\ wire'[d].req = wire[d].req
        BY <1>4, <1>6, <2>1
    <2> QED
        BY <1>1, <1>6, <2>1 DEF Started
<1>7. CASE /\ wire[c].req = "kill" /\ proc[x] = "running"
           /\ proc' = [proc EXCEPT ![x] = "bad"]
    <2>1. x \in Xids /\ row[x] # "none"
        BY <1>1, <1>7, OneOnItsWay
    <2>2. proc'[x] = "bad" /\ \A y \in Xids \ {x} : proc'[y] = proc[y]
        BY <1>1, <1>7, <2>1
    <2>3. ASSUME NEW d \in Conns, wire'[d].req \in {"start", "run"}
          PROVE  wire'[d].xid = wire[d].xid /\ wire'[d].ans = wire[d].ans /\ wire'[d].req = wire[d].req
        BY <1>4, <1>7, <2>3
    <2>4. ASSUME NEW d \in Conns, wire[d].req \in {"start", "run"}
          PROVE  /\ wire[d].ans = "none" => proc'[wire[d].xid] = "none"
                 /\ wire[d].ans \notin {"none", "running"} => proc'[wire[d].xid] \in Contract!Over
        <3>1. CASE wire[d].xid = x
            BY <1>7, <2>2, <2>4, <3>1 DEF Started, Contract!Over
        <3>2. CASE wire[d].xid # x
            BY <1>7, <2>4, <3>2 DEF Started
        <3> QED
            BY <3>1, <3>2
    <2> QED
        BY <1>1, <2>1, <2>2, <2>3, <2>4 DEF Started
<1> QED
    BY <1>2, <1>5, <1>6, <1>7 DEF AnswerOn

LEMMA ExitStarted ==
    ASSUME IInv, Started, NEW x \in Xids, Exit(x)
    PROVE  Started'
<1>1. PICK code \in Contract!Over : proc' = [proc EXCEPT ![x] = code]
    BY DEF Exit, Contract!Over
<1>2. /\ proc \in [Xids -> {"none", "running", "good", "bad"}] /\ proc[x] = "running"
      /\ UNCHANGED <<wire, row>>
    BY DEF IInv, TypeOK, Exit
<1>3. ASSUME NEW c \in Conns, wire[c].req \in {"start", "run"}
      PROVE  /\ wire[c].ans = "none" => proc'[wire[c].xid] = "none"
             /\ wire[c].ans \notin {"none", "running"} => proc'[wire[c].xid] \in Contract!Over
    <2>1. CASE wire[c].xid = x
        BY <1>1, <1>2, <1>3, <2>1 DEF Started
    <2>2. CASE wire[c].xid # x
        BY <1>1, <1>3, <2>2 DEF Started
    <2> QED
        BY <2>1, <2>2
<1>4. \A y \in Xids : proc'[y] = (IF y = x THEN code ELSE proc[y])
    BY <1>1, <1>2
<1> QED
    BY <1>2, <1>3, <1>4 DEF Started

LEMMA NextStarted == IInv /\ Started /\ [Next]_vars => Started'
<1> SUFFICES ASSUME IInv, Started, [Next]_vars PROVE Started'
    OBVIOUS
<1>1. ASSUME NEW t \in Threads, Step(t) PROVE Started'
    <2>1. CASE Loop(t) \/ TimesOut(t)
        BY <2>1, QuietStarted DEF Loop, TimesOut
    <2> QED
        BY <1>1, <2>1, SendStarted, ReceiveOrFailStarted DEF Step
<1>2. ASSUME NEW t \in Threads, NEW k \in Kinds, Begin(t, k) PROVE Started'
    BY <1>2, QuietStarted DEF Begin
<1>3. ASSUME NEW c \in Conns, Break(c) PROVE Started'
    <2>1. \A d \in Conns : wire'[d] = wire[d] \/ wire'[d] = NoRequest
        BY <1>3, Types DEF Break, IInv
    <2> QED
        BY <1>3, <2>1, NoRequestIsExchange, QuietStarted DEF Break
<1>4. CASE Connect \/ UNCHANGED vars
    BY <1>4, QuietStarted DEF Connect, vars
<1> QED
    BY <1>1, <1>2, <1>3, <1>4, AnswerStarted, ExitStarted DEF Next

\* What AgentCommand sees of the results.
Reports == [x \in Xids |-> Reported(x)]

\* A command that ends is reported, for the first time and truly.
LEMMA EndReports ==
    ASSUME IInv, NEW t \in Threads, NEW result \in {"ok", "error", "killed"},
           Ends(t, result), th[t].pc = "sent", proc' = proc,
           \/ /\ th[t].req = "start"
              /\ result = "ok" => proc[th[t].xid] \in Contract!Over
           \/ th[t].req = "cleanup" /\ (result = "ok" => th[t].result = "ok")
           \/ th[t].req \in {"run", "file", "ping"}
    PROVE  ended' = ended \/ \E x \in Xids : Contract!Report(x)
<1> DEFINE e == [result |-> result, polled |-> th[t].req # "start",
                 conn |-> IF th[t].req = "start" THEN 0 ELSE th[t].conn]
<1>1. /\ InPlace(th[t]) /\ th[t] \in Commands /\ ended \in [Xids -> Ends_]
    BY Types DEF IInv, Places
<1>2. CASE th[t].kind # "cli"
    BY <1>2 DEF Ends
<1>3. CASE th[t].kind = "cli"
    <2>1. PICK x \in Xids : x = th[t].xid
        BY <1>1, <1>3 DEF InPlace, Commands
    <2>2. ended' = [ended EXCEPT ![x] = e]
        BY <1>3, <2>1 DEF Ends
    <2>3. e.result = result /\ (e.polled <=> th[t].req # "start")
        OBVIOUS
    <2> HIDE DEF e
    <2>4. ended'[x] = e /\ \A y \in Xids \ {x} : ended'[y] = ended[y]
        BY <1>1, <2>2
    <2>5. ended[x].result = "no"
        BY <2>1, Constant DEF IInv, OneUse
    <2>6. Reported(x) = "none"
        BY <2>5 DEF Reported
    <2>7. PICK r : r = Reported(x)'
        OBVIOUS
    <2>8. Reports' = [Reports EXCEPT ![x] = r]
        <3>1. \A y \in Xids \ {x} : Reported(y)' = Reported(y)
            BY <2>4 DEF Reported
        <3> QED
            BY <2>7, <3>1 DEF Reports
    <2>9. r = IF result # "ok" THEN "failed" ELSE IF th[t].req = "start" THEN "done" ELSE "good"
        BY <2>3, <2>4, <2>7 DEF Reported
    <2>10. \/ r = "failed"
           \/ r = "done" /\ proc[x] \in Contract!Over
           \/ r = "good" /\ proc[x] = "good"
        <3>1. CASE result # "ok"
            BY <2>9, <3>1
        <3>2. CASE result = "ok" /\ th[t].req = "start"
            BY <2>1, <2>9, <3>2
        <3>3. CASE result = "ok" /\ th[t].req # "start"
            <4>1. th[t].req = "cleanup" /\ th[t].result = "ok"
                BY <1>1, <1>3, <3>3 DEF InPlace
            <4>2. proc[x] = "good"
                BY <2>1, <4>1 DEF IInv, Knowledge, Knows
            <4> QED
                BY <2>9, <3>3, <4>2
        <3> QED
            BY <3>1, <3>2, <3>3
    <2>11. Reports[x] = "none"
        BY <2>6 DEF Reports
    <2>12. Contract!Report(x)
        BY <2>8, <2>10, <2>11 DEF Contract!Report, Reports
    <2> QED
        BY <2>12
<1> QED
    BY <1>2, <1>3

LEMMA ContinueReports ==
    ASSUME IInv, NEW t \in Threads, NEW a, th[t].pc = "sent", Continue(t, a), proc' = proc,
           th[t].req = "start" /\ a \notin {"running", "error"} =>
               proc[th[t].xid] \in Contract!Over
    PROVE  ended' = ended \/ \E x \in Xids : Contract!Report(x)
<1>1. th[t].result \in {"ok", "error", "killed"}
    BY Types DEF IInv, Commands
<1>2. CASE \E request, result : Goes(t, request, result)
    BY <1>2 DEF Goes
<1>3. CASE th[t].req \in {"start", "run"} /\ a # "running"
           /\ Ends(t, IF a = "error" THEN "error" ELSE "ok")
    BY <1>3, EndReports
<1>4. CASE th[t].req = "cleanup"
           /\ Ends(t, IF a = "error" /\ th[t].result = "ok" THEN "error" ELSE th[t].result)
    BY <1>1, <1>4, EndReports
<1>5. CASE th[t].req \in {"file", "ping"} /\ Ends(t, IF a = "error" THEN "error" ELSE "ok")
    BY <1>5, EndReports
<1> QED
    BY <1>2, <1>3, <1>4, <1>5 DEF Continue, AfterStart

LEMMA ReceiveReports ==
    ASSUME IInv, Started, NEW t \in Threads, Receive(t) \/ Fail(t)
    PROVE  proc' = proc /\ (ended' = ended \/ \E x \in Xids : Contract!Report(x))
<1>1. proc' = proc /\ th[t].pc = "sent"
    BY DEF Receive, Fail
<1>2. CASE Receive(t)
    <2> DEFINE c == th[t].conn
               a == IF wire[c].ans = "refused" THEN "error" ELSE wire[c].ans
    <2>1. Continue(t, a) /\ wire[c].by = t /\ wire[c].ans # "none"
        BY <1>2 DEF Receive
    <2>2. c \in Conns /\ t # None
        BY <1>1, Types, Constant DEF IInv, Places, Commands
    <2>3. th[t].req = wire[c].req /\ th[t].xid = wire[c].xid
        BY <2>1, <2>2 DEF IInv, ExchangeIsOwn
    <2>4. th[t].req = "start" /\ a \notin {"running", "error"} => proc[th[t].xid] \in Contract!Over
        BY <2>1, <2>2, <2>3 DEF Started
    <2> HIDE DEF a
    <2> QED
        BY <1>1, <2>1, <2>4, ContinueReports
<1>3. CASE Fail(t)
    <2>1. Continue(t, "error")
        BY <1>3 DEF Fail
    <2> QED
        BY <1>1, <2>1, ContinueReports
<1> QED
    BY <1>2, <1>3

LEMMA AnswerRuns ==
    ASSUME IInv, Started, NEW c \in Conns, AgentAnswers(c)
    PROVE  ended' = ended /\ (proc' = proc \/ \E x \in Xids : Contract!Start(x) \/ Contract!End(x))
<1> DEFINE x == wire[c].xid
<1>1. ended' = ended /\ wire[c].ans = "none" /\ AnswerOn(c)
    BY AnswersOn DEF AgentAnswers
<1>2. Reports' = Reports
    BY <1>1 DEF Reports, Reported
<1>3. CASE /\ wire[c].req \in {"start", "run"}
           /\ \E status \in {"running"} \union Contract!Over : proc' = [proc EXCEPT ![x] = status]
    <2>1. x \in Xids /\ proc[x] = "none"
        BY <1>1, <1>3, OneOnItsWay DEF Started
    <2>2. Contract!Start(x)
        BY <1>2, <1>3, <2>1 DEF Contract!Start, Reports
    <2> QED
        BY <1>1, <2>1, <2>2
<1>4. CASE wire[c].req = "kill" /\ proc[x] = "running" /\ proc' = [proc EXCEPT ![x] = "bad"]
    <2>1. x \in Xids
        BY <1>1, <1>4, OneOnItsWay
    <2>2. Contract!End(x)
        BY <1>2, <1>4 DEF Contract!End, Contract!Over, Reports
    <2> QED
        BY <1>1, <2>1, <2>2
<1> QED
    BY <1>1, <1>3, <1>4 DEF AnswerOn

LEMMA StepRefines == IInv /\ Started /\ [Next]_vars => [Contract!Next]_<<proc, Reports>>
<1> SUFFICES ASSUME IInv, Started, [Next]_vars
             PROVE  Contract!Next \/ UNCHANGED <<proc, Reports>>
    OBVIOUS
<1>1. CASE UNCHANGED <<proc, ended>>
    BY <1>1 DEF Reports, Reported
<1>2. ASSUME NEW t \in Threads, Receive(t) \/ Fail(t)
      PROVE  Contract!Next \/ UNCHANGED <<proc, ended>>
    BY <1>2, ReceiveReports DEF Contract!Next
<1>3. ASSUME NEW t \in Threads, Step(t)
      PROVE  Contract!Next \/ UNCHANGED <<proc, ended>>
    BY <1>2, <1>3 DEF Step, Send, Loop, Goes, TimesOut
<1>4. ASSUME NEW c \in Conns, AgentAnswers(c)
      PROVE  Contract!Next \/ UNCHANGED <<proc, ended>>
    BY <1>4, AnswerRuns DEF Contract!Next
<1>5. ASSUME NEW x \in Xids, Exit(x) PROVE Contract!Next
    <2>1. Reports' = Reports
        BY <1>5 DEF Exit, Reports, Reported
    <2>2. Contract!End(x)
        BY <1>5, <2>1 DEF Exit, Contract!End, Contract!Over, Reports
    <2> QED
        BY <2>2 DEF Contract!Next
<1>6. ASSUME NEW t \in Threads, NEW k \in Kinds, Begin(t, k) PROVE UNCHANGED <<proc, ended>>
    BY <1>6 DEF Begin
<1>7. CASE (\E c \in Conns : Break(c)) \/ Connect \/ UNCHANGED vars
    BY <1>1, <1>7 DEF Break, Connect, vars
<1> QED
    BY <1>1, <1>3, <1>4, <1>5, <1>6, <1>7 DEF Next

(***************************************************************************)
(* cli_cmd keeps the promise of AgentCommand, for any threads, xids and    *)
(* connections: a process is started once for its xid, one result is       *)
(* reported, and no success before the process is over, through every      *)
(* timeout, kill, refusal, unread answer and lost connection.              *)
(***************************************************************************)
THEOREM CommandIsImplemented == Spec => ImplementsCommand
<1>1. Init => Contract!Init
    BY DEF Init, Contract!Init, Reported, NotEnded
<1>2. Spec => [](IInv /\ Started)
    BY InitIInv, NextIInv, InitStarted, NextStarted, PTL DEF Spec
<1>3. Spec => [][Contract!Next]_<<proc, Reports>>
    BY StepRefines, <1>2, PTL DEF Spec
<1> QED
    BY <1>1, <1>3, PTL DEF Spec, ImplementsCommand, Contract!Spec, Contract!vars, Reports
=============================================================================
