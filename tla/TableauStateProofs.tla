-------------------------- MODULE TableauStateProofs --------------------------
(***************************************************************************)
(* For every number of users and connections, every choice of actions and  *)
(* every fault: the locks keep apart what they should, no main state is a  *)
(* trap, the owner of the user action lock controls the state, the upgrade *)
(* lock is used as its contract says, and a green page hides nothing.      *)
(***************************************************************************)
EXTENDS MonitorPage, TLAPS

(***************************************************************************)
(* The inductive invariant.  The places an action can be at, its           *)
(* connection, and the state it has saved to put back:                     *)
(***************************************************************************)
Checking == {"fetch", "apply", "write", "finish"}

InPlace(l) ==
    \/ /\ l.kind \in Housekeeping
       /\ l.pc \in {"lock", "check", "enter", "command", "finish"}
    \/ /\ l.kind = "start"
       /\ l.pc \in {"lock", "check", "enter", "command"} \union Checking
    \/ /\ l.kind \in {"stop", "restart"}
       /\ l.pc \in {"lock", "check", "enter", "license", "licensed", "backup_first",
                    "backed_up", "not_prepared", "command"} \union Checking
    \/ /\ l.kind = "restart"
       /\ l.pc = "restarted"
    \/ /\ l.kind = "restore"
       /\ l.pc \in {"lock", "check", "enter", "license", "licensed", "backup_first",
                    "backed_up", "not_prepared"}
    \/ /\ l.kind \in {"restore", "restore_url"}
       /\ l.pc \in {"lock", "check", "get_file", "restore", "restore_stop",
                    "restore_stopped", "restore_run", "restore_failed"} \union Checking
    \/ /\ l.kind = "support_case"
       /\ l.pc \in {"lock", "command", "finish"}

\* The kinds that put the state back which they found.
Savers == Housekeeping \union {"stop", "restart", "restore"}

Saved(l) ==
    /\ l.saved \in ReadyStates \union {"DISCONNECTED"}
    /\ l.kind \in Savers /\ l.pc \notin {"lock", "check"} => l.saved \in ReadyStates

UserLocals == {Idle} \union {l \in Locals : l.conn \in Conns /\ InPlace(l) /\ Saved(l)}

MonitorLocals ==
    {Idle} \union {l \in Locals : l.conn \in Conns /\ l.pc \in {"fetch", "apply", "write"}}

ThreadsOK ==
    /\ \A u \in Users : th[u] \in UserLocals
    /\ th[Monitor] \in MonitorLocals

\* Every thread that needs the user action lock has it.
HasLock ==
    /\ \A u \in Users :
          InAction(u) /\ th[u].kind # "support_case" => owner[th[u].conn] = u
    /\ th[Monitor].pc = "write" => owner[th[Monitor].conn] = Monitor

(***************************************************************************)
(* Who has marked the main state and has not written it since: WillSettle  *)
(* without the actions that have not marked it yet, and without a restore  *)
(* between its first write and its end.                                    *)
(***************************************************************************)
Settles(l) ==
    \/ /\ l.kind \in Housekeeping
       /\ l.pc \in {"command", "finish"}
    \/ /\ l.kind \in {"stop", "restart"}
       /\ l.pc \in {"backup_first", "backed_up", "not_prepared"}
    \/ /\ l.kind = "restore"
       /\ l.pc \in {"license", "licensed", "backup_first", "backed_up",
                        "not_prepared", "get_file", "restore", "restore_failed"}

\* Who works on Tableau under a mark of its own.
Works(l) ==
    \/ l.kind \in Housekeeping \union {"start", "stop", "restart"} /\ l.pc = "command"
    \/ l.kind \in {"stop", "restart"} /\ l.pc = "backup_first"
    \/ l.kind = "restore" /\ l.pc \in {"license", "licensed", "backup_first"}
    \/ l.kind \in {"restore", "restore_url"} /\ l.pc \in {"restore_stop", "restore_run"}

Settled == main \in ActionStates => \E u \in Users : Settles(th[u])

WriterIsAlone ==
    upgrade \in {"checking", "on"} => \A t \in Threads : th[t].pc = "idle"

IInv ==
    /\ TypeOK
    /\ ThreadsOK
    /\ HasLock
    /\ NoLeakedLock
    /\ Settled
    /\ WriterIsAlone
    /\ ConnectedIsNotDisconnected

LEMMA IdleIsLocals == Idle \in Locals
BY PaletteAssumption DEF Idle, Locals, PCs, AllKinds, MainStates, SettledStates, Statuses

LEMMA InitIInv == Init => IInv
<1> SUFFICES ASSUME Init PROVE IInv
    OBVIOUS
<1>1. Idle \in Locals
    BY IdleIsLocals
<1>2. TypeOK
    BY <1>1, PaletteAssumption DEF Init, TypeOK, MainStates, SettledStates, Statuses, HandlerStates, UpgradeStates
<1>3. ThreadsOK
    BY DEF Init, ThreadsOK, UserLocals, MonitorLocals, Threads
<1>4. HasLock /\ NoLeakedLock
    BY DEF Init, HasLock, NoLeakedLock, InAction, Idle, Threads
<1>5. Settled /\ WriterIsAlone /\ ConnectedIsNotDisconnected
    BY DEF Init, Settled, WriterIsAlone, ConnectedIsNotDisconnected, ActionStates
<1> QED
    BY <1>2, <1>3, <1>4, <1>5 DEF IInv

-----------------------------------------------------------------------------
(***************************************************************************)
(* What the invariant lets a step of a user do, whatever its action.  Its  *)
(* own place and locals ...                                                *)
(***************************************************************************)
Alone(t) ==
    /\ th' \in [Threads -> Locals]
    /\ th'[t].pc # th[t].pc
    /\ \A s \in Threads \ {t} : th'[s] = th[s]

Moves(u) ==
    /\ th[u].pc # "idle"
    /\ Alone(u)
    /\ th'[u] \in UserLocals
    /\ \/ th'[u] = Idle
       \/ InAction(u)' /\ th'[u].kind = th[u].kind /\ th'[u].conn = th[u].conn

\* ... the lock of its connection ...
Locks(u) ==
    LET c == th[u].conn IN
    \/ /\ th[u].pc = "lock" /\ owner[c] = Nobody
       /\ owner' = [owner EXCEPT ![c] = u]
       /\ InAction(u)'
    \/ /\ InAction(u) /\ owner[c] = u
       /\ owner' = [owner EXCEPT ![c] = Nobody]
       /\ th'[u] = Idle
    \/ /\ owner' = owner
       /\ th[u].pc = "lock" => th'[u] = Idle \/ th[u].kind = "support_case"
       /\ th'[u] = Idle => th[u].pc = "lock"

(***************************************************************************)
(* ... and the main state: it is left alone and the thread that will write *)
(* it goes on to do so, or it is marked and the thread will write it, or   *)
(* it is written, or the agent was lost.                                   *)
(***************************************************************************)
Writes(u) ==
    \/ /\ main' = main /\ primary' = primary
       /\ Settles(th[u]) => Settles(th'[u])
       /\ Works(th'[u]) => Works(th[u])
    \/ /\ primary' = primary
       /\ InAction(u) /\ th[u].kind # "support_case"
       /\ main' \in MainStates \ {"DISCONNECTED"}
       /\ main' \in ActionStates => Settles(th'[u])
       /\ Works(th'[u]) => main' \notin ReadyStates
    \/ main' = "DISCONNECTED" /\ primary' = 0

Leaves ==
    /\ handler' = handler /\ upgrade' = upgrade
    /\ up' \in SUBSET Conns
    /\ reported' \in Statuses
    /\ tableau' \in TableauStatuses

UserStep(u) == Moves(u) /\ Locks(u) /\ Writes(u) /\ Leaves

\* The constants, as the proofs use them.
LEMMA Constant ==
    /\ Monitor \in Threads /\ Monitor \notin Users /\ Users \subseteq Threads
    /\ Nobody \notin Threads
    /\ 0 \notin Conns /\ Conns \subseteq 0 .. MaxConn
BY PaletteAssumption DEF Threads, Conns

LEMMA IdleFields ==
    /\ Idle.pc = "idle" /\ Idle.kind = "none" /\ Idle.saved = "DISCONNECTED"
    /\ ~Works(Idle)
BY DEF Idle, Works

LEMMA LocalsOf ==
    ASSUME IInv, NEW u \in Users
    PROVE  /\ th[u] \in UserLocals /\ th[u] \in Locals
           /\ th \in [Threads -> Locals]
           /\ th[u].pc # "idle" => th[u].conn \in Conns /\ InPlace(th[u]) /\ Saved(th[u])
BY Constant DEF IInv, TypeOK, ThreadsOK, UserLocals, Idle

\* What Goto and Return do.
LEMMA GotoMoves ==
    ASSUME IInv, NEW u \in Users, NEW where \in PCs, Goto(u, where),
           th[u].pc # "idle", where \notin {"idle", "lock", th[u].pc},
           InPlace([th[u] EXCEPT !.pc = where]), Saved([th[u] EXCEPT !.pc = where])
    PROVE  /\ Moves(u)
           /\ th'[u] = [th[u] EXCEPT !.pc = where]
           /\ th'[u] # Idle /\ InAction(u)'
<1>1. th[u] \in Locals /\ th \in [Threads -> Locals] /\ th[u].conn \in Conns
    BY LocalsOf
<1>2. th'[u] = [th[u] EXCEPT !.pc = where] /\ u \in Threads
    BY <1>1, Constant DEF Goto
<1>3. th'[u] \in Locals
    BY <1>1, <1>2 DEF Locals
<1>4. Alone(u)
    BY <1>1, <1>2, <1>3 DEF Goto, Alone, Locals
<1>5. th'[u].pc = where /\ th'[u].kind = th[u].kind /\ th'[u].conn = th[u].conn
    BY <1>1, <1>2 DEF Locals
<1>6. th'[u] \in UserLocals
    BY <1>1, <1>2, <1>3, <1>5 DEF UserLocals
<1> QED
    BY <1>2, <1>4, <1>5, <1>6 DEF Moves, InAction, Idle

LEMMA ReturnMoves ==
    ASSUME IInv, NEW u \in Users, Return(u), th[u].pc # "idle"
    PROVE  Moves(u) /\ th'[u] = Idle
<1>1. th \in [Threads -> Locals] /\ u \in Threads
    BY LocalsOf, Constant
<1>2. Idle \in Locals
    BY IdleIsLocals
<1> QED
    BY <1>1, <1>2 DEF Return, Moves, Alone, UserLocals, Idle

-----------------------------------------------------------------------------
(***************************************************************************)
(* The actions of a user, each of them a UserStep.  Most end the command   *)
(* or go on to another place of it.                                        *)
(***************************************************************************)
LEMMA Left ==
    ASSUME IInv, UNCHANGED unchangedByUsers
    PROVE  Leaves /\ primary' = primary
BY DEF IInv, TypeOK, unchangedByUsers, Leaves

LEMMA EndStep ==
    ASSUME IInv, NEW u \in Users, InAction(u), owner[th[u].conn] = u,
           Unlock(u), Return(u), UNCHANGED unchangedByUsers,
           \/ main' = main /\ ~Settles(th[u])
           \/ th[u].kind # "support_case" /\ main' \in ReadyStates
    PROVE  UserStep(u)
<1>1. Moves(u) /\ th'[u] = Idle
    BY ReturnMoves DEF InAction
<1>2. Locks(u)
    BY <1>1 DEF Locks, Unlock
<1>3. Leaves /\ primary' = primary
    BY Left
<1>4. Writes(u)
    BY <1>1, <1>3, IdleFields
       DEF Writes, ReadyStates, UpStates, DownStates, MainStates, SettledStates, ActionStates
<1> QED
    BY <1>1, <1>2, <1>3, <1>4 DEF UserStep

LEMMA GoStep ==
    ASSUME IInv, NEW u \in Users, NEW where \in PCs, Goto(u, where),
           InAction(u), where \notin {"idle", "lock", th[u].pc},
           InPlace([th[u] EXCEPT !.pc = where]), Saved([th[u] EXCEPT !.pc = where]),
           owner' = owner, UNCHANGED unchangedByUsers,
           \/ /\ main' = main
              /\ Settles(th[u]) => Settles(th'[u])
              /\ Works(th'[u]) => Works(th[u])
           \/ /\ th[u].kind # "support_case"
              /\ main' \in MainStates \ {"DISCONNECTED"}
              /\ main' \in ActionStates => Settles(th'[u])
              /\ Works(th'[u]) => main' \notin ReadyStates
    PROVE  UserStep(u)
<1>1. Moves(u) /\ th'[u] # Idle
    BY GotoMoves DEF InAction
<1>2. Locks(u)
    BY <1>1 DEF Locks, InAction
<1>3. Leaves /\ primary' = primary
    BY Left
<1>4. Writes(u)
    BY <1>3 DEF Writes
<1> QED
    BY <1>1, <1>2, <1>3, <1>4 DEF UserStep

LEMMA LockStep ==
    ASSUME IInv, NEW u \in Users, Lock(u)
    PROVE  UserStep(u)
<1> DEFINE c == th[u].conn
<1>0. /\ th[u] \in Locals /\ c \in Conns /\ InPlace(th[u]) /\ Saved(th[u])
      /\ th[u].pc = "lock"
    BY LocalsOf DEF Lock
<1>1. Leaves /\ primary' = primary
    BY Left DEF Lock, unchangedByUsers
<1>2. main' = main
    BY DEF Lock
<1>3. ~Settles(th[u])
    BY <1>0 DEF Settles
<1>4. ~Works(th'[u]) => Writes(u)
    BY <1>1, <1>2, <1>3 DEF Writes
<1>5. CASE /\ owner[c] = Nobody
           /\ owner' = [owner EXCEPT ![c] = u]
           /\ Goto(u, IF th[u].kind = "support_case" THEN "command" ELSE "check")
    <2> DEFINE where == IF th[u].kind = "support_case" THEN "command" ELSE "check"
    <2>1. where \in PCs /\ where \notin {"idle", "lock", th[u].pc}
        BY <1>0 DEF PCs, CommandPCs
    <2>2. InPlace([th[u] EXCEPT !.pc = where])
        BY <1>0 DEF Locals, InPlace, Housekeeping
    <2>3. Saved([th[u] EXCEPT !.pc = where])
        BY <1>0 DEF Locals, Saved, Savers, Housekeeping
    <2>4. Moves(u) /\ InAction(u)' /\ th'[u] = [th[u] EXCEPT !.pc = where]
        BY <1>0, <1>5, <2>1, <2>2, <2>3, GotoMoves
    <2>5. Locks(u)
        BY <1>0, <1>5, <2>4 DEF Locks
    <2>6. ~Works(th'[u])
        BY <1>0, <2>4 DEF Works, Locals, Housekeeping
    <2> QED
        BY <1>1, <1>4, <2>4, <2>5, <2>6 DEF UserStep
<1>6. CASE th[u].kind = "support_case" /\ Goto(u, "command") /\ UNCHANGED owner
    <2>1. InPlace([th[u] EXCEPT !.pc = "command"])
        BY <1>0, <1>6 DEF Locals, InPlace
    <2>2. Saved([th[u] EXCEPT !.pc = "command"])
        BY <1>0, <1>6 DEF Locals, Saved, Savers, Housekeeping
    <2>3. "command" \in PCs
        BY DEF PCs, CommandPCs
    <2>4. Moves(u) /\ th'[u] # Idle /\ th'[u] = [th[u] EXCEPT !.pc = "command"]
        BY <1>0, <1>6, <2>1, <2>2, <2>3, GotoMoves
    <2>5. Locks(u)
        BY <1>6, <2>4 DEF Locks
    <2>6. ~Works(th'[u])
        BY <1>0, <1>6, <2>4 DEF Works, Locals, Housekeeping
    <2> QED
        BY <1>1, <1>4, <2>4, <2>5, <2>6 DEF UserStep
<1>7. CASE Return(u) /\ UNCHANGED owner
    <2>1. Moves(u) /\ th'[u] = Idle
        BY <1>0, <1>7, ReturnMoves
    <2>2. Locks(u)
        BY <1>0, <1>7, <2>1 DEF Locks
    <2> QED
        BY <1>1, <1>4, <2>1, <2>2, IdleFields DEF UserStep
<1> QED
    BY <1>5, <1>6, <1>7 DEF Lock

\* A step that changes more of a user's locals than its place.
LEMMA MoveTo ==
    ASSUME IInv, NEW u \in Users, NEW l \in Locals, th' = [th EXCEPT ![u] = l],
           th[u].pc # "idle", l.pc \notin {"idle", "lock", th[u].pc},
           l.kind = th[u].kind, l.conn = th[u].conn, InPlace(l), Saved(l)
    PROVE  Moves(u) /\ th'[u] = l /\ th'[u] # Idle /\ InAction(u)'
<1>1. th \in [Threads -> Locals] /\ th[u].conn \in Conns /\ u \in Threads
    BY LocalsOf, Constant
<1>2. l \in UserLocals
    BY <1>1 DEF UserLocals
<1> QED
    BY <1>1, <1>2 DEF Moves, Alone, InAction, Idle

\* A user that is past the lock has it, unless it makes a support case.
LEMMA Owns ==
    ASSUME IInv, NEW u \in Users, InAction(u), th[u].kind # "support_case"
    PROVE  owner[th[u].conn] = u
BY DEF IInv, HasLock

LEMMA CheckStep ==
    ASSUME IInv, NEW u \in Users, Check(u)
    PROVE  UserStep(u)
<1>0. /\ th[u] \in Locals /\ th \in [Threads -> Locals] /\ u \in Threads
      /\ InPlace(th[u]) /\ Saved(th[u]) /\ th[u].pc = "check"
      /\ UNCHANGED unchangedByUsers
    BY LocalsOf, Constant DEF Check
<1>1. /\ th[u].kind \notin {"support_case", "none"} /\ InAction(u) /\ ~Settles(th[u])
      /\ main \in MainStates
    BY <1>0 DEF InPlace, Checking, InAction, Settles, Housekeeping, IInv, TypeOK
<1>2. CASE main \in GoodStates(th[u].kind)
    <2> DEFINE l == [th[u] EXCEPT
                        !.saved = IF th[u].kind \in {"start", "restore_url"} THEN @ ELSE main,
                        !.pc = IF th[u].kind = "restore_url" THEN "get_file" ELSE "enter"]
    <2>1. th' = [th EXCEPT ![u] = l] /\ main' = main /\ owner' = owner
        BY <1>0, <1>2 DEF Check
    <2>2. l \in Locals /\ l.kind = th[u].kind /\ l.conn = th[u].conn
          /\ l.pc \in {"enter", "get_file"}
        BY <1>0, <1>1 DEF Locals, PCs, CommandPCs
    <2>3. InPlace(l)
        BY <1>0, <1>1 DEF Locals, InPlace, Housekeeping
    <2>4. th[u].kind \in Savers => main \in ReadyStates
        BY <1>2 DEF GoodStates, Savers, ReadyStates, Housekeeping
    <2>5. th[u].kind \in Savers \/ th[u].kind \in {"start", "restore_url"}
        BY <1>0, <1>1 DEF Locals, AllKinds, Savers
    <2>6. l.saved = IF th[u].kind \in {"start", "restore_url"} THEN th[u].saved ELSE main
        BY <1>0 DEF Locals
    <2>7. Saved(l)
        BY <1>0, <2>2, <2>4, <2>5, <2>6 DEF Saved, Savers, Housekeeping
    <2> HIDE DEF l
    <2>8. Moves(u) /\ th'[u] # Idle /\ th'[u] = l
        BY <1>0, <1>1, <2>1, <2>2, <2>3, <2>7, MoveTo
    <2>9. ~Works(l)
        BY <2>2 DEF Works
    <2>10. Locks(u) /\ Writes(u) /\ Leaves
        BY <1>0, <1>1, <2>1, <2>8, <2>9, Left DEF Locks, Writes
    <2> QED
        BY <2>8, <2>10 DEF UserStep
<1>3. CASE GiveUp(u)
    BY <1>0, <1>1, <1>3, Owns, EndStep DEF GiveUp
<1> QED
    BY <1>2, <1>3 DEF Check

LEMMA EnterStep ==
    ASSUME IInv, NEW u \in Users,
           MarkByState(u) \/ MarkByStatus(u) \/ MarkStart(u) \/ PreStop(u) \/ Refuse(u)
    PROVE  UserStep(u)
<1>0. /\ th[u] \in Locals /\ th \in [Threads -> Locals] /\ u \in Threads
      /\ InPlace(th[u]) /\ Saved(th[u]) /\ th[u].pc = "enter"
      /\ UNCHANGED unchangedByUsers
    BY LocalsOf, Constant DEF MarkByState, MarkByStatus, MarkStart, PreStop, Refuse
<1>1. th[u].kind \notin {"support_case", "restore_url", "none"} /\ InAction(u) /\ ~Settles(th[u])
    BY <1>0 DEF InPlace, Checking, InAction, Settles, Housekeeping
<1>2. \A k \in DOMAIN StartedMark :
          StartedMark[k] \in ActionStates /\ StoppedMark[k] \in ActionStates
    BY DEF StartedMark, StoppedMark, ActionStates
<1>3. ActionStates \subseteq MainStates \ {"DISCONNECTED"} /\ ActionStates \cap ReadyStates = {}
    BY DEF MainStates, ActionStates, ReadyStates, UpStates, DownStates
<1>4. {"command", "license", "licensed"} \subseteq PCs
    BY DEF PCs, CommandPCs
<1>5. \A p \in PCs : /\ [th[u] EXCEPT !.pc = p].kind = th[u].kind
                     /\ [th[u] EXCEPT !.pc = p].pc = p
                     /\ Saved([th[u] EXCEPT !.pc = p])
                     /\ Goto(u, p) => th'[u] = [th[u] EXCEPT !.pc = p]
    BY <1>0 DEF Locals, Saved, Goto
<1>6. CASE MarkByState(u)
    <2>1. th[u].kind \in Housekeeping \ {"backup"} /\ Goto(u, "command") /\ owner' = owner
        BY <1>6 DEF MarkByState
    <2>2. main' \in ActionStates
        BY <1>2, <1>6 DEF MarkByState, Update, StartedMark, StoppedMark, Housekeeping
    <2>3. InPlace([th[u] EXCEPT !.pc = "command"])
        BY <1>4, <1>5, <2>1 DEF InPlace
    <2>4. th'[u].kind = th[u].kind /\ th'[u].pc = "command"
        BY <1>4, <1>5, <2>1
    <2>5. Settles(th'[u])
        BY <2>1, <2>4 DEF Settles, Housekeeping
    <2> QED
        BY <1>0, <1>1, <1>3, <1>4, <1>5, <2>1, <2>2, <2>3, <2>5, GoStep
<1>7. CASE MarkByStatus(u)
    <2> PICK where \in {"command", "license", "licensed"} :
            /\ Goto(u, where)
            /\ where = "command" <=> th[u].kind = "backup"
        BY <1>7 DEF MarkByStatus
    <2>1. th[u].kind \in {"backup", "restore"} /\ owner' = owner
        BY <1>7 DEF MarkByStatus
    <2>2. main' \in ActionStates
        BY <1>2, <1>7 DEF MarkByStatus, Update, StartedMark, StoppedMark
    <2>3. InPlace([th[u] EXCEPT !.pc = where]) /\ Settles(th'[u])
        BY <1>4, <1>5, <2>1 DEF InPlace, Settles, Works, Housekeeping
    <2> QED
        BY <1>0, <1>1, <1>3, <1>4, <1>5, <2>1, <2>2, <2>3, GoStep
<1>8. CASE MarkStart(u)
    <2>1. /\ th[u].kind = "start" /\ Goto(u, "command") /\ owner' = owner
          /\ main' \in MainStates \ {"DISCONNECTED"} /\ main' \notin ActionStates \union ReadyStates
        BY <1>8 DEF MarkStart, Update, MainStates, PassingStates, ActionStates,
                    ReadyStates, UpStates, DownStates
    <2>2. InPlace([th[u] EXCEPT !.pc = "command"])
        BY <1>4, <1>5, <2>1 DEF InPlace
    <2> QED
        BY <1>0, <1>1, <1>4, <1>5, <2>1, <2>2, GoStep
<1>9. CASE PreStop(u)
    <2> PICK where \in {"license", "licensed"} : Goto(u, where)
        BY <1>9 DEF PreStop
    <2>1. th[u].kind \in {"stop", "restart"} /\ owner' = owner /\ main' = main
        BY <1>9 DEF PreStop
    <2>2. InPlace([th[u] EXCEPT !.pc = where]) /\ ~Works(th'[u])
        BY <1>4, <1>5, <2>1 DEF InPlace, Works
    <2> QED
        BY <1>0, <1>1, <1>4, <1>5, <2>1, <2>2, GoStep
<1>10. CASE Refuse(u)
    BY <1>0, <1>1, <1>10, Owns, EndStep DEF Refuse, GiveUp
<1> QED
    BY <1>6, <1>7, <1>8, <1>9, <1>10

-----------------------------------------------------------------------------
\* Where a command to the agent may leave its thread.
LEMMA CommandPlaces ==
    ASSUME IInv, NEW u \in Users, th[u].pc \in CommandPCs,
           NEW l \in Locals, l.kind = th[u].kind, l.saved = th[u].saved,
           l.pc \in {AfterSuccess(u), AfterFailure(u)}
    PROVE  /\ l.pc \notin {"idle", "lock", th[u].pc}
           /\ InPlace(l) /\ Saved(l)
           /\ Settles(th[u]) => Settles(l)
           /\ Works(l) => Works(th[u])
<1>1. th[u] \in Locals /\ InPlace(th[u]) /\ Saved(th[u])
    BY LocalsOf DEF CommandPCs
<1>2. Saved(l)
    BY <1>1 DEF Saved, CommandPCs
<1>3. CASE th[u].kind \in Housekeeping \union {"support_case"}
    <2>1. th[u].pc = "command" /\ th[u].kind \notin {"start", "stop", "restart"}
        BY <1>1, <1>3 DEF InPlace, Checking, CommandPCs, Housekeeping
    <2>2. l.pc = "finish"
        BY <2>1 DEF AfterSuccess, AfterFailure
    <2> QED
        BY <1>2, <1>3, <2>1, <2>2 DEF InPlace, Settles, Works, Housekeeping
<1>4. CASE th[u].kind \in {"start", "stop", "restart"}
    <2>1. /\ th[u].pc \in {"license", "backup_first", "command"}
          /\ th[u].kind = "start" => th[u].pc = "command"
        BY <1>1, <1>4 DEF InPlace, Checking, CommandPCs, Housekeeping
    <2>2. \/ th[u].pc = "license" /\ l.pc \in {"licensed", "not_prepared"}
          \/ th[u].pc = "backup_first" /\ l.pc \in {"backed_up", "not_prepared"}
          \/ th[u].pc = "command" /\ l.pc = "fetch"
          \/ th[u].pc = "command" /\ th[u].kind = "restart" /\ l.pc = "restarted"
        BY <1>4, <2>1 DEF AfterSuccess, AfterFailure
    <2> QED
        BY <1>2, <1>4, <2>1, <2>2 DEF InPlace, Checking, Settles, Works, Housekeeping
<1>5. CASE th[u].kind \in {"restore", "restore_url"}
    <2>1. \/ th[u].pc = "license" /\ l.pc \in {"licensed", "not_prepared"}
          \/ th[u].pc = "backup_first" /\ l.pc \in {"backed_up", "not_prepared"}
          \/ th[u].pc = "get_file" /\ l.pc \in {"restore", "restore_failed"}
          \/ th[u].pc = "restore_stop" /\ l.pc \in {"restore_stopped", "restore_failed"}
          \/ th[u].pc = "restore_run" /\ l.pc \in {"fetch", "restore_failed"}
        BY <1>1, <1>5 DEF InPlace, Checking, CommandPCs, Housekeeping, AfterSuccess, AfterFailure
    <2>2. th[u].kind = "restore_url" => th[u].pc \notin {"license", "backup_first"}
        BY <1>1 DEF InPlace, Checking, Housekeeping
    <2> QED
        BY <1>2, <1>5, <2>1, <2>2 DEF InPlace, Checking, Settles, Works, Housekeeping
<1> QED
    BY <1>1, <1>3, <1>4, <1>5 DEF InPlace

LEMMA EffectIsStatus ==
    ASSUME IInv, NEW u \in Users
    PROVE  {tableau} \union Effect(u) \subseteq TableauStatuses
BY DEF IInv, TypeOK, Effect, TableauStatuses

\* What Controller.remove_agent may do to the main state.
LEMMA Removal ==
    ASSUME IInv, NEW c, RemoveAgentAndStatus(c)
    PROVE  /\ up' \in SUBSET Conns /\ reported' \in Statuses
           /\ \/ main' = main /\ primary' = primary
              \/ main' = "DISCONNECTED" /\ primary' = 0
BY DEF IInv, TypeOK, RemoveAgentAndStatus, RemoveAgent, Statuses

LEMMA CommandStep ==
    ASSUME IInv, NEW u \in Users, Command(u)
    PROVE  UserStep(u)
<1>0. /\ th[u].pc \in CommandPCs /\ th[u].pc \notin {"idle", "lock"}
      /\ th[u] \in Locals /\ th \in [Threads -> Locals] /\ u \in Threads
    BY LocalsOf, Constant DEF Command, CommandSucceeds, CommandFails, CommandLost, CommandPCs
<1>1. AfterSuccess(u) \in PCs /\ AfterFailure(u) \in PCs
    BY DEF AfterSuccess, AfterFailure, PCs, CommandPCs
<1>2. PICK l \in Locals :
        /\ th' = [th EXCEPT ![u] = l]
        /\ l.kind = th[u].kind /\ l.saved = th[u].saved /\ l.conn = th[u].conn
        /\ l.pc \in {AfterSuccess(u), AfterFailure(u)}
    <2>1. CASE CommandSucceeds(u)
        <3> DEFINE k == [th[u] EXCEPT !.pc = AfterSuccess(u), !.started = th[u].kind = "start"]
        <3>1. th' = [th EXCEPT ![u] = k]
            BY <2>1, <1>0 DEF CommandSucceeds
        <3>2. /\ k \in Locals /\ k.pc = AfterSuccess(u)
              /\ k.kind = th[u].kind /\ k.saved = th[u].saved /\ k.conn = th[u].conn
            BY <1>0, <1>1 DEF Locals
        <3> QED
            BY <3>1, <3>2
    <2>2. CASE CommandFails(u) \/ CommandLost(u)
        <3> DEFINE k == [th[u] EXCEPT !.pc = AfterFailure(u)]
        <3>1. th' = [th EXCEPT ![u] = k]
            BY <2>2, <1>0 DEF CommandFails, CommandLost, Goto
        <3>2. /\ k \in Locals /\ k.pc = AfterFailure(u)
              /\ k.kind = th[u].kind /\ k.saved = th[u].saved /\ k.conn = th[u].conn
            BY <1>0, <1>1 DEF Locals
        <3> QED
            BY <3>1, <3>2
    <2> QED
        BY <2>1, <2>2 DEF Command
<1>3. /\ l.pc \notin {"idle", "lock", th[u].pc} /\ InPlace(l) /\ Saved(l)
      /\ Settles(th[u]) => Settles(l)
      /\ Works(l) => Works(th[u])
    BY <1>0, <1>2, CommandPlaces
<1>4. Moves(u) /\ th'[u] = l /\ th'[u] # Idle
    BY <1>0, <1>2, <1>3, MoveTo
<1>5. owner' = owner
    BY DEF Command, CommandSucceeds, CommandFails, CommandLost
<1>6. Locks(u)
    BY <1>0, <1>4, <1>5 DEF Locks
<1>7. Writes(u) /\ up' \in SUBSET Conns /\ reported' \in Statuses
    BY <1>3, <1>4, Removal
        DEF Writes, Command, CommandSucceeds, CommandFails, CommandLost, IInv, TypeOK
<1>8. Leaves
    BY <1>7, EffectIsStatus DEF Leaves, Command, CommandSucceeds, CommandFails, CommandLost
<1> QED
    BY <1>4, <1>6, <1>7, <1>8 DEF UserStep

-----------------------------------------------------------------------------
LEMMA Went ==
    ASSUME IInv, NEW u \in Users, NEW p \in PCs, th[u].pc \notin {"idle", "lock", "check"}
    PROVE  /\ [th[u] EXCEPT !.pc = p].kind = th[u].kind
           /\ [th[u] EXCEPT !.pc = p].pc = p
           /\ Saved([th[u] EXCEPT !.pc = p])
           /\ Goto(u, p) => th'[u] = [th[u] EXCEPT !.pc = p]
<1>1. th[u] \in Locals /\ Saved(th[u]) /\ th \in [Threads -> Locals] /\ u \in Threads
    BY LocalsOf, Constant
<1> QED
    BY <1>1 DEF Locals, Saved, Goto

LEMMA PrepareStep ==
    ASSUME IInv, NEW u \in Users,
           NotPrepared(u) \/ Prepared(u) \/ BackupFirst(u) \/ CopyFailed(u)
    PROVE  UserStep(u)
<1>0. /\ th[u] \in Locals /\ InPlace(th[u]) /\ Saved(th[u])
      /\ th[u].pc \in {"licensed", "backed_up", "not_prepared"}
      /\ UNCHANGED unchangedByUsers
    BY LocalsOf DEF NotPrepared, Prepared, BackupFirst, CopyFailed
<1>1. th[u].kind \in {"stop", "restart", "restore"} /\ InAction(u)
    BY <1>0 DEF InPlace, Checking, InAction, Housekeeping
<1>2. th[u].saved \in ReadyStates
    BY <1>0, <1>1 DEF Saved, Savers
<1>3. CASE NotPrepared(u) \/ CopyFailed(u)
    <2>1. Unlock(u) /\ Return(u) /\ main' \in ReadyStates
        BY <1>2, <1>3 DEF NotPrepared, CopyFailed, PutBack, Update
    <2> QED
        BY <1>0, <1>1, <2>1, Owns, EndStep
<1>4. CASE Prepared(u) \/ BackupFirst(u)
    <2> PICK where \in {"command", "get_file", "backup_first"} :
            /\ Goto(u, where)
            /\ owner' = owner
            /\ \/ /\ th[u].kind \in {"stop", "restart"} /\ where = "command"
                  /\ main' \in {"STOPPING", "RESTARTING"}
               \/ /\ th[u].kind \in {"stop", "restart"} /\ where = "backup_first"
                  /\ main' \in {"STARTED-BACKUP-STOP", "STARTED-BACKUP-RESTART"}
               \/ /\ th[u].kind = "restore" /\ where \in {"get_file", "backup_first"}
                  /\ main' = main
                  /\ where = "backup_first" => th[u].pc = "licensed"
        BY <1>1, <1>4 DEF Prepared, Proceed, BackupFirst, Update
    <2>1. where \in PCs /\ where \notin {"idle", "lock", th[u].pc}
        BY <1>0 DEF PCs, CommandPCs
    <2>2. InPlace([th[u] EXCEPT !.pc = where])
        BY <1>0, <1>1, <2>1, Went DEF InPlace
    <2>3. th'[u].kind = th[u].kind /\ th'[u].pc = where
        <3>1. th'[u] = [th[u] EXCEPT !.pc = where]
            BY <1>0, <2>1, Went
        <3> QED
            BY <1>0, <2>1, <3>1, Went
    <2>4. CASE th[u].kind = "restore"
        <3>1. main' = main /\ Settles(th'[u]) /\ (Works(th'[u]) => Works(th[u]))
            BY <2>3, <2>4 DEF Settles, Works, Housekeeping
        <3> QED
            BY <1>0, <1>1, <2>1, <2>2, <3>1, Went, GoStep
    <2>5. CASE th[u].kind \in {"stop", "restart"}
        <3>1. /\ main' \in MainStates \ {"DISCONNECTED"}
              /\ main' \in ActionStates => Settles(th'[u])
              /\ main' \notin ReadyStates
            BY <2>3, <2>5 DEF Settles, MainStates, PassingStates, ActionStates,
                              ReadyStates, UpStates, DownStates
        <3> QED
            BY <1>0, <1>1, <2>1, <2>2, <3>1, Went, GoStep
    <2> QED
        BY <1>1, <2>4, <2>5
<1> QED
    BY <1>3, <1>4

LEMMA RestoreStep ==
    ASSUME IInv, NEW u \in Users,
           RestoreLocal(u) \/ RestoreStopped(u) \/ RestoreFailed(u)
    PROVE  UserStep(u)
<1>0. /\ th[u] \in Locals /\ InPlace(th[u]) /\ Saved(th[u])
      /\ th[u].pc \in {"restore", "restore_stopped", "restore_failed"}
      /\ UNCHANGED unchangedByUsers /\ owner' = owner
    BY LocalsOf DEF RestoreLocal, RestoreStopped, RestoreFailed
<1>1. th[u].kind \in {"restore", "restore_url"} /\ InAction(u)
    BY <1>0 DEF InPlace, Checking, InAction, Housekeeping
<1> PICK where \in {"restore_stop", "restore_run", "fetch"} :
        /\ Goto(u, where)
        /\ \/ main' \in {"STOPPING-RESTORE", "STARTING-RESTORE"}
           \/ where = "fetch" /\ th[u].kind = "restore" /\ main' = th[u].saved
           \/ where = "fetch" /\ th[u].kind = "restore_url" /\ main' = main
    BY <1>1 DEF RestoreLocal, RestoreStopped, RestoreFailed, Update
<1>2. where \in PCs /\ where \notin {"idle", "lock", th[u].pc}
    BY <1>0 DEF PCs, CommandPCs
<1>3. InPlace([th[u] EXCEPT !.pc = where])
    BY <1>0, <1>1, <1>2, Went DEF InPlace, Checking
<1>4. where = "fetch" => ~Works(th'[u])
    <2>1. th'[u] = [th[u] EXCEPT !.pc = where]
        BY <1>0, <1>2, Went
    <2> QED
        BY <1>0, <1>2, <2>1, Went DEF Works
<1>5. CASE where = "fetch" /\ th[u].kind = "restore_url" /\ main' = main
    <2>1. ~Settles(th[u])
        BY <1>5 DEF Settles, Housekeeping
    <2> QED
        BY <1>0, <1>1, <1>2, <1>3, <1>4, <1>5, <2>1, Went, GoStep
<1>6. CASE ~(where = "fetch" /\ th[u].kind = "restore_url" /\ main' = main)
    <2>1. th[u].kind = "restore" => th[u].saved \in ReadyStates
        BY <1>0 DEF Saved, Savers
    <2>2. /\ main' \in MainStates \ {"DISCONNECTED"} /\ main' \notin ActionStates
          /\ Works(th'[u]) => main' \notin ReadyStates
        BY <1>4, <1>6, <2>1 DEF MainStates, SettledStates, PassingStates, ActionStates,
                                ReadyStates, UpStates, DownStates
    <2> QED
        BY <1>0, <1>1, <1>2, <1>3, <2>2, Went, GoStep
<1> QED
    BY <1>5, <1>6

\* FinishSupportCase without the lock is not here: the controller ends.
LEMMA FinishStep ==
    ASSUME IInv, NEW u \in Users,
           \/ Restarted(u) \/ FinishHousekeeping(u) \/ FinishStart(u) \/ FinishChecked(u)
           \/ (FinishSupportCase(u) /\ owner[th[u].conn] = u)
    PROVE  UserStep(u)
<1>0. /\ th[u] \in Locals /\ InPlace(th[u]) /\ Saved(th[u])
      /\ th[u].pc \in {"restarted", "finish"} /\ InAction(u)
      /\ UNCHANGED unchangedByUsers /\ Unlock(u) /\ Return(u)
    BY LocalsOf DEF Restarted, FinishHousekeeping, FinishStart, FinishChecked, FinishSupportCase,
                    GiveUp, PutBack, InAction
<1>1. CASE FinishChecked(u) \/ (FinishSupportCase(u) /\ owner[th[u].conn] = u)
    <2>1. /\ th[u].pc = "finish" /\ main' = main
          /\ th[u].kind \in {"stop", "restart", "restore", "restore_url", "support_case"}
        BY <1>1 DEF FinishChecked, FinishSupportCase, GiveUp
    <2>2. ~Settles(th[u])
        BY <2>1 DEF Settles, Housekeeping
    <2>3. owner[th[u].conn] = u
        BY <1>0, <1>1, Owns DEF FinishChecked
    <2> QED
        BY <1>0, <2>1, <2>2, <2>3, EndStep
<1>2. CASE Restarted(u) \/ FinishHousekeeping(u) \/ FinishStart(u)
    <2>1. th[u].kind # "support_case"
        BY <1>0, <1>2 DEF InPlace, Checking, Restarted, FinishHousekeeping, FinishStart, Housekeeping
    <2>2. main' \in ReadyStates
        BY <1>0, <1>2 DEF Restarted, FinishHousekeeping, FinishStart, PutBack, Update,
                          Saved, Savers, ReadyStates, UpStates, DownStates
    <2> QED
        BY <1>0, <2>1, <2>2, Owns, EndStep
<1> QED
    BY <1>1, <1>2

-----------------------------------------------------------------------------
\* A user that checks the status has marked nothing, and goes on to its end.
LEMMA CheckPlaces ==
    ASSUME IInv, NEW u \in Users, th[u].pc \in {"fetch", "apply", "write"}
    PROVE  /\ th[u] \in Locals /\ th \in [Threads -> Locals] /\ u \in Threads /\ u # Monitor
           /\ th[u].kind # "support_case" /\ ~Settles(th[u])
           /\ InAction(u) /\ owner[th[u].conn] = u
           /\ \A l \in Locals :
                 /\ l.kind = th[u].kind /\ l.saved = th[u].saved
                 /\ l.pc \in {"apply", "write", "finish"}
                 => InPlace(l) /\ Saved(l) /\ ~Works(l)
<1>1. /\ th[u] \in Locals /\ th \in [Threads -> Locals] /\ u \in Threads /\ u # Monitor
      /\ InPlace(th[u]) /\ Saved(th[u])
    BY LocalsOf, Constant
<1>2. th[u].kind \in {"start", "stop", "restart", "restore", "restore_url"}
    BY <1>1 DEF InPlace, Checking, Housekeeping
<1>3. ~Settles(th[u])
    BY <1>2 DEF Settles, Housekeeping
<1>4. InAction(u) /\ owner[th[u].conn] = u
    BY <1>2, Owns DEF InAction
<1>5. ASSUME NEW l \in Locals, l.kind = th[u].kind, l.saved = th[u].saved,
             l.pc \in {"apply", "write", "finish"}
      PROVE  InPlace(l) /\ Saved(l) /\ ~Works(l)
    <2>1. InPlace(l) /\ ~Works(l)
        BY <1>2, <1>5 DEF InPlace, Checking, Works
    <2>2. Saved(l)
        BY <1>1, <1>5 DEF Saved
    <2> QED
        BY <2>1, <2>2
<1> QED
    BY <1>1, <1>2, <1>3, <1>4, <1>5

LEMMA UserAfterCheck ==
    ASSUME IInv, NEW u \in Users, th[u].pc \in {"fetch", "apply", "write"}, AfterCheck(u)
    PROVE  Moves(u) /\ th'[u] # Idle /\ ~Works(th'[u])
<1> DEFINE l == [th[u] EXCEPT !.pc = "finish", !.fetched = Idle.fetched, !.seen = Idle.seen]
<1>0. th[u] \in Locals /\ u # Monitor
    BY CheckPlaces
<1>1. th' = [th EXCEPT ![u] = l]
    BY <1>0 DEF AfterCheck
<1>2. Idle.fetched \in Statuses /\ Idle.seen \in MainStates /\ "finish" \in PCs
    BY DEF Idle, Statuses, MainStates, SettledStates, PCs
<1>3. /\ l \in Locals /\ l.pc = "finish" /\ l.kind = th[u].kind /\ l.conn = th[u].conn
      /\ l.saved = th[u].saved
    BY <1>0, <1>2 DEF Locals
<1> HIDE DEF l
<1>4. InPlace(l) /\ Saved(l) /\ ~Works(l)
    BY <1>3, CheckPlaces
<1> QED
    BY <1>1, <1>3, <1>4, MoveTo

\* The table of the transitions leads to settled states only.
LEMMA Table ==
    ASSUME NEW prev \in MainStates, NEW status \in Statuses, NEW pre82 \in BOOLEAN
    PROVE  \/ NextState(prev, status, pre82) = prev
           \/ NextState(prev, status, pre82) \in ReadyStates
BY DEF NextState, StateFor, StateWhenStopped, TableauStatuses, ReadyStates, UpStates, DownStates

LEMMA WriteKeeps ==
    ASSUME IInv, NEW t \in Threads, WriteState(t)
    PROVE  main' = main \/ main' \in ReadyStates
<1>1. th[t] \in Locals /\ Pre82 \in BOOLEAN
    BY PaletteAssumption DEF IInv, TypeOK
<1>2. th[t].seen \in MainStates /\ th[t].fetched \in Statuses
    BY <1>1 DEF Locals
<1> QED
    BY <1>1, <1>2, Table DEF WriteState

LEMMA AnswersAreStatuses ==
    ASSUME IInv, NEW c
    PROVE  Answers(c) \subseteq Statuses
BY DEF IInv, TypeOK, Answers, Statuses, TableauStatuses

LEMMA UserCheckStep ==
    ASSUME IInv, NEW u \in Users, CheckStatus(u)
    PROVE  UserStep(u)
<1>0. th[u].pc \in {"fetch", "apply", "write"}
    BY DEF CheckStatus, FetchAnswered, FetchFails, FetchLost, Apply, Write
<1>1. /\ th[u] \in Locals /\ th \in [Threads -> Locals] /\ u \in Threads /\ u # Monitor
      /\ th[u].kind # "support_case" /\ ~Settles(th[u])
      /\ InAction(u) /\ owner[th[u].conn] = u
    BY <1>0, CheckPlaces
<1>2. CASE FetchAnswered(u)
    <2> PICK status \in Answers(th[u].conn) :
            th' = [th EXCEPT ![u].pc = "apply", ![u].fetched = status]
        BY <1>2 DEF FetchAnswered
    <2> DEFINE l == [th[u] EXCEPT !.pc = "apply", !.fetched = status]
    <2>1. status \in Statuses /\ "apply" \in PCs
        BY AnswersAreStatuses DEF PCs
    <2>2. /\ l \in Locals /\ l.pc = "apply" /\ l.kind = th[u].kind /\ l.conn = th[u].conn
          /\ l.saved = th[u].saved /\ th' = [th EXCEPT ![u] = l]
        BY <1>1, <2>1 DEF Locals
    <2> HIDE DEF l
    <2>3. InPlace(l) /\ Saved(l) /\ ~Works(l)
        BY <1>0, <2>2, CheckPlaces
    <2>4. Moves(u) /\ th'[u] # Idle /\ ~Works(th'[u])
        BY <1>2, <2>2, <2>3, MoveTo DEF FetchAnswered
    <2> QED
        BY <1>1, <1>2, <2>4
           DEF FetchAnswered, UserStep, Locks, Writes, Leaves, InAction, IInv, TypeOK
<1>3. CASE FetchFails(u)
    <2>1. Moves(u) /\ th'[u] # Idle /\ ~Works(th'[u])
        BY <1>0, <1>3, UserAfterCheck DEF FetchFails
    <2> QED
        BY <1>1, <1>3, <2>1 DEF FetchFails, UserStep, Locks, Writes, Leaves, InAction, IInv, TypeOK
<1>4. CASE FetchLost(u)
    <2>1. Moves(u) /\ th'[u] # Idle /\ ~Works(th'[u])
        BY <1>0, <1>4, UserAfterCheck DEF FetchLost
    <2>2. Locks(u)
        BY <1>1, <1>4, <2>1 DEF FetchLost, Locks, InAction
    <2>3. Writes(u) /\ Leaves
        BY <1>1, <1>4, <2>1, Removal DEF FetchLost, Writes, Leaves, IInv, TypeOK
    <2> QED
        BY <2>1, <2>2, <2>3 DEF UserStep
<1>5. CASE Apply(u)
    <2> DEFINE l == [th[u] EXCEPT !.pc = "write", !.seen = main]
    <2>1. th' = [th EXCEPT ![u] = l] /\ owner' = owner
        BY <1>1, <1>5 DEF Apply, IInv, TypeOK
    <2>2. /\ l \in Locals /\ l.pc = "write" /\ l.kind = th[u].kind /\ l.conn = th[u].conn
          /\ l.saved = th[u].saved
        BY <1>1 DEF Locals, PCs, IInv, TypeOK
    <2> HIDE DEF l
    <2>3. InPlace(l) /\ Saved(l) /\ ~Works(l)
        BY <1>0, <2>2, CheckPlaces
    <2>4. Moves(u) /\ th'[u] # Idle /\ ~Works(th'[u])
        BY <1>5, <2>1, <2>2, <2>3, MoveTo DEF Apply
    <2> QED
        BY <1>1, <1>5, <2>1, <2>4 DEF Apply, UserStep, Locks, Writes, Leaves, InAction, IInv, TypeOK
<1>6. CASE Write(u)
    <2>1. Moves(u) /\ th'[u] # Idle /\ ~Works(th'[u])
        BY <1>0, <1>6, UserAfterCheck DEF Write
    <2>2. Locks(u)
        BY <1>1, <1>6, <2>1 DEF Write, Locks, InAction
    <2>3. main' = main \/ main' \in ReadyStates
        BY <1>1, <1>6, WriteKeeps DEF Write
    <2>4. Writes(u)
        BY <1>1, <1>6, <2>1, <2>3 DEF Write, Writes, ReadyStates, UpStates, DownStates, MainStates,
                                SettledStates, ActionStates
    <2>5. Leaves
        BY <1>1, <1>6 DEF Write, Leaves, Locals, IInv, TypeOK
    <2> QED
        BY <2>1, <2>2, <2>4, <2>5 DEF UserStep
<1> QED
    BY <1>2, <1>3, <1>4, <1>5, <1>6 DEF CheckStatus

-----------------------------------------------------------------------------
\* Every action of a user is a UserStep, unless it ends the controller.
LEMMA UserSteps ==
    ASSUME IInv, NEW u \in Users, UserAction(u) \/ CheckStatus(u)
    PROVE  UserStep(u) \/ (StartUp /\ UNCHANGED tableau)
<1>1. CASE FinishSupportCase(u)
    BY <1>1, FinishStep DEF FinishSupportCase
<1>2. CASE UserAction(u) /\ ~FinishSupportCase(u)
    BY <1>2, LockStep, CheckStep, EnterStep, CommandStep, PrepareStep, RestoreStep, FinishStep
       DEF UserAction
<1> QED
    BY <1>1, <1>2, UserCheckStep

LEMMA UserStepIInv ==
    ASSUME IInv, NEW u \in Users, UserStep(u)
    PROVE  IInv'
<1> DEFINE c0 == th[u].conn
<1>0. /\ Moves(u) /\ Locks(u) /\ Writes(u) /\ Leaves
      /\ u \in Threads /\ u # Monitor /\ u # Nobody /\ c0 \in Conns
      /\ owner \in [Conns -> Threads \union {Nobody}] /\ th \in [Threads -> Locals]
    BY Constant, LocalsOf DEF UserStep, Moves, IInv, TypeOK
<1>1. TypeOK'
    <2>1. owner' \in [Conns -> Threads \union {Nobody}]
        BY <1>0 DEF Locks
    <2>2. main' \in MainStates /\ primary' \in 0 .. MaxConn
        BY <1>0, PaletteAssumption DEF Writes, IInv, TypeOK, MainStates, SettledStates
    <2> QED
        BY <1>0, <2>1, <2>2 DEF Moves, Alone, Leaves, IInv, TypeOK
<1>2. ThreadsOK'
    BY <1>0, Constant DEF Moves, Alone, IInv, ThreadsOK
<1>3. NoLeakedLock'
    <2> SUFFICES ASSUME NEW c \in Conns, owner'[c] # Nobody
                 PROVE  /\ th'[owner'[c]].conn = c
                        /\ owner'[c] = Monitor => th'[Monitor].pc = "write"
                        /\ owner'[c] # Monitor => th'[owner'[c]].pc \notin {"idle", "lock"}
        BY DEF NoLeakedLock, InAction
    <2>1. CASE owner'[c] = u
        <3>1. owner[c] = u => c = c0 /\ InAction(u)
            BY <1>0 DEF IInv, NoLeakedLock
        <3>2. c = c0
            BY <1>0, <2>1, <3>1 DEF Locks
        <3>3. InAction(u)' /\ th'[u].conn = c
            BY <1>0, <2>1, <3>1, <3>2 DEF Locks, Moves, InAction, Idle
        <3> QED
            BY <1>0, <2>1, <3>3 DEF InAction
    <2>2. CASE owner'[c] # u
        <3>1. owner'[c] = owner[c]
            BY <1>0, <2>2 DEF Locks
        <3>2. owner[c] \in Threads \ {u}
            BY <1>0, <2>2, <3>1
        <3>3. th'[owner[c]] = th[owner[c]] /\ th'[Monitor] = th[Monitor]
            BY <1>0, <3>2, Constant DEF Moves, Alone
        <3> QED
            BY <3>1, <3>2, <3>3 DEF IInv, NoLeakedLock, InAction
    <2> QED
        BY <2>1, <2>2
<1>4. HasLock'
    <2>1. ASSUME NEW v \in Users \ {u}, InAction(v)', th'[v].kind # "support_case"
          PROVE  owner'[th'[v].conn] = v
        <3>1. th'[v] = th[v]
            BY <1>0, Constant DEF Moves, Alone
        <3>2. InAction(v) /\ th[v].kind # "support_case" /\ th[v].conn \in Conns
            BY <2>1, <3>1, LocalsOf DEF InAction
        <3>3. owner[th[v].conn] = v /\ v # Nobody
            BY <3>2, Constant DEF IInv, HasLock
        <3> QED
            BY <1>0, <3>1, <3>2, <3>3 DEF Locks
    <2>2. ASSUME InAction(u)', th'[u].kind # "support_case"
          PROVE  owner'[th'[u].conn] = u
        <3>1. th'[u] # Idle /\ th'[u].kind = th[u].kind /\ th'[u].conn = c0
            BY <1>0, <2>2 DEF Moves, InAction, Idle
        <3>2. CASE owner' = owner
            <4>1. InAction(u)
                BY <1>0, <2>2, <3>1, <3>2 DEF Locks, Moves, InAction
            <4> QED
                BY <2>2, <3>1, <3>2, <4>1 DEF IInv, HasLock
        <3>3. CASE owner' = [owner EXCEPT ![c0] = u]
            BY <1>0, <3>1, <3>3
        <3> QED
            BY <1>0, <3>1, <3>2, <3>3 DEF Locks
    <2>3. th'[Monitor].pc = "write" => owner'[th'[Monitor].conn] = Monitor
        <3>1. th'[Monitor] = th[Monitor]
            BY <1>0, Constant DEF Moves, Alone
        <3>2. th[Monitor].pc = "write" => owner[th[Monitor].conn] = Monitor /\ th[Monitor].conn \in Conns
            BY DEF IInv, HasLock, ThreadsOK, MonitorLocals, Idle
        <3> QED
            BY <1>0, <3>1, <3>2, Constant DEF Locks
    <2> QED
        BY <2>1, <2>2, <2>3 DEF HasLock, InAction
<1>5. Settled'
    <2>1. CASE main' = main /\ (Settles(th[u]) => Settles(th'[u]))
        BY <1>0, <2>1, Constant DEF Moves, Alone, IInv, Settled
    <2>2. CASE main' \in ActionStates => Settles(th'[u])
        BY <2>2 DEF Settled
    <2>3. "DISCONNECTED" \notin ActionStates
        BY DEF ActionStates
    <2> QED
        BY <1>0, <2>1, <2>2, <2>3 DEF Writes
<1>6. WriterIsAlone'
    BY <1>0 DEF Moves, Leaves, IInv, WriterIsAlone
<1>7. ConnectedIsNotDisconnected'
    BY <1>0 DEF Writes, IInv, ConnectedIsNotDisconnected
<1> QED
    BY <1>1, <1>2, <1>3, <1>4, <1>5, <1>6, <1>7 DEF IInv

-----------------------------------------------------------------------------
(***************************************************************************)
(* The steps of the monitor.  It holds a lock from "apply" to "write" only *)
(* and writes the main state only there, unless it finds the agent lost.   *)
(***************************************************************************)
MonitorLocks ==
    LET c == th[Monitor].conn IN
    \/ /\ owner[c] = Nobody /\ th[Monitor].pc = "apply"
       /\ owner' = [owner EXCEPT ![c] = Monitor]
       /\ th'[Monitor].pc = "write" /\ th'[Monitor].conn = c
    \/ /\ owner[c] = Monitor /\ th[Monitor].pc = "write"
       /\ owner' = [owner EXCEPT ![c] = Nobody]
       /\ th'[Monitor] = Idle
    \/ /\ owner' = owner
       /\ th[Monitor].pc # "write" /\ th'[Monitor].pc # "write"

MonitorWrites ==
    \/ main' = main /\ primary' = primary
    \/ main' \in ReadyStates /\ primary' = primary /\ th[Monitor].pc = "write"
    \/ main' = "DISCONNECTED" /\ primary' = 0

MonitorStep ==
    /\ Alone(Monitor) /\ th'[Monitor] \in MonitorLocals
    /\ th[Monitor].pc = "idle" => upgrade = "off"
    /\ MonitorLocks /\ MonitorWrites /\ Leaves

LEMMA MonitorMoves ==
    ASSUME IInv, NEW l \in Locals, th' = [th EXCEPT ![Monitor] = l],
           l = Idle \/ (l.conn \in Conns /\ l.pc \in {"fetch", "apply", "write"}),
           l.pc # th[Monitor].pc
    PROVE  Alone(Monitor) /\ th'[Monitor] = l /\ th'[Monitor] \in MonitorLocals
BY Constant DEF Alone, MonitorLocals, IInv, TypeOK

LEMMA MonitorAfterCheck ==
    ASSUME IInv, AfterCheck(Monitor), th[Monitor].pc # "idle"
    PROVE  /\ Alone(Monitor) /\ th'[Monitor] \in MonitorLocals
           /\ th'[Monitor] = Idle /\ th'[Monitor].pc = "idle"
<1>1. Idle \in Locals /\ Idle.pc = "idle"
    BY IdleIsLocals DEF Idle
<1>2. th' = [th EXCEPT ![Monitor] = Idle]
    BY DEF AfterCheck, Return
<1> QED
    BY <1>1, <1>2, MonitorMoves

LEMMA MonitorStarts ==
    ASSUME IInv, MonitorStart
    PROVE  MonitorStep
<1> DEFINE l == [Idle EXCEPT !.pc = "fetch", !.conn = primary]
<1>1. primary \in Conns /\ th' = [th EXCEPT ![Monitor] = l] /\ th[Monitor].pc = "idle"
    BY PaletteAssumption DEF MonitorStart, Conns, IInv, TypeOK
<1>2. l \in Locals /\ l.conn = primary /\ l.pc = "fetch"
    <2>1. "fetch" \in PCs
        BY DEF PCs
    <2> QED
        BY <1>1, <2>1, Constant, IdleIsLocals DEF Locals
<1> HIDE DEF l
<1>3. Alone(Monitor) /\ th'[Monitor] = l /\ th'[Monitor] \in MonitorLocals
    BY <1>1, <1>2, MonitorMoves
<1> QED
    BY <1>1, <1>2, <1>3
       DEF MonitorStart, CanRead, MonitorStep, MonitorLocks, MonitorWrites, Leaves, IInv, TypeOK

LEMMA MonitorChecks ==
    ASSUME IInv, CheckStatus(Monitor)
    PROVE  MonitorStep
<1> DEFINE m == th[Monitor]
<1>0. /\ m \in Locals /\ m.conn \in Conns /\ m.pc \in {"fetch", "apply", "write"}
      /\ m.pc = "write" => owner[m.conn] = Monitor
      /\ owner[m.conn] = Monitor => m.pc = "write"
      /\ owner[m.conn] \in Threads \union {Nobody}
    BY Constant DEF CheckStatus, FetchAnswered, FetchFails, FetchLost, Apply, Write,
                    IInv, TypeOK, ThreadsOK, MonitorLocals, Idle, HasLock, NoLeakedLock
<1>1. CASE FetchAnswered(Monitor)
    <2> PICK status \in Answers(m.conn) :
            th' = [th EXCEPT ![Monitor].pc = "apply", ![Monitor].fetched = status]
        BY <1>1 DEF FetchAnswered
    <2> DEFINE l == [m EXCEPT !.pc = "apply", !.fetched = status]
    <2>1. status \in Statuses /\ "apply" \in PCs
        BY AnswersAreStatuses DEF PCs
    <2>2. l \in Locals /\ l.pc = "apply" /\ l.conn = m.conn /\ th' = [th EXCEPT ![Monitor] = l]
        BY <1>0, <2>1, Constant DEF Locals, IInv, TypeOK
    <2> HIDE DEF l
    <2>3. m.pc = "fetch"
        BY <1>1 DEF FetchAnswered
    <2>4. Alone(Monitor) /\ th'[Monitor] = l /\ th'[Monitor] \in MonitorLocals
        BY <1>0, <2>2, <2>3, MonitorMoves
    <2> QED
        BY <1>1, <2>2, <2>3, <2>4
           DEF FetchAnswered, MonitorStep, MonitorLocks, MonitorWrites, Leaves, IInv, TypeOK
<1>2. CASE FetchFails(Monitor)
    BY <1>0, <1>2, MonitorAfterCheck
       DEF FetchFails, MonitorStep, MonitorLocks, MonitorWrites, Leaves, IInv, TypeOK
<1>3. CASE FetchLost(Monitor)
    <2>1. MonitorWrites /\ Leaves
        BY <1>3, Removal DEF FetchLost, MonitorWrites, Leaves, IInv, TypeOK
    <2> QED
        BY <1>0, <1>3, <2>1, MonitorAfterCheck DEF FetchLost, MonitorStep, MonitorLocks
<1>4. CASE Apply(Monitor) /\ owner[m.conn] = Nobody
    <2> DEFINE l == [m EXCEPT !.pc = "write", !.seen = main]
    <2>1. /\ th' = [th EXCEPT ![Monitor] = l] /\ owner' = [owner EXCEPT ![m.conn] = Monitor]
          /\ m.pc = "apply"
        BY <1>4, Constant DEF Apply, IInv, TypeOK
    <2>2. l \in Locals /\ l.pc = "write" /\ l.conn = m.conn
        BY <1>0 DEF Locals, PCs, IInv, TypeOK
    <2> HIDE DEF l
    <2>3. Alone(Monitor) /\ th'[Monitor] = l /\ th'[Monitor] \in MonitorLocals
        BY <1>0, <2>1, <2>2, MonitorMoves
    <2>4. UNCHANGED <<main, reported, tableau, primary, handler, up, upgrade>>
        BY <1>4 DEF Apply
    <2> QED
        BY <1>4, <2>1, <2>2, <2>3, <2>4
           DEF MonitorStep, MonitorLocks, MonitorWrites, Leaves, IInv, TypeOK
<1>5. CASE Apply(Monitor) /\ owner[m.conn] # Nobody
    <2>1. AfterCheck(Monitor) /\ owner' = owner /\ m.pc = "apply"
        BY <1>0, <1>5 DEF Apply
    <2> QED
        BY <1>5, <2>1, MonitorAfterCheck
           DEF Apply, MonitorStep, MonitorLocks, MonitorWrites, Leaves, IInv, TypeOK
<1>6. CASE Write(Monitor)
    <2>1. main' = main \/ main' \in ReadyStates
        BY <1>6, Constant, WriteKeeps DEF Write
    <2>2. MonitorWrites /\ Leaves
        BY <1>0, <1>6, <2>1 DEF Write, MonitorWrites, Leaves, Locals, IInv, TypeOK
    <2> QED
        BY <1>0, <1>6, <2>2, MonitorAfterCheck DEF Write, Unlock, MonitorStep, MonitorLocks
<1> QED
    BY <1>1, <1>2, <1>3, <1>4, <1>5, <1>6 DEF CheckStatus

LEMMA MonitorStepIInv ==
    ASSUME IInv, MonitorStep
    PROVE  IInv'
<1> DEFINE m == th[Monitor]
<1>0. /\ Alone(Monitor) /\ th'[Monitor] \in MonitorLocals
      /\ MonitorLocks /\ MonitorWrites /\ Leaves
      /\ \A u \in Users : th'[u] = th[u] /\ u # Monitor /\ u # Nobody
      /\ Monitor # Nobody /\ Monitor \in Threads
      /\ owner \in [Conns -> Threads \union {Nobody}]
      /\ m = Idle \/ m.conn \in Conns
    BY Constant DEF MonitorStep, Alone, IInv, TypeOK, ThreadsOK, MonitorLocals
<1>1. TypeOK'
    <2>1. owner' \in [Conns -> Threads \union {Nobody}]
        BY <1>0 DEF MonitorLocks
    <2>2. main' \in MainStates /\ primary' \in 0 .. MaxConn
        BY <1>0, PaletteAssumption
           DEF MonitorWrites, IInv, TypeOK, MainStates, SettledStates, ReadyStates, UpStates, DownStates
    <2> QED
        BY <1>0, <2>1, <2>2 DEF Alone, Leaves, IInv, TypeOK
<1>2. ThreadsOK'
    BY <1>0, Constant DEF IInv, ThreadsOK
<1>3. NoLeakedLock'
    <2> SUFFICES ASSUME NEW c \in Conns, owner'[c] # Nobody
                 PROVE  /\ th'[owner'[c]].conn = c
                        /\ owner'[c] = Monitor => th'[Monitor].pc = "write"
                        /\ owner'[c] # Monitor => th'[owner'[c]].pc \notin {"idle", "lock"}
        BY DEF NoLeakedLock, InAction
    <2>1. CASE owner'[c] = Monitor
        <3>1. owner[c] = Monitor => c = m.conn /\ m.pc = "write"
            BY <1>0 DEF IInv, NoLeakedLock
        <3> QED
            BY <1>0, <2>1, <3>1 DEF MonitorLocks
    <2>2. CASE owner'[c] # Monitor
        <3>1. owner'[c] = owner[c]
            BY <1>0, <2>2 DEF MonitorLocks
        <3>2. owner[c] \in Users
            BY <1>0, <2>2, <3>1 DEF Threads
        <3> QED
            BY <1>0, <2>2, <3>1, <3>2 DEF IInv, NoLeakedLock, InAction
    <2> QED
        BY <2>1, <2>2
<1>4. HasLock'
    <2>1. ASSUME NEW u \in Users, InAction(u), th[u].kind # "support_case"
          PROVE  owner'[th[u].conn] = u
        <3>1. owner[th[u].conn] = u /\ th[u].conn \in Conns
            BY <2>1, LocalsOf DEF IInv, HasLock, InAction
        <3> QED
            BY <1>0, <3>1 DEF MonitorLocks
    <2>2. th'[Monitor].pc = "write" => owner'[th'[Monitor].conn] = Monitor
        BY <1>0 DEF MonitorLocks, Idle
    <2> QED
        BY <1>0, <2>1, <2>2 DEF HasLock, InAction
<1>5. Settled'
    <2>1. main' \in ActionStates => main' = main
        BY <1>0 DEF MonitorWrites, ActionStates, ReadyStates, UpStates, DownStates
    <2> QED
        BY <1>0, <2>1 DEF IInv, Settled
<1>6. WriterIsAlone'
    BY Constant DEF MonitorStep, Leaves, IInv, WriterIsAlone
<1>7. ConnectedIsNotDisconnected'
    BY <1>0 DEF MonitorWrites, IInv, ConnectedIsNotDisconnected, ReadyStates, UpStates, DownStates
<1> QED
    BY <1>1, <1>2, <1>3, <1>4, <1>5, <1>6, <1>7 DEF IInv

-----------------------------------------------------------------------------
\* The steps of everybody else.
LEMMA StartUpIInv == ASSUME StartUp, tableau' \in TableauStatuses PROVE IInv'
<1>1. TypeOK'
    BY IdleIsLocals, PaletteAssumption
       DEF StartUp, TypeOK, MainStates, SettledStates, Statuses, HandlerStates, UpgradeStates
<1>2. ThreadsOK'
    BY DEF StartUp, ThreadsOK, UserLocals, MonitorLocals, Threads
<1>3. HasLock' /\ NoLeakedLock'
    BY DEF StartUp, HasLock, NoLeakedLock, InAction, Idle, Threads
<1>4. Settled' /\ WriterIsAlone' /\ ConnectedIsNotDisconnected'
    BY DEF StartUp, Settled, WriterIsAlone, ConnectedIsNotDisconnected, ActionStates
<1> QED
    BY <1>1, <1>2, <1>3, <1>4 DEF IInv

\* A step that leaves the threads and their locks alone.
LEMMA QuietIInv ==
    ASSUME IInv, th' = th, owner' = owner,
           primary' \in 0 .. MaxConn, handler' \in [Conns -> HandlerStates],
           up' \in SUBSET Conns, reported' \in Statuses, tableau' \in TableauStatuses,
           \/ main' = main /\ primary' = primary
           \/ main' = "PENDING"
           \/ main' = "DISCONNECTED" /\ primary' = 0,
           upgrade' \in UpgradeStates,
           upgrade' \in {"checking", "on"} =>
               upgrade \in {"checking", "on"} \/ \A t \in Threads : th[t].pc = "idle"
    PROVE  IInv'
<1>1. main' \in MainStates
    BY DEF IInv, TypeOK, MainStates, SettledStates
<1>2. TypeOK'
    BY <1>1 DEF IInv, TypeOK
<1>3. Settled' /\ ConnectedIsNotDisconnected'
    BY DEF IInv, Settled, ConnectedIsNotDisconnected, ActionStates
<1> QED
    BY <1>2, <1>3 DEF IInv, ThreadsOK, HasLock, NoLeakedLock, WriterIsAlone, InAction

LEMMA CallIInv ==
    ASSUME IInv, NEW u \in Users, Call(u)
    PROVE  IInv'
<1> PICK kind \in Kinds :
        th' = [th EXCEPT ![u] = [Idle EXCEPT !.pc = "lock", !.kind = kind, !.conn = primary]]
    BY DEF Call
<1> DEFINE l == [Idle EXCEPT !.pc = "lock", !.kind = kind, !.conn = primary]
<1>0. /\ primary \in Conns /\ kind \in AllKinds /\ th \in [Threads -> Locals]
      /\ u \in Threads /\ u # Monitor /\ u # Nobody /\ Monitor \in Threads
      /\ th[u].pc = "idle" /\ upgrade = "off"
      /\ UNCHANGED <<main, reported, tableau, primary, handler, up, owner, upgrade>>
    BY PaletteAssumption, Constant DEF Call, CanRead, Conns, IInv, TypeOK
<1>1. /\ l \in Locals /\ l.pc = "lock" /\ l.kind = kind /\ l.conn = primary
      /\ l.saved = "DISCONNECTED"
    <2>1. "lock" \in PCs
        BY DEF PCs
    <2> QED
        BY <1>0, <2>1, Constant, IdleIsLocals, IdleFields DEF Locals
<1>2. InPlace(l) /\ Saved(l)
    BY <1>0, <1>1 DEF InPlace, Saved, AllKinds
<1> HIDE DEF l
<1>3. /\ th' \in [Threads -> Locals] /\ th'[u] = l
      /\ \A t \in Threads \ {u} : th'[t] = th[t]
    BY <1>0, <1>1 DEF l
<1>4. l \in UserLocals
    BY <1>0, <1>1, <1>2 DEF UserLocals
<1>5. TypeOK' /\ ThreadsOK'
    BY <1>0, <1>3, <1>4, Constant DEF IInv, TypeOK, ThreadsOK
<1>6. HasLock'
    BY <1>0, <1>1, <1>3, Constant DEF IInv, HasLock, InAction
<1>7. NoLeakedLock'
    <2> SUFFICES ASSUME NEW c \in Conns, owner[c] # Nobody
                 PROVE  /\ th'[owner[c]].conn = c
                        /\ owner[c] = Monitor => th'[Monitor].pc = "write"
                        /\ owner[c] # Monitor => th'[owner[c]].pc \notin {"idle", "lock"}
        BY <1>0 DEF NoLeakedLock, InAction
    <2>1. owner[c] # u /\ owner[c] \in Threads
        BY <1>0 DEF IInv, TypeOK, NoLeakedLock, InAction
    <2> QED
        BY <1>0, <1>3, <2>1 DEF IInv, NoLeakedLock, InAction
<1>8. Settled'
    <2>1. ~Settles(th[u])
        BY <1>0 DEF Settles
    <2> QED
        BY <1>0, <1>3, <2>1, Constant DEF IInv, Settled
<1> QED
    BY <1>0, <1>5, <1>6, <1>7, <1>8 DEF IInv, WriterIsAlone, ConnectedIsNotDisconnected

LEMMA ConnectionsIInv ==
    ASSUME IInv, Connections
    PROVE  IInv'
<1>0. TypeOK /\ primary \in 0 .. MaxConn
    BY DEF IInv, TypeOK
<1> PICK c \in Conns : \/ Connect(c) \/ SetupFails(c) \/ Register(c)
                       \/ FinishSetup(c) \/ SetupAborts(c) \/ PingFails(c)
    BY DEF Connections
<1>1. th' = th /\ owner' = owner /\ upgrade' = upgrade /\ tableau' = tableau
    BY DEF Connect, SetupFails, Register, FinishSetup, SetupAborts, PingFails
<1>2. handler' \in [Conns -> HandlerStates]
    BY <1>0 DEF TypeOK, HandlerStates, Connect, SetupFails, Register, FinishSetup, SetupAborts, PingFails
<1>3. /\ up' \in SUBSET Conns /\ reported' \in Statuses
      /\ \/ main' = main /\ primary' = primary
         \/ main' = "PENDING" /\ primary' = c
         \/ main' = "DISCONNECTED" /\ primary' = 0
    BY <1>0, Removal DEF TypeOK, Connect, SetupFails, Register, FinishSetup, SetupAborts, PingFails,
                         RemoveAgent
<1>4. primary' \in 0 .. MaxConn
    BY <1>0, <1>3, Constant, PaletteAssumption
<1> QED
    BY <1>0, <1>1, <1>2, <1>3, <1>4, QuietIInv DEF TypeOK

LEMMA UpgradeIInv ==
    ASSUME IInv, Upgrade
    PROVE  IInv'
<1>1. UNCHANGED <<main, reported, tableau, primary, handler, up, owner, th>>
    BY DEF Upgrade, UpgradeOn, UpgradeAcquired, UpgradeChecked, UpgradeOff
<1>2. upgrade' \in UpgradeStates
    BY DEF Upgrade, UpgradeOn, UpgradeAcquired, UpgradeChecked, UpgradeOff, UpgradeStates
<1>3. upgrade' \in {"checking", "on"} =>
          upgrade \in {"checking", "on"} \/ \A t \in Threads : th[t].pc = "idle"
    BY DEF Upgrade, UpgradeOn, UpgradeAcquired, UpgradeChecked, UpgradeOff, ReadingThreads
<1> QED
    BY <1>1, <1>2, <1>3, QuietIInv DEF IInv, TypeOK

LEMMA EnvironmentIInv ==
    ASSUME IInv, Environment
    PROVE  IInv'
<1>1. CASE Crash
    BY <1>1, StartUpIInv DEF Crash, IInv, TypeOK
<1>2. CASE Outside
    BY <1>2, QuietIInv DEF Outside, IInv, TypeOK
<1>3. CASE \E c \in Conns : Disconnect(c)
    BY <1>3, QuietIInv DEF Disconnect, IInv, TypeOK
<1> QED
    BY <1>1, <1>2, <1>3 DEF Environment

LEMMA StepIInv == IInv /\ [Next]_vars => IInv'
<1> SUFFICES ASSUME IInv, [Next]_vars PROVE IInv'
    OBVIOUS
<1>1. CASE \E u \in Users : Call(u) \/ UserAction(u) \/ CheckStatus(u)
    BY <1>1, CallIInv, UserSteps, UserStepIInv, StartUpIInv DEF IInv, TypeOK
<1>2. CASE MonitorStart \/ CheckStatus(Monitor)
    BY <1>2, MonitorStarts, MonitorChecks, MonitorStepIInv
<1>3. CASE Connections \/ Upgrade \/ Environment
    BY <1>3, ConnectionsIInv, UpgradeIInv, EnvironmentIInv
<1>4. CASE UNCHANGED vars
    BY <1>4 DEF vars, IInv, TypeOK, ThreadsOK, HasLock, NoLeakedLock, Settled, WriterIsAlone,
                ConnectedIsNotDisconnected, InAction
<1> QED
    BY <1>1, <1>2, <1>3, <1>4 DEF Next, Threads

(***************************************************************************)
(* Whatever is typed and whatever fails, for any number of users and of    *)
(* connections: every place in every action has the lock it needs, and a   *)
(* main state that only an action can end has a thread that will end it.   *)
(***************************************************************************)
THEOREM Invariance == Spec => []IInv
<1> QED
    BY InitIInv, StepIInv, PTL DEF Spec

(***************************************************************************)
(* The user action locks keep two actions on one connection apart and are  *)
(* given up on every return path; the upgrade lock keeps upgrades apart    *)
(* from actions, checks and the states that actions mark.                  *)
(***************************************************************************)
THEOREM LocksKeepThemApart == Spec => []LocksKeepApart
<1>1. IInv => LocksKeepApart
    <2> SUFFICES ASSUME IInv PROVE LocksKeepApart
        OBVIOUS
    <2>1. OneUserAction
        BY DEF IInv, HasLock, OneUserAction
    <2>2. UpgradeIsExclusive
        <3> SUFFICES ASSUME upgrade \in {"checking", "on"}
                     PROVE  /\ \A t \in Threads : th[t].pc = "idle"
                            /\ main \notin ActionStates
            BY DEF UpgradeIsExclusive
        <3>1. \A t \in Threads : th[t].pc = "idle"
            BY DEF IInv, WriterIsAlone
        <3>2. \A u \in Users : ~Settles(th[u])
            BY <3>1, Constant DEF Settles
        <3> QED
            BY <3>1, <3>2 DEF IInv, Settled
    <2> QED
        BY <2>1, <2>2 DEF IInv, LocksKeepApart
<1> QED
    BY <1>1, Invariance, PTL

(***************************************************************************)
(* A main state that no status check can leave always has an action that   *)
(* is still going to write it, on its error paths too and although the     *)
(* agent may have gone and come back; and it is never DISCONNECTED with a  *)
(* primary in the dictionary.                                              *)
(***************************************************************************)
THEOREM NoTrap == Spec => []NoStateIsATrap
<1>1. IInv => NoStateIsATrap
    <2> SUFFICES ASSUME IInv PROVE NoStateIsATrap
        OBVIOUS
    <2>1. ASSUME NEW u \in Users, Settles(th[u])
          PROVE  WillSettle(u)
        BY <2>1 DEF Settles, WillSettle, InAction
    <2>2. NoOrphanedAction
        BY <2>1 DEF IInv, Settled, NoOrphanedAction
    <2> QED
        BY <2>2 DEF IInv, NoStateIsATrap
<1> QED
    BY <1>1, Invariance, PTL

(***************************************************************************)
(* tableau.py:977, for any number of connections: while a thread has the   *)
(* user action lock nobody else on that connection writes the main state,  *)
(* but for the agent that comes or goes.                                   *)
(***************************************************************************)
OwnerControls ==
    \A c \in Conns, u \in Users :
        /\ owner[c] = u
        /\ th'[u] = th[u]
        /\ main' # main
        => main' \in {"PENDING", "DISCONNECTED"} \/ StepsElsewhere(c)

LEMMA OwnerControlsStep == IInv /\ [Next]_vars => OwnerControls
<1> SUFFICES ASSUME IInv, [Next]_vars, NEW c \in Conns, NEW u \in Users,
                    owner[c] = u, th'[u] = th[u], main' # main,
                    main' \notin {"PENDING", "DISCONNECTED"}
             PROVE  StepsElsewhere(c)
    BY DEF OwnerControls
<1>1. ASSUME NEW v \in Users, UserAction(v) \/ CheckStatus(v)
      PROVE  StepsElsewhere(c)
    <2>1. UserStep(v)
        BY <1>1, UserSteps DEF StartUp
    <2>2. v # u /\ th'[v] # th[v]
        BY <2>1 DEF UserStep, Moves, Alone
    <2>3. owner[th[v].conn] = v
        BY <2>1, Owns DEF UserStep, Writes
    <2> QED
        BY <2>2, <2>3, Constant DEF StepsElsewhere
<1>2. ASSUME MonitorStart \/ CheckStatus(Monitor)
      PROVE  StepsElsewhere(c)
    <2>1. MonitorStep
        BY <1>2, MonitorStarts, MonitorChecks
    <2>2. th'[Monitor] # th[Monitor] /\ th[Monitor].pc = "write"
        BY <2>1 DEF MonitorStep, MonitorWrites, Alone
    <2>3. owner[th[Monitor].conn] = Monitor
        BY <2>2 DEF IInv, HasLock
    <2> QED
        BY <2>2, <2>3, Constant DEF StepsElsewhere
<1>3. ~\E v \in Users : Call(v)
    BY DEF Call
<1>4. ~Connections
    BY DEF Connections, Connect, SetupFails, Register, FinishSetup, SetupAborts, PingFails,
           RemoveAgentAndStatus, RemoveAgent
<1>5. ~Upgrade /\ ~Environment
    BY DEF Upgrade, UpgradeOn, UpgradeAcquired, UpgradeChecked, UpgradeOff,
           Environment, Crash, StartUp, Outside, Disconnect
<1>6. ~UNCHANGED vars
    BY DEF vars
<1> QED
    BY <1>1, <1>2, <1>3, <1>4, <1>5, <1>6 DEF Next, Threads

(***************************************************************************)
(* tableau.py:977, "that thread should control the state": whoever else    *)
(* writes the main state while an action has the lock of its connection is *)
(* the agent that comes or goes, or a thread on another connection.        *)
(***************************************************************************)
THEOREM TheOwnerControls == Spec => LockOwnerControlsState
<1>1. IInv /\ [Next]_vars => [OwnerControls]_vars
    BY OwnerControlsStep
<1> QED
    BY <1>1, Invariance, PTL DEF Spec, LockOwnerControlsState, OwnerControls

-----------------------------------------------------------------------------
(***************************************************************************)
(* The refinement: what a step does to the upgrade lock.  Readers is what  *)
(* AbstractRWLock calls "reading", the writer is "writing" or "waiting".   *)
(***************************************************************************)
Readers == ReadingThreads \union ReadingConns

LockStep_ == [Lock_!Next \/ StartUp]_(Lock_!vars)

LEMMA NobodyReads ==
    ASSUME Readers' = Readers, upgrade' = upgrade
    PROVE  LockStep_
BY DEF LockStep_, Lock_!vars, Readers

LEMMA OneStartsReading ==
    ASSUME NEW t \in Threads \union Conns, t \notin Readers, Readers' = Readers \union {t},
           upgrade = "off", upgrade' = upgrade
    PROVE  LockStep_
<1>1. Lock_!StartReading(t)
    BY DEF Lock_!StartReading, Readers
<1> QED
    BY <1>1 DEF LockStep_, Lock_!Next

LEMMA OneStopsReading ==
    ASSUME NEW t \in Threads \union Conns, t \in Readers, Readers' = Readers \ {t},
           upgrade' = upgrade
    PROVE  LockStep_
<1>1. Lock_!StopReading(t)
    BY DEF Lock_!StopReading, Readers
<1> QED
    BY <1>1 DEF LockStep_, Lock_!Next

\* A thread that steps alone reads from the start of its command to its end.
LEMMA AloneReads ==
    ASSUME NEW t \in Threads, handler' = handler, upgrade' = upgrade,
           \A s \in Threads \ {t} : th'[s] = th[s],
           th[t].pc = "idle" => upgrade = "off"
    PROVE  LockStep_
<1>1. t \notin ReadingConns /\ ReadingConns' = ReadingConns
    BY ReaderAssumption DEF ReadingConns
<1>2. CASE th[t].pc = "idle" /\ th'[t].pc # "idle"
    <2>1. t \notin Readers /\ Readers' = Readers \union {t}
        BY <1>1, <1>2 DEF Readers, ReadingThreads
    <2> QED
        BY <1>2, <2>1, OneStartsReading
<1>3. CASE th[t].pc # "idle" /\ th'[t].pc = "idle"
    <2>1. t \in Readers /\ Readers' = Readers \ {t}
        BY <1>1, <1>3 DEF Readers, ReadingThreads
    <2> QED
        BY <2>1, OneStopsReading
<1>4. CASE (th[t].pc = "idle") = (th'[t].pc = "idle")
    <2>1. Readers' = Readers
        BY <1>1, <1>4 DEF Readers, ReadingThreads
    <2> QED
        BY <2>1, NobodyReads
<1> QED
    BY <1>2, <1>3, <1>4

LEMMA ConnectionReads ==
    ASSUME IInv, NEW c \in Conns,
           \/ Connect(c) \/ SetupFails(c) \/ Register(c)
           \/ FinishSetup(c) \/ SetupAborts(c) \/ PingFails(c)
    PROVE  LockStep_
<1> DEFINE reads(state) == state \in {"setup", "registered"}
<1>0. /\ c \notin ReadingThreads /\ ReadingThreads' = ReadingThreads /\ upgrade' = upgrade
      /\ handler \in [Conns -> HandlerStates]
    BY ReaderAssumption
       DEF ReadingThreads, Connect, SetupFails, Register, FinishSetup, SetupAborts, PingFails,
           IInv, TypeOK
<1>1. /\ \A d \in Conns \ {c} : handler'[d] = handler[d]
      /\ \/ ~reads(handler[c]) /\ reads(handler'[c]) /\ upgrade = "off"
         \/ reads(handler[c]) /\ ~reads(handler'[c])
         \/ reads(handler[c]) /\ reads(handler'[c])
         \/ ~reads(handler[c]) /\ ~reads(handler'[c])
    BY <1>0 DEF Connect, CanRead, SetupFails, Register, FinishSetup, SetupAborts, PingFails
<1>2. CASE ~reads(handler[c]) /\ reads(handler'[c]) /\ upgrade = "off"
    <2>1. c \notin Readers /\ Readers' = Readers \union {c}
        BY <1>0, <1>1, <1>2 DEF Readers, ReadingConns
    <2> QED
        BY <1>0, <1>2, <2>1, OneStartsReading
<1>3. CASE reads(handler[c]) /\ ~reads(handler'[c])
    <2>1. c \in Readers /\ Readers' = Readers \ {c}
        BY <1>0, <1>1, <1>3 DEF Readers, ReadingConns
    <2> QED
        BY <1>0, <2>1, OneStopsReading
<1>4. CASE reads(handler[c]) <=> reads(handler'[c])
    <2>1. Readers' = Readers
        BY <1>0, <1>1, <1>4 DEF Readers, ReadingConns
    <2> QED
        BY <1>0, <2>1, NobodyReads
<1> QED
    BY <1>1, <1>2, <1>3, <1>4

LEMMA WriterSteps == ASSUME Upgrade PROVE LockStep_
<1>0. /\ Readers' = Readers
      /\ Readers = {} <=> ReadingThreads = {} /\ ReadingConns = {}
    BY DEF Readers, ReadingThreads, ReadingConns, Upgrade, UpgradeOn, UpgradeAcquired,
           UpgradeChecked, UpgradeOff
<1>1. CASE UpgradeOn \/ UpgradeAcquired
    <2>1. Lock_!StartWriting(Upgrader) \/ Lock_!StartWaiting(Upgrader)
        BY <1>0, <1>1
           DEF UpgradeOn, UpgradeAcquired, Lock_!StartWriting, Lock_!StartWaiting, Readers
    <2> QED
        BY <2>1 DEF LockStep_, Lock_!Next
<1>2. CASE (UpgradeChecked \/ UpgradeOff) /\ upgrade' = "off"
    <2>1. Lock_!StopWriting(Upgrader)
        BY <1>0, <1>2 DEF UpgradeChecked, UpgradeOff, Lock_!StopWriting, Readers
    <2> QED
        BY <2>1 DEF LockStep_, Lock_!Next
<1>3. CASE UpgradeChecked /\ upgrade' = "on"
    BY <1>0, <1>3 DEF UpgradeChecked, LockStep_, Lock_!vars, Readers
<1> QED
    BY <1>1, <1>2, <1>3 DEF Upgrade, UpgradeChecked, UpgradeOff

LEMMA LockSteps == IInv /\ [Next]_vars => LockStep_
<1> SUFFICES ASSUME IInv, [Next]_vars PROVE LockStep_
    OBVIOUS
<1>1. ASSUME NEW u \in Users, UserAction(u) \/ CheckStatus(u)
      PROVE  LockStep_
    <2>1. CASE UserStep(u)
        BY <2>1, Constant, AloneReads DEF UserStep, Moves, Alone, Leaves
    <2>2. CASE StartUp
        BY <2>2 DEF LockStep_
    <2> QED
        BY <1>1, <2>1, <2>2, UserSteps
<1>2. CASE MonitorStart \/ CheckStatus(Monitor)
    <2>1. MonitorStep
        BY <1>2, MonitorStarts, MonitorChecks
    <2> QED
        BY <2>1, Constant, AloneReads DEF MonitorStep, Alone, Leaves
<1>3. ASSUME NEW u \in Users, Call(u)
      PROVE  LockStep_
    <2>1. \A s \in Threads \ {u} : th'[s] = th[s]
        BY <1>3 DEF Call, IInv, TypeOK
    <2> QED
        BY <1>3, <2>1, Constant, AloneReads DEF Call, CanRead
<1>4. CASE Connections
    BY <1>4, ConnectionReads DEF Connections
<1>5. CASE Environment
    BY <1>5, NobodyReads
       DEF Environment, Crash, Outside, Disconnect, LockStep_, Readers, ReadingThreads, ReadingConns
<1>6. CASE UNCHANGED vars
    BY <1>6, NobodyReads DEF vars, Readers, ReadingThreads, ReadingConns
<1> QED
    BY <1>1, <1>2, <1>3, <1>4, <1>5, <1>6, WriterSteps DEF Next, Threads

(***************************************************************************)
(* Commands, checks, agent setups and upgrades use the upgrade lock as its *)
(* contract says, for any number of them: AbstractRWLock, which RWLock     *)
(* implements.  Only the end of the controller takes the lock away.        *)
(***************************************************************************)
THEOREM LockIsUsedAsPromised == Spec => ImplementsLock
<1>1. Init => Lock_!Init
    BY DEF Init, Lock_!Init, ReadingThreads, ReadingConns, Idle
<1>2. IInv /\ [Next]_vars => [Lock_!Next \/ StartUp]_(Lock_!vars)
    BY LockSteps DEF LockStep_
<1> QED
    BY <1>1, <1>2, Invariance, PTL DEF Spec, ImplementsLock

-----------------------------------------------------------------------------
(***************************************************************************)
(* The page.  The colour it shows is the worst of several: green only when *)
(* every one of them is.                                                   *)
(***************************************************************************)
LEMMA WorstIsGreen ==
    ASSUME NEW colors \in SUBSET Colors, Worst(colors) = "green"
    PROVE  \A c \in colors : c = "green"
<1>1. Rank("red") = 1 /\ Rank("yellow") = 2 /\ Rank("green") = 3
    BY DEF Rank
<1>2. CASE \E c \in colors : c # "green"
    <2> DEFINE least(c) == c \in colors /\ \A d \in colors : Rank(c) <= Rank(d)
    <2>1. \E c \in {"red", "yellow"} : least(c)
        BY <1>1, <1>2 DEF Colors
    <2>2. least(Worst(colors))
        BY <2>1 DEF Worst
    <2> QED
        BY <1>1, <1>2, <2>2 DEF Colors
<1> QED
    BY <1>2

\* A machine that is not enabled is not connected.
LEMMA RowFields ==
    ASSUME NEW type \in {"primary", "worker"}, NEW connected \in SUBSET BOOLEAN,
           NEW m \in Machines(type, connected)
    PROVE  /\ m.type = type /\ m.enabled \in BOOLEAN /\ m.connected \in BOOLEAN
           /\ m.health \in {"green", "red"}
           /\ m.connected = TRUE => TRUE \in connected
<1>1. CASE m \in [type : {type}, enabled : {TRUE}, connected : connected,
                  health : {"green", "red"}, procs : {"none", "running", "broken", "error"}]
    BY <1>1
<1>2. CASE m = [type |-> type, enabled |-> FALSE, connected |-> FALSE, health |-> "red",
                procs |-> "error"]
    <2>1. m.enabled = FALSE /\ m.connected = FALSE
        BY <1>2
    <2>2. m.type = type /\ m.health = "red"
        BY <1>2
    <2> QED
        BY <2>1, <2>2
<1> QED
    BY <1>1, <1>2 DEF Machines

LEMMA PageRows ==
    ASSUME NEW p \in Primaries, NEW w \in Workers
    PROVE  /\ \A m \in {p, w} :
                 /\ m.type \in {"primary", "worker"} /\ m.enabled \in BOOLEAN
                 /\ m.connected \in BOOLEAN /\ m.health \in {"green", "red"}
           /\ p.type = "primary"
           /\ p.connected = TRUE => primary # 0 \/ ReadingConns # {}
<1> DEFINE connected == IF primary # 0 THEN {TRUE} ELSE IF ReadingConns # {} THEN BOOLEAN ELSE {FALSE}
<1>1. connected \in SUBSET BOOLEAN /\ (TRUE \in connected => primary # 0 \/ ReadingConns # {})
    OBVIOUS
<1>2. p \in Machines("primary", connected) /\ w \in Machines("worker", BOOLEAN)
    BY DEF Primaries, Workers
<1> HIDE DEF connected
<1>3. /\ p.type = "primary" /\ p.enabled \in BOOLEAN /\ p.connected \in BOOLEAN
      /\ p.health \in {"green", "red"}
      /\ p.connected = TRUE => TRUE \in connected
    BY <1>1, <1>2, RowFields
<1>4. /\ w.type = "worker" /\ w.enabled \in BOOLEAN /\ w.connected \in BOOLEAN
      /\ w.health \in {"green", "red"}
    BY <1>2, RowFields
<1> QED
    BY <1>1, <1>3, <1>4

LEMMA MachinesHaveColors ==
    ASSUME NEW p \in Primaries, NEW w \in Workers, NEW m \in {p, w}, NEW state
    PROVE  StateColor(state) \in Colors /\ AgentColor(m, state) \in Colors
<1>1. StateColor(state) \in Colors
    BY DEF StateColor, Colors
<1>2. AgentColor(m, state) \in Colors
    BY PageRows DEF AgentColor, Reach, Colors
<1> QED
    BY <1>1, <1>2

(***************************************************************************)
(* For every state of the controller and of the machines' rows: a green    *)
(* page hides no machine that is out of reach, in red health or short of a *)
(* process, and no Tableau that is down, stopping or degraded.             *)
(***************************************************************************)
LEMMA GreenPage ==
    ASSUME NEW p \in Primaries, NEW w \in Workers, AdminView({p, w}).color = "green"
    PROVE  /\ main \notin DownStates \union PassingStates \union {"DEGRADED", "DISCONNECTED"}
           /\ primary # 0 \/ ReadingConns # {}
           /\ \A m \in {m \in {p, w} : m.enabled} :
                 m.connected /\ m.health = "green" /\ m.procs \notin {"broken", "error"}
<1> DEFINE machines == {p, w}
           state == CalculateMainState(machines)
           enabled == {m \in machines : m.enabled}
           degraded == state = "STARTED" /\ \E m \in enabled : WorkerProblem(m)
           colors == {StateColor(state)} \union {AgentColor(m, state) : m \in enabled}
<1>1. AdminView(machines).color =
          (CASE degraded -> "red"
             [] state = "UPGRADING" -> StateColor(state)
             [] OTHER -> Worst(colors))
    BY DEF AdminView
<1>2. StateColor("UPGRADING") = "yellow"
    BY DEF StateColor
<1>3. state # "UPGRADING" /\ Worst(colors) = "green"
    BY <1>1, <1>2
<1>4. colors \in SUBSET Colors
    BY MachinesHaveColors
<1>5. StateColor(state) = "green" /\ \A m \in enabled : AgentColor(m, state) = "green"
    BY <1>3, <1>4, WorstIsGreen
<1>6. state # "PRIMARY-NOT-ENABLED"
    BY <1>5 DEF StateColor
<1>7. state = main /\ \A m \in machines : m.type = "primary" => m.enabled
    BY <1>3, <1>6 DEF CalculateMainState
<1> HIDE DEF state
<1>8. main \notin DownStates \union PassingStates \union {"DEGRADED", "DISCONNECTED"}
    BY <1>5, <1>7 DEF StateColor, DownStates, PassingStates
<1>9. ASSUME NEW m \in machines, m.enabled
      PROVE  m.connected /\ m.health = "green" /\ m.procs \notin {"broken", "error"}
    <2>1. m.connected \in BOOLEAN /\ m.health \in {"green", "red"} /\ m.type \in {"primary", "worker"}
        BY PageRows
    <2>2. AgentColor(m, main) = "green"
        BY <1>5, <1>7, <1>9
    <2> QED
        BY <1>8, <2>1, <2>2 DEF AgentColor, Reach, DownStates
<1>10. primary # 0 \/ ReadingConns # {}
    <2>1. p.enabled
        BY <1>7, PageRows
    <2>2. p.connected = TRUE
        BY <1>9, <2>1, PageRows
    <2> QED
        BY <2>2, PageRows
<1> QED
    BY <1>8, <1>9, <1>10

(***************************************************************************)
(* get_admin_view (monitor.py): whatever the rows of the machines say, a   *)
(* green page means that every enabled machine is connected and well and   *)
(* that the controller takes Tableau for running.                          *)
(***************************************************************************)
THEOREM GreenMeansHealthy == Spec => []GreenIsHealthy
<1>1. GreenIsHealthy
    BY GreenPage DEF GreenIsHealthy
<1> QED
    BY <1>1, PTL

-----------------------------------------------------------------------------
(***************************************************************************)
(* The buttons.  An action that works under its mark has the lock of its   *)
(* connection, so that whoever else writes a state with buttons works on   *)
(* another connection; and no step of its own goes on with work under a    *)
(* mark that it has not made or kept.                                      *)
(***************************************************************************)
\* state_control.json and the state tests of clihandler.py agree, row by row.
LEMMA TablesAgree ==
    ASSUME NEW state \in MainStates, NEW action \in Clicks
    PROVE  action \in AllowableActions(state) <=> state \in GoodStates(action)
BY DEF MainStates, SettledStates, PassingStates, ActionStates, Clicks, AllowableActions, Always,
       GoodStates, ReadyStates, UpStates, DownStates

LEMMA ButtonsWhenReady == IInv => (Buttons # {} <=> main \in ReadyStates /\ upgrade # "on")
<1> SUFFICES ASSUME IInv PROVE Buttons # {} <=> main \in ReadyStates /\ upgrade # "on"
    OBVIOUS
<1>0. main \in MainStates
    BY DEF IInv, TypeOK
<1>1. \A machines : AdminView(machines).actions = AllowableActions(CalculateMainState(machines))
    BY DEF AdminView
<1>2. ASSUME main \in ReadyStates, upgrade # "on"
      PROVE  Buttons # {}
    <2> DEFINE Rows(e, q) ==
            {[type |-> "primary", enabled |-> e, connected |-> primary # 0, health |-> "green",
              procs |-> "running"],
             [type |-> "worker", enabled |-> TRUE, connected |-> TRUE, health |-> "green",
              procs |-> q]}
    <2>1. PICK rows : rows = Rows(TRUE, "running")
        OBVIOUS
    <2>2. rows \in Glances
        <3>1. Glances = {Rows(e, q) : e \in BOOLEAN, q \in {"none", "running"}}
            BY DEF Glances
        <3>2. \E e \in BOOLEAN : \E q \in {"none", "running"} : rows = Rows(e, q)
            BY <2>1
        <3> HIDE DEF Rows
        <3> QED
            BY <3>1, <3>2
    <2>3. \A m \in rows : m.enabled
        BY <2>1
    <2>4. CalculateMainState(rows) = main
        BY <1>2, <2>3 DEF CalculateMainState
    <2>5. "backup" \in AllowableActions(main)
        <3>1. CASE main \in DownStates
            BY <3>1 DEF AllowableActions, Always, UpStates, DownStates
        <3>2. CASE main \in UpStates
            BY <3>2 DEF AllowableActions, Always, UpStates, DownStates
        <3> QED
            BY <1>2, <3>1, <3>2 DEF ReadyStates
    <2>6. "backup" \in AdminView(rows).actions \ {"user-refresh"}
        BY <1>1, <2>4, <2>5
    <2>7. "backup" \in Buttons
        <3>1. AdminView(rows).actions \in {AdminView(m).actions : m \in Glances}
            BY <2>2, Zenon
        <3> QED
            BY <2>6, <3>1 DEF Buttons
    <2> QED
        BY <2>7
<1>3. ASSUME main \notin ReadyStates \/ upgrade = "on", NEW machines
      PROVE  AdminView(machines).actions \subseteq {"user-refresh"}
    <2>1. CalculateMainState(machines)
              \in (MainStates \ ReadyStates) \union {"UPGRADING", "PRIMARY-NOT-ENABLED"}
        BY <1>0, <1>3 DEF CalculateMainState
    <2>2. AllowableActions(CalculateMainState(machines)) \subseteq {"user-refresh"}
        BY <2>1 DEF AllowableActions, ReadyStates, UpStates, DownStates
    <2> QED
        BY <1>1, <2>2
<1>4. ASSUME main \notin ReadyStates \/ upgrade = "on", NEW b \in Buttons
      PROVE  FALSE
    <2>1. PICK machines \in Glances : b \in AdminView(machines).actions
        BY <1>4 DEF Buttons
    <2>2. b # "user-refresh"
        BY <1>4 DEF Buttons
    <2> QED
        BY <1>3, <1>4, <2>1, <2>2
<1> QED
    BY <1>2, <1>4

LEMMA WorksAtWork ==
    IInv => \A u \in Users :
                AtWork(u) <=> Works(th[u]) /\ primary # 0 /\ th[u].conn = primary
<1> SUFFICES ASSUME IInv, NEW u \in Users
             PROVE  AtWork(u) <=> Works(th[u]) /\ primary # 0 /\ th[u].conn = primary
    OBVIOUS
<1>1. CASE th[u] = Idle
    BY <1>1, IdleFields DEF AtWork
<1>2. CASE InPlace(th[u])
    BY <1>2 DEF AtWork, InPlace, Checking, Works, Housekeeping
<1> QED
    BY <1>1, <1>2, LocalsOf DEF UserLocals

\* The next states of a user who works, when the page has buttons.
Unmarked(u) ==
    /\ Works(th'[u]) /\ primary' # 0 /\ th'[u].conn = primary'
    /\ main' \in ReadyStates

Kept(u) ==
    /\ Works(th[u]) /\ primary # 0 /\ th[u].conn = primary
    /\ main \in ReadyStates

LEMMA WorkerOwns ==
    ASSUME IInv, NEW u \in Users, Works(th[u])
    PROVE  owner[th[u].conn] = u /\ th[u].conn \in Conns
<1>1. InAction(u) /\ th[u].kind # "support_case"
    BY DEF Works, InAction, Housekeeping
<1> QED
    BY <1>1, LocalsOf, Owns DEF InAction

LEMMA UserGivesNoButtons ==
    ASSUME IInv, NEW v \in Users, UserStep(v), NEW u \in Users, Unmarked(u)
    PROVE  Kept(u) \/ StepsElsewhere(primary')
<1>0. Moves(v) /\ Writes(v) /\ v \in Threads
    BY Constant DEF UserStep
<1>1. th'[v] # th[v]
    BY <1>0 DEF Moves, Alone
<1>2. primary' = primary
    BY <1>0 DEF Writes, Unmarked
<1>3. CASE u = v
    <2>1. th'[u].conn = th[u].conn
        BY <1>0, <1>3, IdleFields DEF Moves, Unmarked
    <2>2. main' = main /\ Works(th[u])
        BY <1>0, <1>2, <1>3 DEF Writes, Unmarked, ReadyStates, UpStates, DownStates
    <2> QED
        BY <1>2, <2>1, <2>2 DEF Unmarked, Kept
<1>4. CASE u # v
    <2>1. th'[u] = th[u]
        BY <1>0, <1>4, Constant DEF Moves, Alone
    <2>2. CASE th[v].conn # primary'
        BY <1>0, <1>1, <2>2 DEF StepsElsewhere
    <2>3. CASE th[v].conn = primary'
        <3>1. owner[primary'] = u
            BY <2>1, WorkerOwns DEF Unmarked
        <3>2. ~ (InAction(v) /\ th[v].kind # "support_case")
            BY <1>4, <2>3, <3>1, Owns
        <3>3. main' = main
            BY <1>0, <3>2 DEF Writes, Unmarked, ReadyStates, UpStates, DownStates
        <3> QED
            BY <1>2, <2>1, <3>3 DEF Unmarked, Kept
    <2> QED
        BY <2>2, <2>3
<1> QED
    BY <1>3, <1>4

LEMMA MonitorGivesNoButtons ==
    ASSUME IInv, MonitorStep, NEW u \in Users, Unmarked(u)
    PROVE  Kept(u) \/ StepsElsewhere(primary')
<1>1. th'[u] = th[u] /\ th'[Monitor] # th[Monitor] /\ u # Monitor
    BY Constant DEF MonitorStep, Alone
<1>2. primary' = primary
    BY DEF MonitorStep, MonitorWrites, Unmarked
<1>3. CASE main' = main
    BY <1>1, <1>2, <1>3 DEF Unmarked, Kept
<1>4. CASE main' # main
    <2>1. th[Monitor].pc = "write"
        BY <1>4 DEF MonitorStep, MonitorWrites, Unmarked, ReadyStates, UpStates, DownStates
    <2>2. owner[th[Monitor].conn] = Monitor
        BY <2>1 DEF IInv, HasLock
    <2>3. owner[primary'] = u
        BY <1>1, WorkerOwns DEF Unmarked
    <2>4. th[Monitor].conn # primary'
        BY <1>1, <2>2, <2>3
    <2> QED
        BY <1>1, <2>4, Constant DEF StepsElsewhere
<1> QED
    BY <1>3, <1>4

LEMMA NobodyGivesButtons ==
    ASSUME IInv, [Next]_vars, NEW u \in Users, Unmarked(u)
    PROVE  Kept(u) \/ StepsElsewhere(primary')
<1>0. ~StartUp
    BY Constant, IdleFields DEF StartUp, Unmarked
<1>1. ASSUME NEW v \in Users, UserAction(v) \/ CheckStatus(v)
      PROVE  Kept(u) \/ StepsElsewhere(primary')
    BY <1>0, <1>1, UserSteps, UserGivesNoButtons
<1>2. CASE MonitorStart \/ CheckStatus(Monitor)
    BY <1>2, MonitorStarts, MonitorChecks, MonitorGivesNoButtons
<1>3. ASSUME NEW v \in Users, Call(v)
      PROVE  Kept(u)
    <2>1. th'[v].pc = "lock" /\ \A w \in Users \ {v} : th'[w] = th[w]
        BY <1>3, Constant, IdleIsLocals DEF Call, Locals, IInv, TypeOK
    <2>2. u # v
        BY <2>1 DEF Works, Unmarked
    <2> QED
        BY <1>3, <2>1, <2>2 DEF Call, Unmarked, Kept
<1>4. CASE Connections \/ Upgrade \/ Environment
    <2>1. ~Crash
        BY <1>0 DEF Crash
    <2>2. /\ th' = th
          /\ \/ main' = main /\ primary' = primary
             \/ main' = "PENDING"
             \/ main' = "DISCONNECTED" /\ primary' = 0
        BY <1>4, <2>1
           DEF Connections, Connect, SetupFails, Register, FinishSetup, SetupAborts, PingFails,
               RemoveAgentAndStatus, RemoveAgent, Upgrade, UpgradeOn, UpgradeAcquired,
               UpgradeChecked, UpgradeOff, Environment, Outside, Disconnect
    <2> QED
        BY <2>2 DEF Unmarked, Kept, ReadyStates, UpStates, DownStates
<1>5. CASE UNCHANGED vars
    BY <1>5 DEF vars, Unmarked, Kept
<1> QED
    BY <1>1, <1>2, <1>3, <1>4, <1>5 DEF Next, Threads

(***************************************************************************)
(* For any number of users and connections: the page offers an action      *)
(* exactly where the command it sends may begin (state_control.json        *)
(* against clihandler.py), and has no buttons while an action works on the *)
(* primary, unless a thread on a replaced connection brings them back.     *)
(***************************************************************************)
THEOREM OffersFollowTheWork == Spec => OffersAreRight
<1> DEFINE Away ==
        \A u \in Users :
            AtWork(u)' => \/ Buttons' = {}
                          \/ AtWork(u) /\ Buttons # {}
                          \/ StepsElsewhere(primary')
<1>1. IInv => OfferedIsAccepted
    <2> SUFFICES ASSUME IInv, NEW machines \in Glances, NEW action \in Clicks,
                        AdminView(machines).state \notin {"UPGRADING", "PRIMARY-NOT-ENABLED"}
                 PROVE  action \in AdminView(machines).actions <=> main \in GoodStates(action)
        BY DEF OfferedIsAccepted
    <2>1. CalculateMainState(machines) \notin {"UPGRADING", "PRIMARY-NOT-ENABLED"}
        BY DEF AdminView
    <2>2. CalculateMainState(machines) = main
        BY <2>1 DEF CalculateMainState
    <2>3. AdminView(machines).actions = AllowableActions(main) /\ main \in MainStates
        BY <2>2 DEF AdminView, IInv, TypeOK
    <2> QED
        BY <2>3, TablesAgree
<1>2. (IInv => (Buttons # {} <=> main \in ReadyStates /\ upgrade # "on"))'
    BY ButtonsWhenReady, PTL
<1>3. (IInv => \A u \in Users :
                  AtWork(u) <=> Works(th[u]) /\ primary # 0 /\ th[u].conn = primary)'
    BY WorksAtWork, PTL
<1>4. IInv /\ IInv' /\ [Next]_vars => Away
    <2> SUFFICES ASSUME IInv, IInv', [Next]_vars, NEW u \in Users, AtWork(u)', Buttons' # {}
                 PROVE  (AtWork(u) /\ Buttons # {}) \/ StepsElsewhere(primary')
        OBVIOUS
    <2>1. Unmarked(u)
        BY <1>2, <1>3 DEF Unmarked
    <2>2. CASE Kept(u)
        <3>1. AtWork(u) /\ main \in ReadyStates
            BY <2>2, WorksAtWork DEF Kept
        <3>2. th[u].pc # "idle" /\ u \in Threads
            BY <2>2, Constant DEF Kept, Works
        <3>3. upgrade # "on"
            BY <3>2 DEF IInv, WriterIsAlone
        <3> QED
            BY <3>1, <3>3, ButtonsWhenReady
    <2> QED
        BY <2>1, <2>2, NobodyGivesButtons
<1>5. Spec => []IInv /\ [][IInv /\ IInv' /\ [Next]_vars]_vars
    BY Invariance, PTL DEF Spec
<1> QED
    BY <1>1, <1>4, <1>5, PTL DEF OffersAreRight, ButtonsStayAway
=============================================================================
