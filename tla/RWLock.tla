------------------------------- MODULE RWLock -------------------------------
(***************************************************************************)
(* The reader-writer lock that separates an upgrade of the controller (its *)
(* only writer) from everything else: src/controller/controller/rwlock.py. *)
(* Telnet commands, new agent connections and the status monitor read;     *)
(* "upgrade on" and "upgrade controller" write.                            *)
(*                                                                         *)
(* Every field of the lock is read and written under one monitor, so each  *)
(* stretch of code between taking the monitor and giving it up (release or *)
(* Condition.wait) is one action.  finish_release gives the monitor up     *)
(* BEFORE it notifies and takes it again to do so: the notification is an  *)
(* action of its own, and other threads run in between.                    *)
(*                                                                         *)
(* The monitor itself is a variable because one path never releases it:    *)
(* read_release and write_release raise RuntimeError while holding it.     *)
(* do_upgrade catches that error and carries on.                           *)
(***************************************************************************)
EXTENDS Integers, FiniteSets

CONSTANTS
    Threads,    \* the threads of the controller that use the lock
    NoThread,   \* the holder of a free monitor
    StrayOff    \* may "upgrade off" be typed while the upgrade is not on?

ASSUME RWLockAssumption ==
    /\ IsFiniteSet(Threads)
    /\ NoThread \notin Threads
    /\ StrayOff \in BOOLEAN

VARIABLES
    rwlock,             \* > 0: that many readers; -1: a writer; 0: free
    writers_waiting,    \* writers inside the loop of write_acquire
    monitor,            \* the thread that holds the monitor between actions
    pc                  \* where each thread is in the lock's code

vars == <<rwlock, writers_waiting, monitor, pc>>

(***************************************************************************)
(* "read_wait" and "write_wait" are the wait sets of the two conditions; a *)
(* notified reader is back at "read_acquire", at the top of its loop, and  *)
(* a notified writer is at "write_rewait", before the statement that takes *)
(* it out of writers_waiting.                                              *)
(***************************************************************************)
PCs == {"idle", "read_acquire", "try_read_acquire", "read_wait", "reading",
        "write_acquire", "write_wait", "write_rewait", "writing",
        "notify_writer", "notify_readers", "stray_release"}

At(where) == {t \in Threads : pc[t] \in where}

Readers == At({"reading"})
Writers == At({"writing"})
WaitingWriters == At({"write_wait", "write_rewait"})

TypeOK ==
    /\ rwlock \in Int
    /\ writers_waiting \in Nat
    /\ monitor \in Threads \union {NoThread}
    /\ pc \in [Threads -> PCs]

Init ==
    /\ rwlock = 0
    /\ writers_waiting = 0
    /\ monitor = NoThread
    /\ pc = [t \in Threads |-> "idle"]

Goto(t, where) == pc' = [pc EXCEPT ![t] = where]

-----------------------------------------------------------------------------
\* A thread calls one of the acquiring methods.
Call(t) ==
    /\ pc[t] = "idle"
    /\ \E op \in {"read_acquire", "try_read_acquire", "write_acquire"} :
          Goto(t, op)
    /\ UNCHANGED <<rwlock, writers_waiting, monitor>>

\* Mutant: readers pass waiting writers.
ReadersBlocked_PassWaiting == rwlock < 0

ReadersBlocked == rwlock < 0 \/ writers_waiting > 0

ReadAcquire(t) ==
    /\ pc[t] \in {"read_acquire", "try_read_acquire"}
    /\ monitor = NoThread
    /\ ~ReadersBlocked
    /\ rwlock' = rwlock + 1
    /\ Goto(t, "reading")
    /\ UNCHANGED <<writers_waiting, monitor>>

ReadWait(t) ==
    /\ pc[t] = "read_acquire"
    /\ monitor = NoThread
    /\ ReadersBlocked
    /\ Goto(t, "read_wait")
    /\ UNCHANGED <<rwlock, writers_waiting, monitor>>

\* read_acquire(blocking=False) returns False: the status monitor goes on.
TryReadFails(t) ==
    /\ pc[t] = "try_read_acquire"
    /\ monitor = NoThread
    /\ ReadersBlocked
    /\ Goto(t, "idle")
    /\ UNCHANGED <<rwlock, writers_waiting, monitor>>

\* The count of waiting writers once t, if it was one, is out of the count.
OthersWaiting(t) ==
    IF pc[t] = "write_rewait" THEN writers_waiting - 1 ELSE writers_waiting

WriteAcquire(t) ==
    /\ pc[t] \in {"write_acquire", "write_rewait"}
    /\ monitor = NoThread
    /\ rwlock = 0
    /\ rwlock' = -1
    /\ writers_waiting' = OthersWaiting(t)
    /\ Goto(t, "writing")
    /\ UNCHANGED monitor

WriteWait(t) ==
    /\ pc[t] \in {"write_acquire", "write_rewait"}
    /\ monitor = NoThread
    /\ rwlock # 0
    /\ writers_waiting' = OthersWaiting(t) + 1
    /\ Goto(t, "write_wait")
    /\ UNCHANGED <<rwlock, monitor>>

\* Mutant: readers are preferred.
AfterRelease_ReadersFirst(lock) ==
    IF lock = 0 THEN "notify_readers" ELSE "idle"

(***************************************************************************)
(* finish_release, up to the point where it gives the monitor up: whom to  *)
(* notify is decided from the fields as the release leaves them.           *)
(***************************************************************************)
AfterRelease(lock) ==
    CASE writers_waiting > 0 /\ lock = 0 -> "notify_writer"
      [] writers_waiting = 0             -> "notify_readers"
      [] OTHER                           -> "idle"

ReadRelease(t) ==
    /\ pc[t] = "reading"
    /\ monitor = NoThread
    /\ rwlock > 0
    /\ rwlock' = rwlock - 1
    /\ Goto(t, AfterRelease(rwlock - 1))
    /\ UNCHANGED <<writers_waiting, monitor>>

WriteRelease(t) ==
    /\ pc[t] = "writing"
    /\ monitor = NoThread
    /\ rwlock < 0
    /\ rwlock' = 0
    /\ Goto(t, AfterRelease(0))
    /\ UNCHANGED <<writers_waiting, monitor>>

\* The second half of finish_release: writers_ready.notify().
NotifyWriter(t) ==
    /\ pc[t] = "notify_writer"
    /\ monitor = NoThread
    /\ IF At({"write_wait"}) = {}
       THEN Goto(t, "idle")
       ELSE \E w \in At({"write_wait"}) :
              pc' = [pc EXCEPT ![t] = "idle", ![w] = "write_rewait"]
    /\ UNCHANGED <<rwlock, writers_waiting, monitor>>

\* The second half of finish_release: readers_ready.notifyAll().
NotifyReaders(t) ==
    /\ pc[t] = "notify_readers"
    /\ monitor = NoThread
    /\ pc' = [u \in Threads |-> IF u = t THEN "idle"
                                ELSE IF pc[u] = "read_wait" THEN "read_acquire"
                                ELSE pc[u]]
    /\ UNCHANGED <<rwlock, writers_waiting, monitor>>

(***************************************************************************)
(* "upgrade off" while no upgrade is on: do_upgrade calls write_release,   *)
(* which raises with the monitor held; do_upgrade catches the error and    *)
(* the thread goes back to reading commands.  When a writer does hold the  *)
(* lock the same command is that writer's WriteRelease.                    *)
(***************************************************************************)
CallStrayOff(t) ==
    /\ StrayOff
    /\ pc[t] = "idle"
    /\ Goto(t, "stray_release")
    /\ UNCHANGED <<rwlock, writers_waiting, monitor>>

StrayRelease(t) ==
    /\ pc[t] = "stray_release"
    /\ monitor = NoThread
    /\ rwlock >= 0
    /\ monitor' = t
    /\ Goto(t, "idle")
    /\ UNCHANGED <<rwlock, writers_waiting>>

-----------------------------------------------------------------------------
Lock(t) ==
    \/ ReadAcquire(t) \/ ReadWait(t) \/ TryReadFails(t)
    \/ WriteAcquire(t) \/ WriteWait(t)
    \/ ReadRelease(t) \/ WriteRelease(t)
    \/ NotifyWriter(t) \/ NotifyReaders(t)
    \/ StrayRelease(t)

Next == \E t \in Threads : Call(t) \/ CallStrayOff(t) \/ Lock(t)

Spec == Init /\ [][Next]_vars

(***************************************************************************)
(* A thread inside the lock's code keeps running when it can, and every    *)
(* holder gives the lock up: the readers are commands with a timeout and   *)
(* the writer is an upgrade that ends.  Nobody is obliged to call.         *)
(***************************************************************************)
FairSpec == Spec /\ \A t \in Threads : WF_vars(Lock(t))

-----------------------------------------------------------------------------
(***************************************************************************)
(* The counter says who holds the lock: -1 exactly when one thread writes, *)
(* otherwise the number of threads that read.                              *)
(***************************************************************************)
CounterIsHolders ==
    \/ /\ Readers = {} /\ Cardinality(Writers) = 1 /\ rwlock = -1
    \/ /\ Writers = {} /\ rwlock = Cardinality(Readers)

\* writers_waiting counts the sleeping writers and the notified ones.
WaitingIsCounted == writers_waiting = Cardinality(WaitingWriters)

(***************************************************************************)
(* No wake-up is lost in the gap of finish_release: when the lock is free  *)
(* for a writer that sleeps, a notification is on its way or a writer has  *)
(* been notified; when nothing keeps a sleeping reader out, a notifyAll is *)
(* on its way.                                                             *)
(***************************************************************************)
NoLostWakeup ==
    /\ rwlock = 0 /\ At({"write_wait"}) # {}
          => At({"notify_writer", "write_rewait"}) # {}
    /\ ~ReadersBlocked /\ At({"read_wait"}) # {} => At({"notify_readers"}) # {}

(***************************************************************************)
(* What rwlock.py's counters and conditions have to keep together: none of *)
(* the parts is inductive without the others, since finish_release decides *)
(* by the counters whom it wakes.                                          *)
(***************************************************************************)
Inv == TypeOK /\ CounterIsHolders /\ WaitingIsCounted /\ NoLostWakeup

\* rwlock.py:44: a writer holds the lock alone (a consequence of Inv).
MutualExclusion ==
    \A t \in Writers : Writers = {t} /\ Readers = {}

Abstract == INSTANCE AbstractRWLock WITH
    reading <- Readers, writing <- Writers, waiting <- WaitingWriters

\* The lock implements what its docstring promises (writers first included).
ImplementsAbstract == Abstract!Spec

(***************************************************************************)
(* rwlock.py:8: writers are not starved, however many readers keep coming, *)
(* as long as no stray release keeps the monitor.                          *)
(***************************************************************************)
WritersNotStarved ==
    \/ <>(monitor # NoThread)
    \/ WaitingWriters # {} ~> Writers # {}

=============================================================================
