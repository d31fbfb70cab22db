---------------------------- MODULE RWLockProofs ----------------------------
(***************************************************************************)
(* For any finite set of threads: the invariants of RWLock, of which the   *)
(* conjunction Inv is inductive, and that RWLock implements its contract.  *)
(***************************************************************************)
EXTENDS RWLock, FiniteSetTheorems, TLAPS

-----------------------------------------------------------------------------
\* The threads at some places of the lock's code are finitely many.
LEMMA AtIsFinite ==
    ASSUME NEW where
    PROVE  IsFiniteSet(At(where)) /\ Cardinality(At(where)) \in Nat
BY RWLockAssumption, FS_Subset, FS_CardinalityType DEF At, RWLockAssumption

\* No thread is at the places that nobody is counted at.
LEMMA NobodyAt ==
    ASSUME NEW where
    PROVE  Cardinality(At(where)) = 0 <=> At(where) = {}
BY AtIsFinite, FS_EmptySet

\* A thread that moves joins the places it comes to and leaves the others.
LEMMA Moves ==
    ASSUME TypeOK, NEW t \in Threads, NEW place, Goto(t, place), NEW where
    PROVE  At(where)' = IF place \in where THEN At(where) \union {t}
                                           ELSE At(where) \ {t}
BY DEF TypeOK, Goto, At

\* A thread that moves within some places, or outside them, changes nothing.
LEMMA Stays ==
    ASSUME TypeOK, NEW t \in Threads, NEW place, Goto(t, place), NEW where,
           pc[t] \in where <=> place \in where
    PROVE  At(where)' = At(where)
BY Moves DEF At

\* The count at some places goes up by one when a thread joins them ...
LEMMA JoinCounts ==
    ASSUME NEW where, NEW t, t \notin At(where)
    PROVE  Cardinality(At(where) \union {t}) = Cardinality(At(where)) + 1
BY AtIsFinite, FS_AddElement

\* ... and down by one when a thread leaves them.
LEMMA LeaveCounts ==
    ASSUME NEW where, NEW t \in At(where)
    PROVE  Cardinality(At(where) \ {t}) = Cardinality(At(where)) - 1
BY AtIsFinite, FS_RemoveElement

\* The invariant, with the sets it counts spelled out as places.
LEMMA Counted ==
    ASSUME Inv
    PROVE  /\ writers_waiting = Cardinality(At({"write_wait", "write_rewait"}))
           /\ \/ /\ At({"reading"}) = {} /\ rwlock = -1
                 /\ Cardinality(At({"writing"})) = 1
              \/ /\ At({"writing"}) = {}
                 /\ rwlock = Cardinality(At({"reading"}))
BY DEF Inv, CounterIsHolders, WaitingIsCounted, Readers, Writers, WaitingWriters

-----------------------------------------------------------------------------
LEMMA InvInit == Init => Inv
<1> SUFFICES ASSUME Init PROVE Inv
  OBVIOUS
<1>1. TypeOK
  BY DEF Init, TypeOK, PCs
<1>2. \A where : "idle" \notin where => At(where) = {}
  BY DEF Init, At
<1>3. CounterIsHolders /\ WaitingIsCounted
  BY <1>2, FS_EmptySet
     DEF Init, CounterIsHolders, WaitingIsCounted, Readers, Writers,
         WaitingWriters
<1>4. NoLostWakeup
  BY <1>2 DEF NoLostWakeup
<1> QED
  BY <1>1, <1>3, <1>4 DEF Inv

(***************************************************************************)
(* The calls, the failed try and the stray release move a thread between   *)
(* places that nobody counts and leave the fields of the lock alone.       *)
(***************************************************************************)
LEMMA UncountedMove ==
    ASSUME Inv, NEW t \in Threads, NEW place \in PCs, Goto(t, place),
           pc[t] \notin {"reading", "writing", "write_wait", "write_rewait",
                         "notify_writer", "notify_readers"},
           place \notin {"reading", "writing", "write_wait", "write_rewait",
                         "notify_writer", "notify_readers"},
           place = "read_wait" => ReadersBlocked,
           monitor' \in Threads \union {NoThread},
           UNCHANGED <<rwlock, writers_waiting>>
    PROVE  Inv'
<1>1. TypeOK /\ TypeOK'
  BY DEF Inv, TypeOK, Goto
<1>2. At({"reading"})' = At({"reading"}) /\ At({"writing"})' = At({"writing"})
  BY <1>1, Stays
<1>3. /\ At({"write_wait"})' = At({"write_wait"})
      /\ At({"write_wait", "write_rewait"})' = At({"write_wait", "write_rewait"})
  BY <1>1, Stays
<1>4. /\ At({"notify_readers"})' = At({"notify_readers"})
      /\ At({"notify_writer", "write_rewait"})' =
             At({"notify_writer", "write_rewait"})
  BY <1>1, Stays
<1>5. At({"read_wait"})' \subseteq At({"read_wait"}) \/ ReadersBlocked
  BY <1>1, Moves
<1>6. ReadersBlocked' = ReadersBlocked
  BY DEF ReadersBlocked
<1>7. CounterIsHolders' /\ WaitingIsCounted'
  BY <1>2, <1>3 DEF Inv, CounterIsHolders, WaitingIsCounted, Readers, Writers,
                    WaitingWriters
<1>8. NoLostWakeup'
  BY <1>3, <1>4, <1>5, <1>6 DEF Inv, NoLostWakeup
<1> QED
  BY <1>1, <1>7, <1>8 DEF Inv

\* A thread in write_rewait is one of those writers_waiting counts.
LEMMA OthersCounted ==
    ASSUME Inv, NEW t \in Threads, pc[t] \in {"write_acquire", "write_rewait"}
    PROVE  /\ OthersWaiting(t) \in Nat
           /\ OthersWaiting(t) =
                  Cardinality(At({"write_wait", "write_rewait"}) \ {t})
<1>1. CASE pc[t] = "write_rewait"
  <2>1. t \in At({"write_wait", "write_rewait"})
    BY <1>1 DEF At
  <2>2. OthersWaiting(t) = Cardinality(At({"write_wait", "write_rewait"})) - 1
    BY <1>1, Counted DEF OthersWaiting
  <2>3. Cardinality(At({"write_wait", "write_rewait"})) > 0
    BY <2>1, AtIsFinite, NobodyAt
  <2> QED
    BY <2>1, <2>2, <2>3, AtIsFinite, LeaveCounts
<1>2. CASE pc[t] = "write_acquire"
  <2>1. At({"write_wait", "write_rewait"}) \ {t} = At({"write_wait", "write_rewait"})
    BY <1>2 DEF At
  <2> QED
    BY <1>2, <2>1, Counted DEF OthersWaiting, Inv, TypeOK
<1> QED
  BY <1>1, <1>2

-----------------------------------------------------------------------------
(* Each step of the lock keeps the invariant.                              *)

LEMMA ReadAcquireStep ==
    ASSUME Inv, NEW t \in Threads, ReadAcquire(t)
    PROVE  Inv'
<1>1. TypeOK /\ Goto(t, "reading")
  BY DEF Inv, ReadAcquire
<1>2. TypeOK'
  BY DEF Inv, TypeOK, ReadAcquire, Goto, PCs
<1>3. rwlock >= 0 /\ writers_waiting = 0 /\ ~ReadersBlocked
  BY <1>1 DEF TypeOK, ReadAcquire, ReadersBlocked
<1>4. CounterIsHolders'
  <2>1. /\ At({"writing"}) = {}
        /\ rwlock = Cardinality(At({"reading"}))
    BY <1>3, Counted
  <2>2. At({"writing"})' = {}
    BY <1>1, <2>1, Moves
  <2>3. t \notin At({"reading"})
    BY DEF ReadAcquire, At
  <2>4. At({"reading"})' = At({"reading"}) \union {t}
    BY <1>1, Moves
  <2>5. Cardinality(At({"reading"})') = rwlock + 1
    BY <2>1, <2>3, <2>4, JoinCounts
  <2> QED
    BY <2>2, <2>5 DEF CounterIsHolders, ReadAcquire, Readers, Writers
<1>5. At({"write_wait", "write_rewait"})' = At({"write_wait", "write_rewait"})
  BY <1>1, Stays DEF ReadAcquire
<1>6. WaitingIsCounted'
  BY <1>5 DEF Inv, WaitingIsCounted, WaitingWriters, ReadAcquire
<1>7. NoLostWakeup'
  <2>1. At({"write_wait", "write_rewait"}) = {}
    BY <1>3, Counted, NobodyAt
  <2>2. At({"write_wait"})' = {}
    BY <1>5, <2>1 DEF At
  <2>3. /\ At({"read_wait"})' = At({"read_wait"})
        /\ At({"notify_readers"})' = At({"notify_readers"})
    BY <1>1, Stays DEF ReadAcquire
  <2> QED
    BY <1>3, <2>2, <2>3 DEF Inv, NoLostWakeup
<1> QED
  BY <1>2, <1>4, <1>6, <1>7 DEF Inv

LEMMA WriteAcquireStep ==
    ASSUME Inv, NEW t \in Threads, WriteAcquire(t)
    PROVE  Inv'
<1>1. TypeOK /\ Goto(t, "writing") /\ pc[t] \in {"write_acquire", "write_rewait"}
  BY DEF Inv, WriteAcquire
<1>2. OthersWaiting(t) \in Nat
  BY <1>1, OthersCounted
<1>7. TypeOK'
  BY <1>1, <1>2 DEF TypeOK, WriteAcquire, Goto, PCs
<1>3. CounterIsHolders'
  <2>1. At({"writing"}) = {} /\ At({"reading"}) = {}
    BY Counted, NobodyAt DEF WriteAcquire
  <2>2. At({"reading"})' = {} /\ At({"writing"})' = {t}
    BY <1>1, <2>1, Moves
  <2>3. Cardinality({t}) = 1
    BY FS_Singleton
  <2> QED
    BY <2>2, <2>3 DEF CounterIsHolders, WriteAcquire, Readers, Writers
<1>4. WaitingIsCounted'
  <2>1. At({"write_wait", "write_rewait"})' =
            At({"write_wait", "write_rewait"}) \ {t}
    BY <1>1, Moves
  <2> QED
    BY <1>1, <2>1, OthersCounted
       DEF WaitingIsCounted, WaitingWriters, WriteAcquire
<1>5. NoLostWakeup'
  BY DEF NoLostWakeup, WriteAcquire, ReadersBlocked
<1> QED
  BY <1>7, <1>3, <1>4, <1>5 DEF Inv

LEMMA WriteWaitStep ==
    ASSUME Inv, NEW t \in Threads, WriteWait(t)
    PROVE  Inv'
<1>1. TypeOK /\ Goto(t, "write_wait") /\ pc[t] \in {"write_acquire", "write_rewait"}
  BY DEF Inv, WriteWait
<1>2. OthersWaiting(t) \in Nat
  BY <1>1, OthersCounted
<1>7. TypeOK'
  BY <1>1, <1>2 DEF TypeOK, WriteWait, Goto, PCs
<1>3. At({"reading"})' = At({"reading"}) /\ At({"writing"})' = At({"writing"})
  BY <1>1, Stays
<1>4. CounterIsHolders'
  BY <1>3 DEF Inv, CounterIsHolders, Readers, Writers, WriteWait
<1>5. WaitingIsCounted'
  <2> DEFINE others == At({"write_wait", "write_rewait"}) \ {t}
  <2>1. At({"write_wait", "write_rewait"})' = others \union {t}
    BY <1>1, Moves
  <2>2. IsFiniteSet(others)
    BY AtIsFinite, FS_Subset
  <2>3. Cardinality(others \union {t}) = Cardinality(others) + 1
    BY <2>2, FS_AddElement
  <2> QED
    BY <1>1, <2>1, <2>3, OthersCounted
       DEF WaitingIsCounted, WaitingWriters, WriteWait
<1>6. NoLostWakeup'
  BY <1>2 DEF NoLostWakeup, WriteWait, ReadersBlocked
<1> QED
  BY <1>7, <1>4, <1>5, <1>6 DEF Inv

\* A release picks whom to notify so that no sleeper is forgotten.
LEMMA ReleaseWakes ==
    ASSUME Inv, NEW t \in Threads, pc[t] \in {"reading", "writing"},
           rwlock' \in Int, Goto(t, AfterRelease(rwlock')),
           UNCHANGED writers_waiting
    PROVE  /\ AfterRelease(rwlock') \in {"notify_writer", "notify_readers", "idle"}
           /\ WaitingIsCounted'
           /\ NoLostWakeup'
<1> DEFINE place == AfterRelease(rwlock')
<1>1. TypeOK /\ place \in {"notify_writer", "notify_readers", "idle"}
  BY DEF Inv, AfterRelease
<1>2. /\ At({"write_wait", "write_rewait"})' = At({"write_wait", "write_rewait"})
      /\ At({"write_wait"})' = At({"write_wait"})
  BY <1>1, Stays
<1>3. WaitingIsCounted'
  BY <1>2 DEF Inv, WaitingIsCounted, WaitingWriters
<1>4. \A where : place \in where => t \in At(where)'
  BY <1>1 DEF TypeOK, Goto, At
<1>5. ASSUME rwlock' = 0, At({"write_wait"})' # {}
      PROVE  At({"notify_writer", "write_rewait"})' # {}
  <2>1. At({"write_wait", "write_rewait"}) # {}
    BY <1>2, <1>5 DEF At
  <2>2. writers_waiting > 0
    BY <2>1, Counted, NobodyAt, AtIsFinite
  <2>3. place = "notify_writer"
    BY <1>5, <2>2 DEF AfterRelease
  <2> QED
    BY <1>4, <2>3
<1>6. ASSUME ~ReadersBlocked' PROVE At({"notify_readers"})' # {}
  <2>1. writers_waiting = 0
    BY <1>1, <1>6 DEF TypeOK, ReadersBlocked
  <2>2. place = "notify_readers"
    BY <2>1 DEF AfterRelease
  <2> QED
    BY <1>4, <2>2
<1> QED
  BY <1>1, <1>3, <1>5, <1>6 DEF NoLostWakeup

LEMMA ReadReleaseStep ==
    ASSUME Inv, NEW t \in Threads, ReadRelease(t)
    PROVE  Inv'
<1>1. TypeOK /\ rwlock' \in Int /\ Goto(t, AfterRelease(rwlock'))
  BY DEF Inv, TypeOK, ReadRelease
<1>2. /\ AfterRelease(rwlock') \in {"notify_writer", "notify_readers", "idle"}
      /\ WaitingIsCounted' /\ NoLostWakeup'
  BY <1>1, ReleaseWakes DEF ReadRelease
<1>3. TypeOK'
  BY <1>1, <1>2 DEF TypeOK, ReadRelease, Goto, PCs
<1>4. CounterIsHolders'
  <2>1. /\ At({"writing"}) = {}
        /\ rwlock = Cardinality(At({"reading"}))
    BY Counted DEF ReadRelease
  <2>2. At({"writing"})' = {} /\ At({"reading"})' = At({"reading"}) \ {t}
    BY <1>1, <1>2, <2>1, Moves
  <2>3. t \in At({"reading"})
    BY DEF ReadRelease, At
  <2> QED
    BY <2>1, <2>2, <2>3, LeaveCounts
       DEF CounterIsHolders, ReadRelease, Readers, Writers
<1> QED
  BY <1>2, <1>3, <1>4 DEF Inv

LEMMA WriteReleaseStep ==
    ASSUME Inv, NEW t \in Threads, WriteRelease(t)
    PROVE  Inv'
<1>1. TypeOK /\ rwlock' \in Int /\ Goto(t, AfterRelease(rwlock'))
  BY DEF Inv, TypeOK, WriteRelease
<1>2. /\ AfterRelease(rwlock') \in {"notify_writer", "notify_readers", "idle"}
      /\ WaitingIsCounted' /\ NoLostWakeup'
  BY <1>1, ReleaseWakes DEF WriteRelease
<1>3. TypeOK'
  BY <1>1, <1>2 DEF TypeOK, WriteRelease, Goto, PCs
<1>4. CounterIsHolders'
  <2>1. t \in At({"writing"})
    BY DEF WriteRelease, At
  <2>2. At({"reading"}) = {} /\ Cardinality(At({"writing"})) = 1
    BY <2>1, Counted
  <2>3. At({"writing"}) \ {t} = {}
    <3>1. Cardinality(At({"writing"}) \ {t}) = 0
      BY <2>1, <2>2, LeaveCounts
    <3>2. IsFiniteSet(At({"writing"}) \ {t})
      BY AtIsFinite, FS_Subset
    <3> QED
      BY <3>1, <3>2, FS_EmptySet
  <2>4. At({"writing"})' = {} /\ At({"reading"})' = {}
    BY <1>1, <1>2, <2>2, <2>3, Moves
  <2>5. rwlock' = 0 /\ Cardinality({}) = 0
    BY FS_EmptySet DEF WriteRelease
  <2> QED
    BY <2>4, <2>5 DEF CounterIsHolders, Readers, Writers
<1> QED
  BY <1>2, <1>3, <1>4 DEF Inv

\* A notified writer stays among the waiting writers until it runs.
LEMMA NotifyWriterStep ==
    ASSUME Inv, NEW t \in Threads, NotifyWriter(t)
    PROVE  Inv'
<1>1. CASE At({"write_wait"}) = {}
  <2>1. TypeOK /\ Goto(t, "idle") /\ pc[t] = "notify_writer"
    BY <1>1 DEF Inv, NotifyWriter
  <2>2. TypeOK'
    BY <2>1 DEF TypeOK, NotifyWriter, Goto, PCs
  <2>3. /\ At({"reading"})' = At({"reading"})
        /\ At({"writing"})' = At({"writing"})
    BY <2>1, Stays
  <2>4. /\ At({"write_wait", "write_rewait"})' =
               At({"write_wait", "write_rewait"})
        /\ At({"write_wait"})' = At({"write_wait"})
    BY <2>1, Stays
  <2>5. /\ At({"read_wait"})' = At({"read_wait"})
        /\ At({"notify_readers"})' = At({"notify_readers"})
    BY <2>1, Stays
  <2>6. CounterIsHolders' /\ WaitingIsCounted'
    BY <2>3, <2>4 DEF Inv, CounterIsHolders, WaitingIsCounted, Readers,
                      Writers, WaitingWriters, NotifyWriter
  <2>7. NoLostWakeup'
    BY <1>1, <2>4, <2>5 DEF Inv, NoLostWakeup, ReadersBlocked, NotifyWriter
  <2> QED
    BY <2>2, <2>6, <2>7 DEF Inv
<1>2. CASE At({"write_wait"}) # {}
  <2>1. PICK w \in At({"write_wait"}) :
            pc' = [pc EXCEPT ![t] = "idle", ![w] = "write_rewait"]
    BY <1>2 DEF NotifyWriter
  <2>2. /\ TypeOK /\ pc[t] = "notify_writer"
        /\ w \in Threads /\ pc[w] = "write_wait"
    BY DEF Inv, At, NotifyWriter
  <2>3. TypeOK'
    BY <2>1, <2>2 DEF TypeOK, NotifyWriter, PCs
  <2>4. /\ At({"reading"})' = At({"reading"})
        /\ At({"writing"})' = At({"writing"})
    BY <2>1, <2>2 DEF TypeOK, At
  <2>5. At({"write_wait", "write_rewait"})' =
            At({"write_wait", "write_rewait"})
    BY <2>1, <2>2 DEF TypeOK, At
  <2>6. /\ At({"read_wait"})' = At({"read_wait"})
        /\ At({"notify_readers"})' = At({"notify_readers"})
    BY <2>1, <2>2 DEF TypeOK, At
  <2>7. w \in At({"notify_writer", "write_rewait"})'
    BY <2>1, <2>2 DEF TypeOK, At
  <2>8. CounterIsHolders' /\ WaitingIsCounted'
    BY <2>4, <2>5 DEF Inv, CounterIsHolders, WaitingIsCounted, Readers,
                      Writers, WaitingWriters, NotifyWriter
  <2>9. NoLostWakeup'
    BY <2>6, <2>7 DEF Inv, NoLostWakeup, ReadersBlocked, NotifyWriter
  <2> QED
    BY <2>3, <2>8, <2>9 DEF Inv
<1> QED
  BY <1>1, <1>2

\* notifyAll empties the readers' wait set.
LEMMA NotifyReadersStep ==
    ASSUME Inv, NEW t \in Threads, NotifyReaders(t)
    PROVE  Inv'
<1>1. TypeOK
  BY DEF Inv
<1>2. TypeOK'
  BY <1>1 DEF TypeOK, NotifyReaders, PCs
<1>3. At({"reading"})' = At({"reading"}) /\ At({"writing"})' = At({"writing"})
  BY <1>1 DEF TypeOK, NotifyReaders, At
<1>4. /\ At({"write_wait", "write_rewait"})' = At({"write_wait", "write_rewait"})
      /\ At({"write_wait"})' = At({"write_wait"})
  BY <1>1 DEF TypeOK, NotifyReaders, At
<1>5. /\ At({"notify_writer", "write_rewait"})' =
             At({"notify_writer", "write_rewait"})
      /\ At({"read_wait"})' = {}
  BY <1>1 DEF TypeOK, NotifyReaders, At
<1>6. CounterIsHolders' /\ WaitingIsCounted'
  BY <1>3, <1>4 DEF Inv, CounterIsHolders, WaitingIsCounted, Readers, Writers,
                    WaitingWriters, NotifyReaders
<1>7. NoLostWakeup'
  BY <1>4, <1>5 DEF Inv, NoLostWakeup, NotifyReaders
<1> QED
  BY <1>2, <1>6, <1>7 DEF Inv

\* Every step of every thread keeps the invariant.
LEMMA InvNext == Inv /\ [Next]_vars => Inv'
<1> SUFFICES ASSUME Inv, [Next]_vars PROVE Inv'
  OBVIOUS
<1> USE DEF PCs
<1>1. ASSUME NEW t \in Threads, Call(t) PROVE Inv'
  <2>1. PICK op \in {"read_acquire", "try_read_acquire", "write_acquire"} :
            Goto(t, op)
    BY <1>1 DEF Call
  <2>2. UNCHANGED <<rwlock, writers_waiting>> /\ monitor' \in Threads \union {NoThread}
    BY <1>1 DEF Call, Inv, TypeOK
  <2> QED
    BY <1>1, <2>1, <2>2, UncountedMove DEF Call
<1>2. ASSUME NEW t \in Threads, CallStrayOff(t) PROVE Inv'
  <2>1. UNCHANGED <<rwlock, writers_waiting>> /\ monitor' \in Threads \union {NoThread}
    BY <1>2 DEF CallStrayOff, Inv, TypeOK
  <2> QED
    BY <1>2, <2>1, UncountedMove DEF CallStrayOff
<1>3. ASSUME NEW t \in Threads, ReadWait(t) PROVE Inv'
  <2>1. UNCHANGED <<rwlock, writers_waiting>> /\ monitor' \in Threads \union {NoThread}
    BY <1>3 DEF ReadWait, Inv, TypeOK
  <2> QED
    BY <1>3, <2>1, UncountedMove DEF ReadWait
<1>4. ASSUME NEW t \in Threads, TryReadFails(t) PROVE Inv'
  <2>1. UNCHANGED <<rwlock, writers_waiting>> /\ monitor' \in Threads \union {NoThread}
    BY <1>4 DEF TryReadFails, Inv, TypeOK
  <2> QED
    BY <1>4, <2>1, UncountedMove DEF TryReadFails
<1>5. ASSUME NEW t \in Threads, StrayRelease(t) PROVE Inv'
  <2>1. UNCHANGED <<rwlock, writers_waiting>> /\ monitor' \in Threads \union {NoThread}
    BY <1>5 DEF StrayRelease
  <2> QED
    BY <1>5, <2>1, UncountedMove DEF StrayRelease
<1>6. CASE UNCHANGED vars
  BY <1>6 DEF vars, Inv, TypeOK, CounterIsHolders, WaitingIsCounted,
              NoLostWakeup, ReadersBlocked, Readers, Writers, WaitingWriters, At
<1> QED
  BY <1>1, <1>2, <1>3, <1>4, <1>5, <1>6, ReadAcquireStep, WriteAcquireStep,
     WriteWaitStep, ReadReleaseStep, WriteReleaseStep, NotifyWriterStep,
     NotifyReadersStep DEF Next, Lock

-----------------------------------------------------------------------------
(***************************************************************************)
(* The invariant holds in every behaviour, whatever the number of threads  *)
(* and with or without stray "upgrade off" commands.                       *)
(***************************************************************************)
THEOREM Invariance == Spec => []Inv
BY InvInit, InvNext, PTL DEF Spec

\* The fields of the lock and the places of the threads keep their types.
THEOREM TypeCorrect == Spec => []TypeOK
<1>1. Inv => TypeOK
  BY DEF Inv
<1> QED
  BY <1>1, Invariance, PTL

\* The counter of rwlock.py is the number of holders, -1 for a writer.
THEOREM CounterCorrect == Spec => []CounterIsHolders
<1>1. Inv => CounterIsHolders
  BY DEF Inv
<1> QED
  BY <1>1, Invariance, PTL

\* finish_release never forgets a sleeper, whatever runs in its gap.
THEOREM WakeupsAreKept == Spec => []NoLostWakeup
<1>1. Inv => NoLostWakeup
  BY DEF Inv
<1> QED
  BY <1>1, Invariance, PTL

\* A thread that writes is the one writer the counter stands for.
LEMMA InvWriterIsAlone == Inv => MutualExclusion
<1> SUFFICES ASSUME Inv, NEW t \in Writers
             PROVE  Writers = {t} /\ Readers = {}
  BY DEF MutualExclusion
<1>1. t \in At({"writing"})
  BY DEF Writers
<1>2. At({"reading"}) = {} /\ Cardinality(At({"writing"})) = 1
  BY <1>1, Counted
<1>3. Cardinality(At({"writing"}) \ {t}) = 0
  BY <1>1, <1>2, LeaveCounts
<1>4. IsFiniteSet(At({"writing"}) \ {t})
  BY AtIsFinite, FS_Subset
<1>5. At({"writing"}) \ {t} = {}
  BY <1>3, <1>4, FS_EmptySet
<1> QED
  BY <1>1, <1>2, <1>5 DEF Readers, Writers

\* A writer (an upgrade) is alone with the lock.
THEOREM WriterIsAlone == Spec => []MutualExclusion
BY InvWriterIsAlone, Invariance, PTL

-----------------------------------------------------------------------------
(* The lock implements the contract of AbstractRWLock.                     *)

\* The contract's view of a thread that moves between places it cannot see.
LEMMA HiddenMove ==
    ASSUME TypeOK, NEW t \in Threads, NEW place, Goto(t, place),
           pc[t] \notin {"reading", "writing", "write_wait", "write_rewait"},
           place \notin {"reading", "writing", "write_wait", "write_rewait"}
    PROVE  UNCHANGED Abstract!vars
<1>1. Readers' = Readers /\ Writers' = Writers
  BY Stays DEF Readers, Writers
<1>2. WaitingWriters' = WaitingWriters
  BY Stays DEF WaitingWriters
<1> QED
  BY <1>1, <1>2 DEF Abstract!vars

\* A reader starts only when nobody writes and no writer waits.
LEMMA ReadAcquireRefines ==
    ASSUME Inv, NEW t \in Threads, ReadAcquire(t)
    PROVE  Abstract!StartReading(t)
<1>1. TypeOK /\ Goto(t, "reading")
  BY DEF Inv, ReadAcquire
<1>2. t \notin Readers /\ t \notin Writers
  BY DEF ReadAcquire, Readers, Writers, At
<1>3. Writers = {} /\ WaitingWriters = {}
  <2>1. rwlock >= 0 /\ writers_waiting = 0
    BY <1>1 DEF TypeOK, ReadAcquire, ReadersBlocked
  <2> QED
    BY <2>1, Counted, NobodyAt DEF Writers, WaitingWriters
<1>4. Readers' = Readers \union {t} /\ Writers' = Writers
  BY <1>1, <1>2, Moves DEF Readers, Writers
<1>5. WaitingWriters' = WaitingWriters
  BY <1>1, Stays DEF WaitingWriters, ReadAcquire
<1> QED
  BY <1>2, <1>3, <1>4, <1>5 DEF Abstract!StartReading

\* A writer starts only when nobody holds the lock.
LEMMA WriteAcquireRefines ==
    ASSUME Inv, NEW t \in Threads, WriteAcquire(t)
    PROVE  Abstract!StartWriting(t)
<1>1. TypeOK /\ Goto(t, "writing")
  BY DEF Inv, WriteAcquire
<1>2. Readers = {} /\ Writers = {}
  BY Counted, NobodyAt DEF WriteAcquire, Readers, Writers
<1>3. Readers' = Readers
  BY <1>1, Stays DEF Readers, WriteAcquire
<1>4. Writers' = {t}
  BY <1>1, <1>2, Moves DEF Writers
<1>5. WaitingWriters' = WaitingWriters \ {t}
  BY <1>1, Moves DEF WaitingWriters
<1> QED
  BY <1>2, <1>3, <1>4, <1>5 DEF Abstract!StartWriting

\* A writer that is notified in vain and sleeps again has not stopped waiting.
LEMMA WriteWaitRefines ==
    ASSUME Inv, NEW t \in Threads, WriteWait(t)
    PROVE  Abstract!StartWaiting(t) \/ UNCHANGED Abstract!vars
<1>1. TypeOK /\ Goto(t, "write_wait")
  BY DEF Inv, WriteWait
<1>2. Readers' = Readers /\ Writers' = Writers
  BY <1>1, Stays DEF Readers, Writers, WriteWait
<1>3. WaitingWriters' = WaitingWriters \union {t}
  BY <1>1, Moves DEF WaitingWriters
<1>4. Readers # {} \/ Writers # {}
  <2>1. Cardinality({}) = 0
    BY FS_EmptySet
  <2> QED
    BY <2>1, Counted DEF WriteWait, Readers, Writers
<1>5. CASE t \in WaitingWriters
  BY <1>2, <1>3, <1>5 DEF Abstract!vars
<1>6. CASE t \notin WaitingWriters
  BY <1>2, <1>3, <1>4, <1>6 DEF Abstract!StartWaiting
<1> QED
  BY <1>5, <1>6

\* A release is a release of the contract, whomever it goes on to notify.
LEMMA ReleaseRefines ==
    ASSUME Inv, NEW t \in Threads, ReadRelease(t) \/ WriteRelease(t)
    PROVE  Abstract!StopReading(t) \/ Abstract!StopWriting(t)
<1>1. PICK place \in {"notify_writer", "notify_readers", "idle"} : Goto(t, place)
  BY DEF ReadRelease, WriteRelease, AfterRelease
<1>2. TypeOK
  BY DEF Inv
<1>3. WaitingWriters' = WaitingWriters
  BY <1>1, <1>2, Stays DEF WaitingWriters, ReadRelease, WriteRelease
<1>4. Readers' = Readers \ {t} /\ Writers' = Writers \ {t}
  BY <1>1, <1>2, Moves DEF Readers, Writers
<1>5. CASE ReadRelease(t)
  <2>1. t \in Readers /\ t \notin Writers
    BY <1>5 DEF ReadRelease, Readers, Writers, At
  <2> QED
    BY <1>3, <1>4, <2>1 DEF Abstract!StopReading
<1>6. CASE WriteRelease(t)
  <2>1. t \in Writers /\ t \notin Readers
    BY <1>6 DEF WriteRelease, Readers, Writers, At
  <2>2. Writers = {t}
    BY <2>1, InvWriterIsAlone DEF MutualExclusion
  <2> QED
    BY <1>3, <1>4, <2>1, <2>2 DEF Abstract!StopWriting
<1> QED
  BY <1>5, <1>6

\* The notifications are invisible to the contract.
LEMMA NotifyRefines ==
    ASSUME Inv, NEW t \in Threads, NotifyWriter(t) \/ NotifyReaders(t)
    PROVE  UNCHANGED Abstract!vars
<1>1. TypeOK
  BY DEF Inv
<1>2. CASE NotifyReaders(t)
  <2>1. Readers' = Readers /\ Writers' = Writers
    BY <1>1, <1>2 DEF TypeOK, NotifyReaders, Readers, Writers, At
  <2>2. WaitingWriters' = WaitingWriters
    BY <1>1, <1>2 DEF TypeOK, NotifyReaders, WaitingWriters, At
  <2> QED
    BY <2>1, <2>2 DEF Abstract!vars
<1>3. CASE NotifyWriter(t) /\ At({"write_wait"}) = {}
  BY <1>1, <1>3, HiddenMove DEF NotifyWriter
<1>4. CASE NotifyWriter(t) /\ At({"write_wait"}) # {}
  <2>1. PICK w \in At({"write_wait"}) :
            pc' = [pc EXCEPT ![t] = "idle", ![w] = "write_rewait"]
    BY <1>4 DEF NotifyWriter
  <2>2. pc[t] = "notify_writer" /\ w \in Threads /\ pc[w] = "write_wait"
    BY <1>4 DEF At, NotifyWriter
  <2>3. Readers' = Readers /\ Writers' = Writers
    BY <1>1, <2>1, <2>2 DEF TypeOK, Readers, Writers, At
  <2>4. WaitingWriters' = WaitingWriters
    BY <1>1, <2>1, <2>2 DEF TypeOK, WaitingWriters, At
  <2> QED
    BY <2>3, <2>4 DEF Abstract!vars
<1> QED
  BY <1>2, <1>3, <1>4

LEMMA NextRefines == Inv /\ [Next]_vars => [Abstract!Next]_(Abstract!vars)
<1> SUFFICES ASSUME Inv, [Next]_vars PROVE [Abstract!Next]_(Abstract!vars)
  OBVIOUS
<1>1. TypeOK
  BY DEF Inv
<1>2. ASSUME NEW t \in Threads,
             Call(t) \/ CallStrayOff(t) \/ ReadWait(t) \/ TryReadFails(t)
                 \/ StrayRelease(t)
      PROVE  UNCHANGED Abstract!vars
  BY <1>1, <1>2, HiddenMove
     DEF Call, CallStrayOff, ReadWait, TryReadFails, StrayRelease
<1>3. CASE UNCHANGED vars
  BY <1>3 DEF vars, Abstract!vars, Readers, Writers, WaitingWriters, At
<1> QED
  BY <1>2, <1>3, ReadAcquireRefines, WriteAcquireRefines, WriteWaitRefines,
     ReleaseRefines, NotifyRefines DEF Next, Lock, Abstract!Next

(***************************************************************************)
(* rwlock.py:8-9 and 43-44: the lock does what its docstrings say, writers *)
(* first included, for any number of threads.                              *)
(***************************************************************************)
THEOREM Refinement == Spec => ImplementsAbstract
<1>1. Init => Abstract!Init
  BY DEF Init, Abstract!Init, Readers, Writers, WaitingWriters, At
<1> QED
  BY <1>1, NextRefines, Invariance, PTL DEF Spec, ImplementsAbstract, Abstract!Spec

=============================================================================
