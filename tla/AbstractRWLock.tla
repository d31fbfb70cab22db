--------------------------- MODULE AbstractRWLock ---------------------------
(***************************************************************************)
(* What the reader-writer lock of src/controller/controller/rwlock.py      *)
(* promises its callers, said without its counters, its monitor or its     *)
(* conditions.  It is the docstring of the class and of write_acquire:     *)
(* several readers may hold the lock together, a writer holds it alone,    *)
(* and nobody starts reading while a writer waits.                         *)
(***************************************************************************)

CONSTANT Threads

VARIABLES
    reading,    \* the threads that hold a read lock
    writing,    \* the threads that hold the write lock: at most one
    waiting     \* the writers asleep in write_acquire

vars == <<reading, writing, waiting>>

Init ==
    /\ reading = {}
    /\ writing = {}
    /\ waiting = {}

StartReading(t) ==
    /\ t \notin reading
    /\ writing = {} /\ waiting = {}
    /\ reading' = reading \union {t}
    /\ UNCHANGED <<writing, waiting>>

\* Only a thread that finds the lock taken goes to sleep.
StartWaiting(t) ==
    /\ t \notin waiting
    /\ reading # {} \/ writing # {}
    /\ waiting' = waiting \union {t}
    /\ UNCHANGED <<reading, writing>>

StartWriting(t) ==
    /\ reading = {} /\ writing = {}
    /\ writing' = {t}
    /\ waiting' = waiting \ {t}
    /\ UNCHANGED reading

StopReading(t) ==
    /\ t \in reading
    /\ reading' = reading \ {t}
    /\ UNCHANGED <<writing, waiting>>

StopWriting(t) ==
    /\ t \in writing
    /\ writing' = {}
    /\ UNCHANGED <<reading, waiting>>

Next ==
    \E t \in Threads :
        \/ StartReading(t) \/ StopReading(t)
        \/ StartWaiting(t) \/ StartWriting(t) \/ StopWriting(t)

Spec == Init /\ [][Next]_vars

=============================================================================
