----------------------------- MODULE ArchiveStore -----------------------------
(***************************************************************************)
(* What a manager of archives (workbooks.py, datasources.py,               *)
(* extract_archive.py) promises about the archives it keeps, said without  *)
(* its tables, commands, files and failures: archives are added one at a   *)
(* time, a revision of an item once; the only one that ever goes is the    *)
(* oldest of its item, and the retention count of them stays.              *)
(***************************************************************************)
EXTENDS Integers, FiniteSets

CONSTANTS
    Items,      \* the workbooks, data sources or extracts
    Revisions,  \* the times of their publications
    KeepCount   \* the retention count the user sets, -1 for all

VARIABLE kept   \* the revisions of each item that are archived

Init == kept = [i \in Items |-> {}]

Add(i) == \E t \in Revisions \ kept[i] : kept' = [kept EXCEPT ![i] = @ \union {t}]

TakeOldest(i) ==
    /\ KeepCount # -1
    /\ \E t \in kept[i] :
         /\ \A u \in kept[i] : t <= u
         /\ Cardinality(kept[i] \ {t}) >= KeepCount
         /\ kept' = [kept EXCEPT ![i] = @ \ {t}]

Next == \E i \in Items : Add(i) \/ TakeOldest(i)

Spec == Init /\ [][Next]_kept
=============================================================================
