----------------------------- MODULE AgentCommand -----------------------------
(***************************************************************************)
(* What Controller.cli_cmd (cli_cmd.py) promises about each command, said  *)
(* without its requests, connections, locks and directories: the agent     *)
(* runs the process of an xid once, however often the controller asks, and *)
(* the caller is told one result, which is final.  It is never "done"      *)
(* before the process has ended; one that was seen running is "good" only  *)
(* when the process was.  A command that "failed" may run on.              *)
(***************************************************************************)
CONSTANT Xids

VARIABLES
    process,    \* by xid: none, running, or ended well or badly
    report      \* by xid: what the caller was told

vars == <<process, report>>

Over == {"good", "bad"}

Init ==
    /\ process = [x \in Xids |-> "none"]
    /\ report = [x \in Xids |-> "none"]

\* The process may have ended before the agent answers that it started.
Start(x) ==
    /\ process[x] = "none"
    /\ \E status \in {"running"} \union Over : process' = [process EXCEPT ![x] = status]
    /\ UNCHANGED report

End(x) ==
    /\ process[x] = "running"
    /\ \E status \in Over : process' = [process EXCEPT ![x] = status]
    /\ UNCHANGED report

Report(x) ==
    /\ report[x] = "none"
    /\ \/ process[x] \in Over /\ report' = [report EXCEPT ![x] = "done"]
       \/ process[x] = "good" /\ report' = [report EXCEPT ![x] = "good"]
       \/ report' = [report EXCEPT ![x] = "failed"]
    /\ UNCHANGED process

Next == \E x \in Xids : Start(x) \/ End(x) \/ Report(x)

Spec == Init /\ [][Next]_vars
=============================================================================
