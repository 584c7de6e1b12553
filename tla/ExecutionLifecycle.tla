------------------------- MODULE ExecutionLifecycle -------------------------
(* What RuntimeService promises of the status of one execution: it is       *)
(* queued, runs, may be suspended and come back, and ends once.             *)

VARIABLES
  status,  \* the status of the execution
  timer    \* the timer of its suspension: none, pending or due

Terminal == {"succeeded", "failed", "cancelled", "timed_out"}

Init == status = "absent" /\ timer = "none"

Queue   == status = "absent" /\ status' = "queued" /\ UNCHANGED timer
Begin   == status = "queued" /\ status' = "running" /\ UNCHANGED timer

\* A delay waits for its timer; any other suspension waits for somebody.
Suspend ==
  /\ status = "running" /\ status' = "suspended"
  /\ timer' \in {"none", "pending"}
Elapse  == status = "suspended" /\ timer = "pending" /\ timer' = "due" /\ UNCHANGED status
Resume  ==
  /\ status = "suspended" /\ status' = "running"
  /\ timer = "due" /\ timer' = "none"

\* An execution without a version to run fails without having run.
Close ==
  /\ status \in {"queued", "running"} /\ status' \in Terminal
  /\ UNCHANGED timer

Next == Queue \/ Begin \/ Suspend \/ Elapse \/ Resume \/ Close

Spec == Init /\ [][Next]_<<status, timer>>
=============================================================================
