------------------------------ MODULE Runtime ------------------------------
(***************************************************************************)
(* The durable workflow interpreter: RuntimeService, over one execution    *)
(* and the invocations that may drive it at the same time.  An invocation  *)
(* is AgentsService.run with the execution's idempotency key (Triggers),   *)
(* one pass of the resume cron over it (Sweeps) or one POST .../resume     *)
(* (Apis); each of them ends in RuntimeService.run.                        *)
(*                                                                         *)
(* Every statement that touches the database is a step of its own.  What a *)
(* node does is abstracted to its outcome and the tokens it uses, the      *)
(* graph to who follows whom, and the clock to two facts: whether the      *)
(* suspension's timer and the execution's deadline have passed.            *)
(***************************************************************************)
EXTENDS Naturals, Sequences

CONSTANTS
  Triggers, Sweeps, Apis,  \* the invocations, by what starts them
  Nodes,      \* the nodes of the graph
  Unknown,    \* ids an edge of a faulty graph may name
  NoNode,     \* no current node, no edge to follow
  Entry,      \* the node after the trigger, or NoNode
  Out,        \* the targets of each node's edges that are not error edges
  First,      \* the first of those edges, or NoNode: the one resume follows
  OnError,    \* the target of each node's error edge, or NoNode
  Outcomes,   \* what each node may come to
  MaxSteps,   \* MAX_STEPS
  TokenCap,   \* the tenant's perExecutionTokenCap
  MaxTokens,  \* bound: what one node may use
  MayCancel,  \* whether anybody cancels
  MaxCrashes  \* bound: invocations that die between two statements

Callers == Triggers \cup Sweeps \cup Apis
Targets == Nodes \cup Unknown

ASSUME RuntimeAssumption ==
  /\ NoNode \notin Targets
  /\ Nodes \cap Unknown = {}
  /\ Entry \in Targets \cup {NoNode}
  /\ Out \in [Nodes -> SUBSET Targets]
  /\ First \in [Nodes -> Targets \cup {NoNode}]
  /\ \A n \in Nodes : IF Out[n] = {} THEN First[n] = NoNode ELSE First[n] \in Out[n]
  /\ OnError \in [Nodes -> Targets \cup {NoNode}]
  /\ Outcomes \in [Nodes -> SUBSET {"ok", "error", "wait", "delay", "terminal"}]
  /\ MaxSteps \in Nat /\ TokenCap \in Nat \ {0} /\ MaxTokens \in Nat
  /\ MayCancel \in BOOLEAN /\ MaxCrashes \in Nat

VARIABLES
  exec,     \* the executions row
  steps,    \* the execution_steps rows, by sequence
  run,      \* the local state of each invocation
  effects,  \* the sequences whose node has run: its side effects are done
  spent,    \* tokens those nodes used
  late,     \* the deadline has passed
  crashes

vars == <<exec, steps, run, effects, spent, late, crashes>>

Terminal == {"succeeded", "failed", "cancelled", "timed_out"}
Status   == {"absent", "queued", "running", "suspended"} \cup Terminal
Outcome  == {"none", "ok", "error", "wait", "delay", "terminal"}
PC == {"idle", "create", "resume", "advance", "load", "begin", "count", "head", "open",
       "execute", "cap", "close", "route", "finish", "fail", "timeout", "ended"}

Row  == [status : Status, node : Targets \cup {NoNode}, versioned : BOOLEAN,
         timer : {"none", "pending", "due"}, tokens : Nat]
Step == [node : Nodes, status : {"running", "succeeded", "failed"}]
Run  == [pc : PC, node : Targets \cup {NoNode}, seq : Nat, tokens : Nat,
         outcome : Outcome, usage : BOOLEAN]

NoRun == [pc |-> "idle", node |-> NoNode, seq |-> 0, tokens |-> 0,
          outcome |-> "none", usage |-> FALSE]

TypeOK ==
  /\ exec \in Row
  /\ steps \in Seq(Step)
  /\ run \in [Callers -> Run]
  /\ effects \subseteq Nat
  /\ spent \in Nat
  /\ late \in BOOLEAN
  /\ crashes \in Nat

Init ==
  /\ exec = [status |-> "absent", node |-> NoNode, versioned |-> TRUE,
             timer |-> "none", tokens |-> 0]
  /\ steps = <<>>
  /\ run = [i \in Callers |-> NoRun]
  /\ effects = {}
  /\ spent = 0
  /\ late = FALSE
  /\ crashes = 0

-----------------------------------------------------------------------------
\* Invocation i goes on at pc s and keeps the rest of its state.
Goto(i, s) == run' = [run EXCEPT ![i] = [@ EXCEPT !.pc = s]]

\* Invocation i returns or throws.  The cron handler will be called again.
End(i) == run' = [run EXCEPT ![i] =
  [NoRun EXCEPT !.pc = IF i \in Sweeps THEN "idle" ELSE "ended"]]

At(i, s) == run[i].pc = s

\* What a statement that only reads, or only moves the invocation, leaves alone.
KeepsDurable == UNCHANGED <<exec, steps, effects, spent, late, crashes>>
KeepsHistory == UNCHANGED <<effects, spent, late, crashes>>

-----------------------------------------------------------------------------
(* AgentsService.run and RuntimeService.start.                             *)

\* The row found under the idempotency key is returned, and run on.
StartFinds(i) ==
  /\ At(i, "idle") /\ i \in Triggers
  /\ Goto(i, IF exec.status = "absent" THEN "create" ELSE "load")
  /\ KeepsDurable

StartCreates(i) ==
  /\ At(i, "create") /\ exec.status = "absent"
  /\ \E v \in BOOLEAN : exec' = [exec EXCEPT !.status = "queued", !.versioned = v]
  /\ Goto(i, "load")
  /\ UNCHANGED steps /\ KeepsHistory

\* Another trigger inserted the key first: the unique index refuses this one.
StartRefused(i) ==
  /\ At(i, "create") /\ exec.status # "absent"
  /\ End(i)
  /\ KeepsDurable

-----------------------------------------------------------------------------
(* RuntimeService.resume and its callers.                                  *)

\* Mutant: every suspended execution is listed.
SweepListsAll(i) ==
  /\ At(i, "idle") /\ i \in Sweeps
  /\ exec.status = "suspended"
  /\ Goto(i, "resume")
  /\ KeepsDurable

\* resumeDue lists the suspended executions whose timer is due.
SweepLists(i) ==
  /\ At(i, "idle") /\ i \in Sweeps
  /\ exec.status = "suspended" /\ exec.timer = "due"
  /\ Goto(i, "resume")
  /\ KeepsDurable

ApiResumes(i) ==
  /\ At(i, "idle") /\ i \in Apis /\ exec.status # "absent"
  /\ Goto(i, "resume")
  /\ KeepsDurable

\* Mutant: the status is not looked at before the resume.
ResumeReadsAny(i) ==
  /\ At(i, "resume") /\ exec.status # "absent"
  /\ run' = [run EXCEPT ![i] = [@ EXCEPT !.pc = "advance", !.node = exec.node]]
  /\ KeepsDurable

ResumeReads(i) ==
  /\ At(i, "resume") /\ exec.status = "suspended"
  /\ run' = [run EXCEPT ![i] = [@ EXCEPT !.pc = "advance", !.node = exec.node]]
  /\ KeepsDurable

ResumeConflict(i) ==
  /\ At(i, "resume") /\ exec.status # "suspended"
  /\ End(i)
  /\ KeepsDurable

\* Mutant: the suspending node itself is run again.
ResumeInPlace(i) ==
  /\ At(i, "advance")
  /\ exec' = [exec EXCEPT !.status = "running", !.node = run[i].node, !.timer = "none"]
  /\ Goto(i, "load")
  /\ UNCHANGED steps /\ KeepsHistory

\* Mutant: with no edge to follow, nothing more is done.
ResumeStops(i) ==
  /\ At(i, "advance")
  /\ LET next == IF run[i].node \in Nodes THEN First[run[i].node] ELSE NoNode IN
       /\ exec' = [exec EXCEPT !.status = "running", !.node = next, !.timer = "none"]
       /\ IF next = NoNode THEN End(i) ELSE Goto(i, "load")
  /\ UNCHANGED steps /\ KeepsHistory

\* Past the suspending node, by its first edge; with no edge it is finished.
ResumeAdvances(i) ==
  /\ At(i, "advance")
  /\ LET next == IF run[i].node \in Nodes THEN First[run[i].node] ELSE NoNode IN
       /\ exec' = [exec EXCEPT !.status = "running", !.node = next, !.timer = "none"]
       /\ run' = [run EXCEPT ![i] = [@ EXCEPT
            !.pc = IF next = NoNode THEN "finish" ELSE "load",
            !.outcome = "terminal"]]
  /\ UNCHANGED steps /\ KeepsHistory

-----------------------------------------------------------------------------
(* RuntimeService.run, up to its loop.                                     *)

RunReturns(i) ==
  /\ At(i, "load") /\ exec.status \in Terminal
  /\ End(i)
  /\ KeepsDurable

\* Mutant: the usage of earlier runs is not loaded.
RunLoadsFresh(i) ==
  /\ At(i, "load") /\ exec.status \notin Terminal
  /\ run' = [run EXCEPT ![i] = [NoRun EXCEPT
       !.pc   = IF exec.versioned THEN "begin" ELSE "fail",
       !.node = IF exec.node = NoNode THEN Entry ELSE exec.node]]
  /\ KeepsDurable

RunLoads(i) ==
  /\ At(i, "load") /\ exec.status \notin Terminal
  /\ run' = [run EXCEPT ![i] = [NoRun EXCEPT
       !.pc     = IF exec.versioned THEN "begin" ELSE "fail",
       !.node   = IF exec.node = NoNode THEN Entry ELSE exec.node,
       !.tokens = exec.tokens]]
  /\ KeepsDurable

\* The status is written whatever it has become since it was read.
RunBegins(i) ==
  /\ At(i, "begin")
  /\ exec' = [exec EXCEPT !.status = "running"]
  /\ Goto(i, "count")
  /\ UNCHANGED steps /\ KeepsHistory

RunCounts(i) ==
  /\ At(i, "count")
  /\ run' = [run EXCEPT ![i] = [@ EXCEPT !.pc = "head", !.seq = Len(steps)]]
  /\ KeepsDurable

-----------------------------------------------------------------------------
(* The loop.                                                               *)

\* Mutant: the step limit lets one more step through.
VerdictOffByOne(i) ==
  IF run[i].node = NoNode              THEN "finish"
  ELSE IF run[i].seq > MaxSteps        THEN "fail"
  ELSE IF late                         THEN "timeout"
  ELSE IF exec.status = "cancelled"    THEN "cancelled"
  ELSE IF run[i].node \in Nodes        THEN "open"
  ELSE                                      "fail"

\* Mutant: the node is not looked up.
VerdictUnknownRuns(i) ==
  IF run[i].node = NoNode              THEN "finish"
  ELSE IF run[i].seq >= MaxSteps       THEN "fail"
  ELSE IF late                         THEN "timeout"
  ELSE IF exec.status = "cancelled"    THEN "cancelled"
  ELSE                                      "open"

\* while (currentId), the step limit, the deadline, the cooperative cancel and
\* the lookup of the node, in that order.
Verdict(i) ==
  IF run[i].node = NoNode              THEN "finish"
  ELSE IF run[i].seq >= MaxSteps       THEN "fail"
  ELSE IF late                         THEN "timeout"
  ELSE IF exec.status = "cancelled"    THEN "cancelled"
  ELSE IF run[i].node \in Nodes        THEN "open"
  ELSE                                      "fail"

LoopHead(i) ==
  /\ At(i, "head")
  /\ IF Verdict(i) = "cancelled"
     THEN End(i)
     ELSE run' = [run EXCEPT ![i] = [@ EXCEPT
            !.pc = Verdict(i), !.usage = (Verdict(i) = "finish")]]
  /\ KeepsDurable

\* Mutant: a row that exists is taken over (an upsert).
StepUpserts(i) ==
  /\ At(i, "open")
  /\ steps' = IF Len(steps) = run[i].seq
              THEN Append(steps, [node |-> run[i].node, status |-> "running"])
              ELSE [steps EXCEPT ![run[i].seq + 1] =
                     [node |-> run[i].node, status |-> "running"]]
  /\ run' = [run EXCEPT ![i] = [@ EXCEPT !.pc = "execute", !.seq = run[i].seq + 1]]
  /\ UNCHANGED exec /\ KeepsHistory

StepOpens(i) ==
  /\ At(i, "open") /\ Len(steps) = run[i].seq
  /\ steps' = Append(steps, [node |-> run[i].node, status |-> "running"])
  /\ run' = [run EXCEPT ![i] = [@ EXCEPT !.pc = "execute", !.seq = run[i].seq + 1]]
  /\ UNCHANGED exec /\ KeepsHistory

\* The sequence is taken: the unique index refuses the row and run throws.
StepRefused(i) ==
  /\ At(i, "open") /\ Len(steps) # run[i].seq
  /\ End(i)
  /\ KeepsDurable

NodeRuns(i) ==
  /\ At(i, "execute")
  /\ \E o \in Outcomes[run[i].node], t \in 0 .. MaxTokens :
       /\ run' = [run EXCEPT ![i] = [@ EXCEPT
            !.pc = "cap", !.outcome = o, !.tokens = run[i].tokens + t, !.usage = TRUE]]
       /\ spent' = spent + t
  /\ effects' = effects \cup {run[i].seq}
  /\ UNCHANGED <<exec, steps, late, crashes>>

\* The ceiling is checked after the node; the step it closes on stays open.
CapChecks(i) ==
  /\ At(i, "cap")
  /\ Goto(i, IF run[i].tokens > TokenCap THEN "fail" ELSE "close")
  /\ KeepsDurable

StepCloses(i) ==
  /\ At(i, "close")
  /\ steps' = [steps EXCEPT ![run[i].seq] = [@ EXCEPT
       !.status = IF run[i].outcome = "error" THEN "failed" ELSE "succeeded"]]
  /\ Goto(i, "route")
  /\ UNCHANGED exec /\ KeepsHistory

\* persistProgress: the node and the usage, but not the status.
Persists(i, n) ==
  /\ exec' = [exec EXCEPT !.node = n, !.tokens = run[i].tokens]
  /\ run' = [run EXCEPT ![i] = [@ EXCEPT !.pc = "head", !.node = n]]

\* An error edge lets a workflow handle failure itself.
RouteError(i) ==
  /\ At(i, "route") /\ run[i].outcome = "error"
  /\ IF OnError[run[i].node] = NoNode
     THEN Goto(i, "fail") /\ UNCHANGED exec
     ELSE Persists(i, OnError[run[i].node])
  /\ UNCHANGED steps /\ KeepsHistory

\* Mutant: the usage is not saved with the suspension.
SuspendForgetsUsage(i) ==
  /\ At(i, "route") /\ run[i].outcome \in {"wait", "delay"}
  /\ exec' = [exec EXCEPT
       !.status = "suspended",
       !.node   = run[i].node,
       !.timer  = IF run[i].outcome = "delay" THEN "pending" ELSE "none"]
  /\ End(i)
  /\ UNCHANGED steps /\ KeepsHistory

\* suspend: only a delay sets resumeAfter, and the status is written blindly.
RouteSuspend(i) ==
  /\ At(i, "route") /\ run[i].outcome \in {"wait", "delay"}
  /\ exec' = [exec EXCEPT
       !.status = "suspended",
       !.node   = run[i].node,
       !.timer  = IF run[i].outcome = "delay" THEN "pending" ELSE "none",
       !.tokens = run[i].tokens]
  /\ End(i)
  /\ UNCHANGED steps /\ KeepsHistory

RouteFinish(i) ==
  /\ At(i, "route")
  /\ run[i].outcome = "terminal" \/ (run[i].outcome = "ok" /\ Out[run[i].node] = {})
  /\ Goto(i, "finish")
  /\ UNCHANGED <<exec, steps>> /\ KeepsHistory

\* nextNode: branch and condition pick one of the edges.
RouteNext(i) ==
  /\ At(i, "route") /\ run[i].outcome = "ok"
  /\ \E n \in Out[run[i].node] : Persists(i, n)
  /\ UNCHANGED steps /\ KeepsHistory

\* finish and fail write the final status unconditionally, and the usage when
\* the invocation has any to report.
Closes(i, at, status) ==
  /\ At(i, at)
  /\ exec' = [exec EXCEPT !.status = status,
                          !.tokens = IF run[i].usage THEN run[i].tokens ELSE @]
  /\ End(i)
  /\ UNCHANGED steps /\ KeepsHistory

RunFinishes(i) == Closes(i, "finish", "succeeded")
RunFails(i)    == Closes(i, "fail", "failed")
RunTimesOut(i) == Closes(i, "timeout", "timed_out")

-----------------------------------------------------------------------------
(* Everybody else.                                                         *)

\* One conditional statement.
Cancel ==
  /\ MayCancel /\ exec.status \in {"queued", "running", "suspended"}
  /\ exec' = [exec EXCEPT !.status = "cancelled"]
  /\ UNCHANGED <<steps, run, effects, spent, late, crashes>>

TimerElapses ==
  /\ exec.timer = "pending"
  /\ exec' = [exec EXCEPT !.timer = "due"]
  /\ UNCHANGED <<steps, run>> /\ KeepsHistory

DeadlinePasses ==
  /\ ~late /\ exec.status \in {"running", "suspended"}
  /\ late' = TRUE
  /\ UNCHANGED <<exec, steps, run, effects, spent, crashes>>

\* The process dies, or the database refuses a statement or an event.
Crash(i) ==
  /\ run[i].pc \notin {"idle", "ended"}
  /\ crashes < MaxCrashes
  /\ crashes' = crashes + 1
  /\ End(i)
  /\ UNCHANGED <<exec, steps, effects, spent, late>>

Advances(i) ==
  \/ StartCreates(i) \/ StartRefused(i)
  \/ ResumeReads(i) \/ ResumeConflict(i) \/ ResumeAdvances(i)
  \/ RunReturns(i) \/ RunLoads(i) \/ RunBegins(i) \/ RunCounts(i)
  \/ LoopHead(i) \/ StepOpens(i) \/ StepRefused(i) \/ NodeRuns(i) \/ CapChecks(i)
  \/ StepCloses(i) \/ RouteError(i) \/ RouteSuspend(i) \/ RouteFinish(i) \/ RouteNext(i)
  \/ RunFinishes(i) \/ RunFails(i) \/ RunTimesOut(i)

Next ==
  \/ \E i \in Callers : Advances(i) \/ Crash(i)
  \/ \E i \in Callers : StartFinds(i) \/ SweepLists(i) \/ ApiResumes(i)
  \/ Cancel \/ TimerElapses \/ DeadlinePasses

(***************************************************************************)
(* An invocation that started goes on (a node's work is bounded by its own *)
(* timeout), the cron comes round and a timer elapses.  Nobody is obliged  *)
(* to trigger, resume or cancel.                                           *)
(***************************************************************************)
Fairness ==
  /\ \A i \in Callers : WF_vars(Advances(i))
  /\ \A i \in Sweeps : WF_vars(SweepLists(i))
  /\ WF_vars(TimerElapses)

Spec == Init /\ [][Next]_vars /\ Fairness
-----------------------------------------------------------------------------
(* What holds however many invocations drive the execution at once.        *)

\* Whoever is inside a node owns the row it opened for it: nobody else is there
\* and the node has not run yet (the unique index on execution and sequence).
OwnStep ==
  \A i \in Callers : At(i, "execute") =>
    /\ run[i].seq \in 1 .. Len(steps)
    /\ steps[run[i].seq] = [node |-> run[i].node, status |-> "running"]
    /\ run[i].seq \notin effects
    /\ \A j \in Callers \ {i} : At(j, "execute") => run[j].seq # run[i].seq

\* A cyclic graph is stopped by MAX_STEPS: the limit counts the steps of every
\* invocation together, and no node runs without a row that records it.
StepBudget ==
  /\ Len(steps) <= MaxSteps
  /\ effects \subseteq 1 .. Len(steps)

\* The statuses an execution ends with, a cancel's too, are undone only by an
\* invocation that had read the row before the end: a later trigger, resume or
\* pass of the cron leaves them alone.
Outside == \A i \in Callers : run[i].pc \in {"idle", "create", "resume", "load", "ended"}
EndsAreFinal ==
  \A s \in Terminal : [](exec.status = s /\ Outside => [](exec.status = s))

\* As long as no invocation dies, an execution somebody triggered or resumed
\* comes to rest, although the invocations refuse each other steps.
Progress ==
  (exec.status \in {"queued", "running"}) ~> (exec.status \in {"suspended"} \cup Terminal)

-----------------------------------------------------------------------------
(* What one trigger and the cron keep to between them, crashes included.   *)

\* On an acyclic graph no node runs twice: a resume advances past the node
\* that suspended (the comment of RuntimeService.resume).
NodesRunOnce ==
  \A j, k \in effects : steps[j].node = steps[k].node => j = k

\* What an ended execution reports was used is what its nodes used, through
\* every suspension, failure and early end.
UsageIsReported == exec.status \in Terminal \ {"cancelled"} => exec.tokens = spent

\* perExecutionTokenCap is checked after the node, so an execution goes beyond
\* it by one node at the most, across suspensions too.
CapBoundsUsage == spent <= TokenCap + MaxTokens

\* The execution goes through its statuses one way (ExecutionLifecycle): only a
\* suspension is ever left, a delay not before its time, and an end is an end.
Lifecycle == INSTANCE ExecutionLifecycle WITH status <- exec.status, timer <- exec.timer
ImplementsLifecycle == Lifecycle!Spec

-----------------------------------------------------------------------------
(* What the documents say and the code does not keep.                      *)

\* "the same key returns the original execution instead of running the
\* workflow twice" (start): triggers alone, and no node runs twice.
SameKeyRunsOnce == NodesRunOnce
=============================================================================
