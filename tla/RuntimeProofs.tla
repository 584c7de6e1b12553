---------------------------- MODULE RuntimeProofs ----------------------------
(***************************************************************************)
(* Proofs about Runtime, for any graph, any number of invocations and any  *)
(* number of them dying anywhere: what the unique index on the steps of an *)
(* execution and the step limit guarantee between them; and, on any graph  *)
(* without a cycle, what one trigger and the cron keep to by themselves.   *)
(***************************************************************************)
EXTENDS MCRuntime, SequenceTheorems, TLAPS

InsideNode == {"open", "execute", "cap", "close", "route"}

\* What invocation i, in state r, relies on until its next statement.
Local(r) ==
  /\ r.pc \in InsideNode => r.node \in Nodes
  /\ r.pc = "open" => r.seq < MaxSteps
  /\ r.pc \in {"cap", "close"} => r.seq \in effects
  /\ r.pc = "execute" =>
       /\ r.seq \in 1 .. Len(steps) \ effects
       /\ steps[r.seq] = [node |-> r.node, status |-> "running"]

\* Two invocations inside nodes are at different sequences.
Apart == \A i, j \in Callers :
  i # j /\ At(i, "execute") /\ At(j, "execute") => run[i].seq # run[j].seq

(***************************************************************************)
(* The inductive invariant.  OwnStep alone is not inductive: closing a     *)
(* step must not touch a row somebody else is executing, which holds       *)
(* because whoever closes has run its node, so its sequence is in effects. *)
(***************************************************************************)
Inv ==
  /\ TypeOK
  /\ StepBudget
  /\ \A i \in Callers : Local(run[i])
  /\ Apart

-----------------------------------------------------------------------------
USE RuntimeAssumption DEF Targets

\* Moving one invocation, to a state that fits what is stored, disturbs nobody.
LEMMA Moves ==
  ASSUME Inv, NEW i \in Callers, NEW r \in Run,
         run' = [run EXCEPT ![i] = r], UNCHANGED <<steps, effects>>,
         Local(r), r.pc # "execute"
  PROVE  /\ run' \in [Callers -> Run]
         /\ StepBudget'
         /\ (\A j \in Callers : Local(run[j]))'
         /\ Apart'
<1>1. run' \in [Callers -> Run]
  BY DEF Inv, TypeOK
<1>2. \A j \in Callers : run'[j] = IF j = i THEN r ELSE run[j]
  BY DEF Inv, TypeOK
<1>3. (\A j \in Callers : Local(run[j]))'
  BY <1>2 DEF Inv, Local
<1>4. Apart'
  BY <1>2 DEF Inv, Apart, At
<1> QED BY <1>1, <1>3, <1>4 DEF Inv, StepBudget

LEMMA GoesTo ==
  ASSUME Inv, NEW i \in Callers, NEW s \in PC \ {"execute"}, Goto(i, s),
         UNCHANGED <<steps, effects>>,
         s \in InsideNode => run[i].node \in Nodes,
         s = "open" => run[i].seq < MaxSteps,
         s \in {"cap", "close"} => run[i].seq \in effects
  PROVE  /\ run' \in [Callers -> Run]
         /\ StepBudget'
         /\ (\A j \in Callers : Local(run[j]))'
         /\ Apart'
<1> DEFINE r == [run[i] EXCEPT !.pc = s]
<1>1. run[i] \in Run
  BY DEF Inv, TypeOK
<1>2. r \in Run /\ r.pc = s /\ r.node = run[i].node /\ r.seq = run[i].seq
  BY <1>1 DEF Run
<1>3. run' = [run EXCEPT ![i] = r]
  BY DEF Goto
<1>4. Local(r)
  BY <1>2 DEF Local
<1> HIDE DEF r
<1> QED BY <1>2, <1>3, <1>4, Moves

LEMMA NoRunIsRun == NoRun \in Run
  BY DEF NoRun, Run, PC, Outcome

LEMMA Ends ==
  ASSUME Inv, NEW i \in Callers, End(i), UNCHANGED <<steps, effects>>
  PROVE  /\ run' \in [Callers -> Run]
         /\ StepBudget'
         /\ (\A j \in Callers : Local(run[j]))'
         /\ Apart'
<1> DEFINE r == [NoRun EXCEPT !.pc = IF i \in Sweeps THEN "idle" ELSE "ended"]
<1>1. r \in Run /\ r.pc \in {"idle", "ended"}
  BY DEF NoRun, Run, PC, Outcome
<1>2. run' = [run EXCEPT ![i] = r]
  BY DEF End
<1>3. Local(r)
  BY <1>1 DEF Local, InsideNode
<1> HIDE DEF r
<1> QED BY <1>1, <1>2, <1>3, Moves

-----------------------------------------------------------------------------
\* The types of the row an action writes.
LEMMA RowTypes ==
  ASSUME exec \in Row, NEW s \in Status, NEW n \in Targets \cup {NoNode}, NEW t \in Nat,
         NEW v \in BOOLEAN, NEW c \in {"none", "pending", "due"}
  PROVE  /\ [exec EXCEPT !.status = s] \in Row
         /\ [exec EXCEPT !.timer = c] \in Row
         /\ [exec EXCEPT !.status = s, !.versioned = v] \in Row
         /\ [exec EXCEPT !.status = s, !.node = n, !.timer = c] \in Row
         /\ [exec EXCEPT !.node = n, !.tokens = t] \in Row
         /\ [exec EXCEPT !.status = s, !.tokens = t] \in Row
         /\ [exec EXCEPT !.status = s, !.node = n, !.timer = c, !.tokens = t] \in Row
  BY DEF Row

LEMMA InitEstablishes == Init => Inv
<1> SUFFICES ASSUME Init PROVE Inv
  OBVIOUS
<1>1. TypeOK
  BY NoRunIsRun, EmptySeq DEF Init, TypeOK, Row, Status, Terminal
<1>2. \A i \in Callers : Local(run[i])
  BY DEF Init, Local, NoRun, InsideNode
<1>3. StepBudget
  <2>1. steps = <<>> /\ effects = {}
    BY DEF Init
  <2>2. Len(steps) = 0
    BY <2>1
  <2> QED BY <2>1, <2>2 DEF StepBudget
<1>4. Apart
  BY DEF Init, Apart, At, NoRun
<1> QED BY <1>1, <1>2, <1>3, <1>4 DEF Inv

\* Every statement an invocation executes keeps the invariant.
LEMMA AdvancesKeep == ASSUME Inv, NEW i \in Callers, Advances(i) PROVE Inv'
<1> USE DEF At
<1>i. /\ exec \in Row /\ steps \in Seq(Step) /\ run \in [Callers -> Run] /\ run[i] \in Run
      /\ run[i].node \in Targets \cup {NoNode} /\ run[i].seq \in Nat
      /\ run[i].tokens \in Nat /\ exec.tokens \in Nat
  BY DEF Inv, TypeOK, Row, Run
<1>p. PC \ {"execute"} = {"idle", "create", "resume", "advance", "load", "begin", "count",
        "head", "open", "cap", "close", "route", "finish", "fail", "timeout", "ended"}
  BY DEF PC
<1>l. Local(run[i])
  BY DEF Inv
\* What is left to show of a step that neither opens nor closes one.
<1>q. ASSUME run' \in [Callers -> Run], StepBudget', (\A j \in Callers : Local(run[j]))', Apart',
             exec' \in Row, KeepsHistory, UNCHANGED steps
      PROVE  Inv'
  BY <1>q DEF Inv, TypeOK, KeepsHistory
<1> USE DEF KeepsDurable, KeepsHistory
<1>1. CASE StartCreates(i)
  <2>1. PICK v \in BOOLEAN : exec' = [exec EXCEPT !.status = "queued", !.versioned = v]
    BY <1>1 DEF StartCreates
  <2>2. exec' \in Row
    BY <1>i, <2>1 DEF Row, Status
  <2> QED BY <1>1, <2>2, <1>p, <1>q, GoesTo DEF StartCreates, InsideNode
<1>2. CASE StartRefused(i)   BY <1>2, <1>i, <1>q, Ends DEF StartRefused
<1>3. CASE ResumeReads(i)
  <2> DEFINE r == [run[i] EXCEPT !.pc = "advance", !.node = exec.node]
  <2>1. r \in Run /\ r.pc = "advance"
    BY <1>i DEF Run, PC, Row
  <2>2. Local(r)
    BY <2>1 DEF Local, InsideNode
  <2>3. run' = [run EXCEPT ![i] = r]
    BY <1>3 DEF ResumeReads
  <2> HIDE DEF r
  <2> QED BY <1>3, <1>i, <1>q, <2>1, <2>2, <2>3, Moves DEF ResumeReads
<1>4. CASE ResumeConflict(i) BY <1>4, <1>i, <1>q, Ends DEF ResumeConflict
<1>5. CASE ResumeAdvances(i)
  <2> DEFINE next == IF run[i].node \in Nodes THEN First[run[i].node] ELSE NoNode
             to   == IF next = NoNode THEN "finish" ELSE "load"
             r    == [run[i] EXCEPT !.pc = to, !.outcome = "terminal"]
  <2>1. next \in Targets \cup {NoNode}
    OBVIOUS
  <2>2. r \in Run /\ r.pc \in {"finish", "load"}
    BY <1>i DEF Run, PC, Outcome
  <2>3. Local(r)
    BY <2>2 DEF Local, InsideNode
  <2>4. /\ run' = [run EXCEPT ![i] = r]
        /\ exec' = [exec EXCEPT !.status = "running", !.node = next, !.timer = "none"]
    BY <1>5 DEF ResumeAdvances
  <2> HIDE DEF r, next
  <2>5. exec' \in Row
    BY <1>i, <2>1, <2>4, RowTypes DEF Status
  <2> QED BY <1>5, <1>q, <2>2, <2>3, <2>4, <2>5, Moves DEF ResumeAdvances
<1>6. CASE RunReturns(i)     BY <1>6, <1>i, <1>q, Ends DEF RunReturns
<1>7. CASE RunLoads(i)
  <2> DEFINE r == [NoRun EXCEPT
               !.pc     = IF exec.versioned THEN "begin" ELSE "fail",
               !.node   = IF exec.node = NoNode THEN Entry ELSE exec.node,
               !.tokens = exec.tokens]
  <2>1. r \in Run /\ r.pc \in {"begin", "fail"}
    BY <1>i DEF Run, PC, Outcome, NoRun, Row
  <2>2. Local(r)
    BY <2>1 DEF Local, InsideNode
  <2>3. run' = [run EXCEPT ![i] = r]
    BY <1>7 DEF RunLoads
  <2> HIDE DEF r
  <2> QED BY <1>7, <1>i, <1>q, <2>1, <2>2, <2>3, Moves DEF RunLoads
<1>8. CASE RunBegins(i)
  <2>1. exec' \in Row
    BY <1>8, <1>i, RowTypes DEF RunBegins, Status
  <2> QED BY <1>8, <2>1, <1>p, <1>q, GoesTo DEF RunBegins, InsideNode
<1>9. CASE RunCounts(i)
  <2> DEFINE r == [run[i] EXCEPT !.pc = "head", !.seq = Len(steps)]
  <2>1. Len(steps) \in Nat
    BY <1>i
  <2>2. r \in Run /\ r.pc = "head"
    BY <1>i, <2>1 DEF Run, PC
  <2>3. Local(r)
    BY <2>2 DEF Local, InsideNode
  <2>4. run' = [run EXCEPT ![i] = r]
    BY <1>9 DEF RunCounts
  <2> HIDE DEF r
  <2> QED BY <1>9, <1>i, <1>q, <2>2, <2>3, <2>4, Moves DEF RunCounts
<1>10. CASE LoopHead(i)
  <2>1. CASE Verdict(i) = "cancelled"
    BY <1>10, <2>1, <1>i, <1>q, Ends DEF LoopHead
  <2>2. CASE Verdict(i) # "cancelled"
    <3> DEFINE r == [run[i] EXCEPT !.pc = Verdict(i), !.usage = (Verdict(i) = "finish")]
    <3>1. Verdict(i) \in {"finish", "fail", "timeout", "open"}
      BY <2>2 DEF Verdict
    <3>2. Verdict(i) = "open" => run[i].node \in Nodes /\ run[i].seq < MaxSteps
      BY <1>i DEF Verdict
    <3>3. r \in Run /\ r.pc = Verdict(i) /\ r.node = run[i].node /\ r.seq = run[i].seq
      BY <1>i, <3>1 DEF Run, PC
    <3>4. Local(r)
      BY <3>1, <3>2, <3>3 DEF Local, InsideNode
    <3>5. run' = [run EXCEPT ![i] = r]
      BY <1>10, <2>2 DEF LoopHead
    <3> HIDE DEF r
    <3>6. r.pc # "execute"
      BY <3>1, <3>3
    <3> QED BY <1>10, <1>i, <1>q, <3>3, <3>4, <3>5, <3>6, Moves DEF LoopHead
  <2> QED BY <2>1, <2>2
<1>11. CASE StepOpens(i)
  <2> DEFINE r   == [run[i] EXCEPT !.pc = "execute", !.seq = run[i].seq + 1]
             new == [node |-> run[i].node, status |-> "running"]
  <2>s. run[i].seq = Len(steps) /\ run[i].seq + 1 \in Nat
    BY <1>i, <1>11 DEF StepOpens
  <2>t. r \in Run /\ r.pc = "execute" /\ r.node = run[i].node /\ r.seq = run[i].seq + 1
    BY <1>i, <2>s DEF Run, PC
  <2>1. r \in Run /\ r.pc = "execute" /\ r.node = run[i].node /\ r.seq = Len(steps) + 1
    BY <2>s, <2>t
  <2>2. new \in Step /\ Len(steps) < MaxSteps /\ Len(steps) \in Nat
    BY <1>i, <1>l, <1>11 DEF Local, InsideNode, Step, StepOpens
  <2>3. run' = [run EXCEPT ![i] = r] /\ steps' = Append(steps, new) /\ effects' = effects
    BY <1>11 DEF StepOpens
  <2>4. effects \subseteq 1 .. Len(steps)
    BY DEF Inv, StepBudget
  <2> HIDE DEF r, new
  <2>5. /\ steps' \in Seq(Step) /\ Len(steps') = Len(steps) + 1
        /\ steps'[Len(steps) + 1] = new
        /\ \A k \in 1 .. Len(steps) : steps'[k] = steps[k]
    BY <1>i, <2>2, <2>3, AppendProperties
  <2>6. run' \in [Callers -> Run] /\ \A j \in Callers : run'[j] = IF j = i THEN r ELSE run[j]
    BY <1>i, <2>1, <2>3
  <2>n. run[i].node \in Nodes
    BY <1>l, <1>11 DEF Local, InsideNode, StepOpens
  <2>7. Local(run[i])'
    BY <2>n, <2>1, <2>2, <2>3, <2>4, <2>5, <2>6 DEF Local, InsideNode, new
  <2>8. ASSUME NEW j \in Callers, j # i PROVE Local(run[j])'
    <3>1. Local(run[j])
      BY DEF Inv
    <3> QED BY <2>2, <2>3, <2>5, <2>6, <2>8, <3>1 DEF Local, InsideNode
  <2>9. (\A j \in Callers : Local(run[j]))'
    <3> TAKE j \in Callers
    <3>1. CASE j = i  BY <2>7, <3>1
    <3>2. CASE j # i  BY <2>8, <3>2
    <3> QED BY <3>1, <3>2
  <2>10. \A j \in Callers \ {i} : run[j].pc = "execute" => run[j].seq \in 1 .. Len(steps)
    BY DEF Inv, Local
  <2>11. Apart'
    BY <2>1, <2>2, <2>6, <2>10 DEF Inv, Apart
  <2>12. StepBudget'
    BY <2>2, <2>3, <2>4, <2>5 DEF StepBudget
  <2>13. TypeOK'
    BY <1>11, <2>5, <2>6 DEF Inv, TypeOK, StepOpens
  <2> QED BY <2>9, <2>11, <2>12, <2>13 DEF Inv
<1>12. CASE StepRefused(i)   BY <1>12, <1>i, <1>q, Ends DEF StepRefused
<1>13. CASE NodeRuns(i)
  <2>1. PICK o \in Outcomes[run[i].node], t \in 0 .. MaxTokens :
          /\ run' = [run EXCEPT ![i] = [run[i] EXCEPT
               !.pc = "cap", !.outcome = o, !.tokens = run[i].tokens + t, !.usage = TRUE]]
          /\ spent' = spent + t
    BY <1>13 DEF NodeRuns
  <2> DEFINE r == [run[i] EXCEPT
               !.pc = "cap", !.outcome = o, !.tokens = run[i].tokens + t, !.usage = TRUE]
  <2>2. /\ run[i].node \in Nodes /\ run[i].seq \in 1 .. Len(steps) \ effects
        /\ run[i].pc = "execute"
    BY <1>13, <1>l DEF NodeRuns, Local, InsideNode
  <2>3. o \in Outcome
    BY <2>2 DEF Outcome
  <2>t. run[i].tokens + t \in Nat
    BY <1>i
  <2>4. r \in Run /\ r.pc = "cap" /\ r.node = run[i].node /\ r.seq = run[i].seq
    BY <1>i, <2>3, <2>t DEF Run, PC
  <2>5. run' = [run EXCEPT ![i] = r] /\ effects' = effects \cup {run[i].seq} /\ steps' = steps
    BY <1>13, <2>1 DEF NodeRuns
  <2> HIDE DEF r
  <2>6. run' \in [Callers -> Run] /\ \A j \in Callers : run'[j] = IF j = i THEN r ELSE run[j]
    BY <1>i, <2>4, <2>5
  <2>7. \A j \in Callers \ {i} : run[j].pc = "execute" => run[j].seq # run[i].seq
    BY <2>2 DEF Inv, Apart
  <2>8. (\A j \in Callers : Local(run[j]))'
    <3> SUFFICES ASSUME NEW j \in Callers PROVE Local(run[j])'
      OBVIOUS
    <3>1. CASE j = i
      BY <2>2, <2>4, <2>5, <2>6, <3>1 DEF Local, InsideNode
    <3>2. CASE j # i
      <4>1. Local(run[j])
        BY DEF Inv
      <4> QED BY <2>5, <2>6, <2>7, <3>2, <4>1 DEF Local
    <3> QED BY <3>1, <3>2
  <2>9. Apart'
    BY <2>4, <2>6 DEF Inv, Apart
  <2>10. StepBudget'
    BY <2>2, <2>5 DEF Inv, StepBudget
  <2>11. spent' \in Nat
    BY <2>1 DEF Inv, TypeOK
  <2>12. TypeOK'
    BY <1>13, <1>i, <2>5, <2>2, <2>6, <2>11 DEF Inv, TypeOK, NodeRuns
  <2> QED BY <2>8, <2>9, <2>10, <2>12 DEF Inv
<1>14. CASE CapChecks(i)
  <2>1. run[i].seq \in effects /\ run[i].node \in Nodes
    BY <1>14, <1>l DEF CapChecks, Local, InsideNode
  <2>2. CASE run[i].tokens > TokenCap
    BY <1>14, <1>i, <1>p, <1>q, <2>1, <2>2, GoesTo DEF CapChecks, InsideNode
  <2>3. CASE ~(run[i].tokens > TokenCap)
    BY <1>14, <1>i, <1>p, <1>q, <2>1, <2>3, GoesTo DEF CapChecks, InsideNode
  <2> QED BY <2>2, <2>3
<1>15. CASE StepCloses(i)
  <2> DEFINE k    == run[i].seq
             done == [steps[k] EXCEPT
                       !.status = IF run[i].outcome = "error" THEN "failed" ELSE "succeeded"]
             r    == [run[i] EXCEPT !.pc = "route"]
  <2>1. k \in effects /\ run[i].node \in Nodes /\ k \in 1 .. Len(steps)
    BY <1>15, <1>l DEF StepCloses, Local, InsideNode, Inv, StepBudget
  <2>2. steps[k] \in Step
    BY <1>i, <2>1
  <2>3. done \in Step
    BY <2>2 DEF Step
  <2>4. r \in Run /\ r.pc = "route" /\ r.node = run[i].node
    BY <1>i DEF Run, PC
  <2>5. /\ steps' = [steps EXCEPT ![k] = done]
        /\ run' = [run EXCEPT ![i] = r] /\ effects' = effects
    BY <1>15 DEF StepCloses, Goto
  <2> HIDE DEF done, r
  <2>6. /\ steps' \in Seq(Step) /\ Len(steps') = Len(steps)
        /\ \A n \in 1 .. Len(steps) : n # k => steps'[n] = steps[n]
    BY <1>i, <2>1, <2>3, <2>5, ExceptSeq
  <2>7. run' \in [Callers -> Run] /\ \A j \in Callers : run'[j] = IF j = i THEN r ELSE run[j]
    BY <1>i, <2>4, <2>5
  <2>8. (\A j \in Callers : Local(run[j]))'
    <3> SUFFICES ASSUME NEW j \in Callers PROVE Local(run[j])'
      OBVIOUS
    <3>1. CASE j = i
      BY <2>1, <2>4, <2>7, <3>1 DEF Local
    <3>2. CASE j # i
      <4>1. Local(run[j])
        BY DEF Inv
      <4> QED BY <2>1, <2>5, <2>6, <2>7, <3>2, <4>1 DEF Local
    <3> QED BY <3>1, <3>2
  <2>9. Apart'
    BY <2>4, <2>7 DEF Inv, Apart
  <2>10. StepBudget' /\ TypeOK'
    BY <1>15, <2>5, <2>6, <2>7 DEF Inv, TypeOK, StepBudget, StepCloses
  <2> QED BY <2>8, <2>9, <2>10 DEF Inv
\* persistProgress, wherever the error edge or nextNode leads.
<1>16. ASSUME NEW n \in Targets, Persists(i, n), KeepsHistory, UNCHANGED steps
       PROVE  Inv'
  <2> DEFINE r == [run[i] EXCEPT !.pc = "head", !.node = n]
  <2>1. r \in Run /\ r.pc = "head"
    BY <1>i DEF Run, PC
  <2>2. Local(r)
    BY <2>1 DEF Local, InsideNode
  <2>3. /\ run' = [run EXCEPT ![i] = r]
        /\ exec' = [exec EXCEPT !.node = n, !.tokens = run[i].tokens]
    BY <1>16 DEF Persists
  <2> HIDE DEF r
  <2>4. exec' \in Row
    BY <1>i, <2>3 DEF Row
  <2> QED BY <1>16, <1>q, <2>1, <2>2, <2>3, <2>4, Moves
<1>r. run[i].pc = "route" => run[i].node \in Nodes
  BY <1>l DEF Local, InsideNode
<1>17. CASE RouteError(i)
  <2>1. CASE OnError[run[i].node] = NoNode
    BY <1>17, <1>i, <1>p, <1>q, <2>1, GoesTo DEF RouteError, InsideNode
  <2>2. CASE OnError[run[i].node] # NoNode
    BY <1>17, <1>r, <1>16, <2>2 DEF RouteError
  <2> QED BY <2>1, <2>2
<1>18. CASE RouteSuspend(i)
  <2>1. exec' \in Row
    BY <1>18, <1>i DEF RouteSuspend, Row, Status
  <2> QED BY <1>18, <1>q, <2>1, Ends DEF RouteSuspend
<1>19. CASE RouteFinish(i)
  BY <1>19, <1>i, <1>p, <1>q, GoesTo DEF RouteFinish, InsideNode
<1>20. CASE RouteNext(i)
  <2>1. PICK n \in Out[run[i].node] : Persists(i, n)
    BY <1>20 DEF RouteNext
  <2>2. n \in Targets
    BY <1>20, <1>r DEF RouteNext
  <2> QED BY <1>20, <1>16, <2>1, <2>2 DEF RouteNext
\* finish and fail, with or without a usage to report.
<1>21. ASSUME NEW at, NEW s \in Terminal, Closes(i, at, s) PROVE Inv'
  <2> DEFINE t == IF run[i].usage THEN run[i].tokens ELSE exec.tokens
  <2>1. t \in Nat
    BY <1>i
  <2>2. exec' = [exec EXCEPT !.status = s, !.tokens = t]
    BY <1>21 DEF Closes
  <2> HIDE DEF t
  <2>3. exec' \in Row
    BY <1>i, <1>21, <2>1, <2>2 DEF Row, Status
  <2> QED BY <1>21, <1>q, <2>3, Ends DEF Closes
<1>22. CASE RunFinishes(i) \/ RunFails(i) \/ RunTimesOut(i)
  BY <1>22, <1>21 DEF RunFinishes, RunFails, RunTimesOut, Terminal
<1> QED
  BY <1>1, <1>2, <1>3, <1>4, <1>5, <1>6, <1>7, <1>8, <1>9, <1>10, <1>11, <1>12, <1>13,
     <1>14, <1>15, <1>17, <1>18, <1>19, <1>20, <1>22 DEF Advances

LEMMA NextKeeps == Inv /\ [Next]_vars => Inv'
<1> SUFFICES ASSUME Inv, [Next]_vars PROVE Inv'
  OBVIOUS
<1> USE DEF KeepsDurable, KeepsHistory
<1>i. exec \in Row /\ run \in [Callers -> Run]
  BY DEF Inv, TypeOK
<1>1. ASSUME NEW i \in Callers, Crash(i) PROVE Inv'
  <2>1. crashes' \in Nat
    BY <1>1 DEF Crash, Inv, TypeOK
  <2> QED BY <1>1, <2>1, Ends DEF Crash, Inv, TypeOK
<1>2. ASSUME NEW i \in Callers, StartFinds(i) \/ SweepLists(i) \/ ApiResumes(i) PROVE Inv'
  <2>1. PICK s \in {"create", "load", "resume"} : Goto(i, s)
    BY <1>2 DEF StartFinds, SweepLists, ApiResumes
  <2>2. s \in PC \ {"execute"} /\ s \notin InsideNode
    BY DEF PC, InsideNode
  <2>3. UNCHANGED <<exec, steps, effects, spent, late, crashes>>
    BY <1>2 DEF StartFinds, SweepLists, ApiResumes
  <2>4. run' \in [Callers -> Run] /\ StepBudget' /\ (\A j \in Callers : Local(run[j]))' /\ Apart'
    BY <2>1, <2>2, <2>3, GoesTo DEF InsideNode
  <2> QED BY <2>3, <2>4 DEF Inv, TypeOK
\* Whoever else writes leaves the invocations and their steps alone.
<1>3. ASSUME UNCHANGED <<run, steps, effects>>, TypeOK' PROVE Inv'
  BY <1>3 DEF Inv, StepBudget, Local, Apart, At
<1>4. CASE Cancel
  <2>1. exec' \in Row
    BY <1>4, <1>i DEF Cancel, Row, Status, Terminal
  <2> QED BY <1>3, <1>4, <2>1 DEF Cancel, Inv, TypeOK
<1>5. CASE TimerElapses
  <2>1. exec' \in Row
    BY <1>5, <1>i DEF TimerElapses, Row
  <2> QED BY <1>3, <1>5, <2>1 DEF TimerElapses, Inv, TypeOK
<1>6. CASE DeadlinePasses
  BY <1>3, <1>6 DEF DeadlinePasses, Inv, TypeOK
<1>7. CASE UNCHANGED vars
  BY <1>3, <1>7 DEF vars, Inv, TypeOK
<1> QED
  BY <1>1, <1>2, <1>4, <1>5, <1>6, <1>7, AdvancesKeep DEF Next

THEOREM InvHolds == Spec => []Inv
  BY InitEstablishes, NextKeeps, PTL DEF Spec

\* Every variable keeps its type, whoever drives the execution and dies.
THEOREM TypeCorrect == Spec => []TypeOK
  BY InvHolds, PTL DEF Inv

\* No two invocations are ever inside the same step, and none is inside a step
\* whose node has run already.
THEOREM OwnStepHolds == Spec => []OwnStep
<1>1. Inv => OwnStep
  BY DEF Inv, OwnStep, Local, Apart, At
<1> QED BY <1>1, InvHolds, PTL

\* MAX_STEPS bounds the steps of all invocations together, and every node that
\* ran has a row.
THEOREM StepBudgetHolds == Spec => []StepBudget
  BY InvHolds, PTL DEF Inv

-----------------------------------------------------------------------------
\* An end nobody was writing over when it came is one the invocations that start later
\* leave alone: a trigger returns at it, a resume refuses it, the cron does not list it.
Ended(s) == exec.status = s /\ Outside
LEMMA EndStays == ASSUME NEW s \in Terminal PROVE Inv /\ Ended(s) /\ [Next]_vars => Ended(s)'
<1> SUFFICES ASSUME Inv, Ended(s), [Next]_vars PROVE Ended(s)'
  OBVIOUS
<1> USE DEF At, KeepsDurable, KeepsHistory
<1>i. run \in [Callers -> Run] /\ exec \in Row
  BY DEF Inv, TypeOK
<1>s. exec.status = s /\ s \in Terminal /\ s \notin {"absent", "queued", "running", "suspended"}
  BY DEF Ended, Terminal
<1>o. \A i \in Callers : run[i].pc \in {"idle", "create", "resume", "load", "ended"}
  BY DEF Ended, Outside
\* Whoever moves stays outside, and the row keeps its status.
<1>m. ASSUME NEW i \in Callers, NEW r \in Run, run' = [run EXCEPT ![i] = r],
             r.pc \in {"idle", "create", "resume", "load", "ended"}, UNCHANGED exec
      PROVE  Ended(s)'
  BY <1>m, <1>i, <1>s, <1>o DEF Ended, Outside
<1>g. ASSUME NEW i \in Callers, NEW q \in {"create", "resume", "load"}, Goto(i, q), UNCHANGED exec PROVE Ended(s)'
  <2> DEFINE r == [run[i] EXCEPT !.pc = q]
  <2>1. r \in Run /\ r.pc = q /\ run' = [run EXCEPT ![i] = r]
    BY <1>g, <1>i DEF Goto, Run, PC
  <2> HIDE DEF r
  <2> QED BY <1>g, <1>m, <2>1
<1>e. ASSUME NEW i \in Callers, End(i), UNCHANGED exec PROVE Ended(s)'
  <2> DEFINE r == [NoRun EXCEPT !.pc = IF i \in Sweeps THEN "idle" ELSE "ended"]
  <2>1. r \in Run /\ r.pc \in {"idle", "ended"} /\ run' = [run EXCEPT ![i] = r]
    BY <1>e DEF End, NoRun, Run, PC, Outcome
  <2> HIDE DEF r
  <2> QED BY <1>e, <1>m, <2>1
<1>1. ASSUME NEW i \in Callers, Advances(i) PROVE Ended(s)'
  <2>1. StartRefused(i) \/ ResumeConflict(i) \/ RunReturns(i)
    BY <1>1, <1>s, <1>o DEF Advances, StartCreates, ResumeReads, ResumeAdvances, RunLoads, RunBegins, RunCounts, LoopHead,
       StepOpens, StepRefused, NodeRuns, CapChecks, StepCloses, RouteError, RouteSuspend, RouteFinish, RouteNext,
       RunFinishes, RunFails, RunTimesOut, Closes
  <2> QED BY <1>e, <2>1 DEF StartRefused, ResumeConflict, RunReturns
<1>2. ASSUME NEW i \in Callers, Crash(i) PROVE Ended(s)'
  BY <1>2, <1>e DEF Crash
<1>3. ASSUME NEW i \in Callers, StartFinds(i) \/ SweepLists(i) \/ ApiResumes(i) PROVE Ended(s)'
  <2>1. \E q \in {"create", "resume", "load"} : Goto(i, q)
    BY <1>3 DEF StartFinds, SweepLists, ApiResumes
  <2> QED BY <1>3, <1>g, <2>1 DEF StartFinds, SweepLists, ApiResumes
<1>4. ~Cancel
  BY <1>s DEF Cancel
<1>5. CASE TimerElapses
  <2>1. exec'.status = exec.status /\ UNCHANGED run
    BY <1>5, <1>i DEF TimerElapses, Row
  <2> QED BY <2>1, <1>s, <1>o DEF Ended, Outside
<1>6. CASE DeadlinePasses \/ UNCHANGED vars
  BY <1>6, <1>s, <1>o DEF DeadlinePasses, vars, Ended, Outside
<1> QED BY <1>1, <1>2, <1>3, <1>4, <1>5, <1>6 DEF Next

\* Whatever the invocations do, and however many there are: once an execution has ended
\* and whoever had read it before is through, its status is never written again.
THEOREM EndsAreFinalTheorem == Spec => EndsAreFinal
<1>1. ASSUME NEW s \in Terminal PROVE Spec => [](exec.status = s /\ Outside => [](exec.status = s))
  <2>1. Inv /\ Ended(s) /\ [Next]_vars => Ended(s)'
    BY EndStays
  <2>2. Ended(s) <=> exec.status = s /\ Outside
    BY DEF Ended
  <2> QED BY <2>1, <2>2, InvHolds, PTL DEF Spec
<1> QED BY <1>1 DEF EndsAreFinal

-----------------------------------------------------------------------------
(***************************************************************************)
(* One driver on a graph without a cycle: NodesRunOnce says nothing of     *)
(* where the driver goes next.  What is inductive is that ranks rise along *)
(* the steps, that the node a driver is led to is ahead of them all, and   *)
(* that one invocation at most drives: the cron finds the execution only   *)
(* once its trigger has suspended it and gone.                             *)
(***************************************************************************)
RankAt(s, k)  == AloneRank[s[k].node]
Rising(s)     == \A j, k \in 1 .. Len(s) : j < k => RankAt(s, j) < RankAt(s, k)
Reached(n, s) == n \in AloneNodes /\ \A k \in 1 .. Len(s) : RankAt(s, k) <= AloneRank[n]
Ahead(n, s)   == n # NoNode => n \in AloneTargets /\ \A k \in 1 .. Len(s) : RankAt(s, k) < AloneRank[n]

\* Where the invocation in state r stands in the graph, with the row e and the steps s.
Leads(r, e, s) ==
  /\ r.pc \in {"advance", "execute", "cap", "close", "route"} => Reached(r.node, s)
  /\ r.pc \in {"begin", "count", "head", "open"} => Ahead(r.node, s)
  /\ r.pc = "load" => Ahead(e.node, s) /\ (e.node = NoNode => s = <<>>)
  /\ r.pc = "open" => r.node \in AloneNodes
  /\ r.pc \in {"execute", "cap", "close"} => r.seq \in 1 .. Len(s)

\* What it may rely on of the row's status.
Stands(r, e) ==
  /\ r.pc = "create" => e.status = "absent"
  /\ r.pc \in {"resume", "advance"} => e.status = "suspended" /\ e.timer = "due"
  /\ r.pc \in {"load", "begin", "fail"} => e.status \in {"queued", "running"}
  /\ r.pc \in {"count", "head", "open", "execute", "cap", "close", "route", "finish", "timeout"}
       => e.status = "running"

\* Whoever drives, drives alone.
OneDrives(tr, sw, e) ==
  /\ sw.pc # "idle" => tr.pc = "ended"
  /\ sw.pc \notin {"create", "ended"} /\ tr.pc \notin {"resume", "advance"}
  /\ tr.pc = "idle" => e.status = "absent"

RowFits(e, s) ==
  /\ e.status = "absent" => e.node = NoNode /\ s = <<>>
  /\ e.status = "suspended" => Reached(e.node, s)
  /\ e.timer # "none" => e.status = "suspended"

AloneTyped ==
  /\ aloneExec \in L!Row /\ aloneSteps \in Seq(L!Step) /\ aloneRun \in [L!Callers -> L!Run]
AloneInv ==
  /\ AloneTyped
  /\ Rising(aloneSteps) /\ aloneEffects \subseteq 1 .. Len(aloneSteps)
  /\ RowFits(aloneExec, aloneSteps)
  /\ OneDrives(aloneRun[AloneTrigger], aloneRun[AloneSweep], aloneExec)
  /\ \A i \in L!Callers : Stands(aloneRun[i], aloneExec) /\ Leads(aloneRun[i], aloneExec, aloneSteps)

LEMMA AloneCallers == L!Callers = {AloneTrigger, AloneSweep} /\ AloneTrigger # AloneSweep
  BY AloneAssumption DEF L!Callers

\* A driver takes a step: to a state that fits the row and the steps it leaves.
LEMMA AloneMoves ==
  ASSUME AloneInv, NEW i \in L!Callers, NEW r \in L!Run, aloneRun' = [aloneRun EXCEPT ![i] = r],
         aloneRun[i].pc # "ended",
         i = AloneSweep => aloneRun[AloneTrigger].pc = "ended" /\ r.pc \notin {"create", "ended"},
         i = AloneTrigger => r.pc \notin {"idle", "resume", "advance"},
         aloneExec' \in L!Row, aloneSteps' \in Seq(L!Step),
         Rising(aloneSteps'), aloneEffects' \subseteq 1 .. Len(aloneSteps'),
         RowFits(aloneExec', aloneSteps'),
         Stands(r, aloneExec'), Leads(r, aloneExec', aloneSteps')
  PROVE  AloneInv'
<1>1. aloneRun' \in [L!Callers -> L!Run] /\ \A j \in L!Callers : aloneRun'[j] = IF j = i THEN r ELSE aloneRun[j]
  BY DEF AloneInv, AloneTyped
<1>2. \A j \in L!Callers : j # i => aloneRun[j].pc \in {"idle", "ended"}
  BY AloneCallers DEF AloneInv, OneDrives
<1>3. (\A j \in L!Callers : Stands(aloneRun[j], aloneExec) /\ Leads(aloneRun[j], aloneExec, aloneSteps))'
  <2> SUFFICES ASSUME NEW j \in L!Callers
               PROVE  Stands(aloneRun'[j], aloneExec') /\ Leads(aloneRun'[j], aloneExec', aloneSteps')
    BY Zenon DEF L!Callers
  <2>1. CASE j = i  BY <1>1, <2>1
  <2>2. CASE j # i
    <3> DEFINE q == aloneRun'[j]
    <3>1. q.pc \in {"idle", "ended"}
      BY <1>1, <1>2, <2>2
    <3> HIDE DEF q
    <3>2. Stands(q, aloneExec') /\ Leads(q, aloneExec', aloneSteps')
      BY <3>1 DEF Stands, Leads
    <3> QED BY <3>2 DEF q
  <2> QED BY <2>1, <2>2
<1>4. OneDrives(aloneRun'[AloneTrigger], aloneRun'[AloneSweep], aloneExec')
  BY <1>1, AloneCallers DEF AloneInv, OneDrives
<1>5. OneDrives(aloneRun[AloneTrigger], aloneRun[AloneSweep], aloneExec)'
  BY <1>4, Zenon
<1>6. AloneTyped' /\ Rising(aloneSteps)' /\ (aloneEffects \subseteq 1 .. Len(aloneSteps))' /\ RowFits(aloneExec, aloneSteps)'
  <2>1. AloneTyped'
    BY <1>1 DEF AloneTyped, L!Callers, L!Run, L!Row, L!Step, L!Targets, L!PC, L!Outcome, L!Status, L!Terminal
  <2>2. Rising(aloneSteps)' /\ RowFits(aloneExec, aloneSteps)'
    BY Zenon
  <2> QED BY <2>1, <2>2
<1> QED BY <1>3, <1>5, <1>6 DEF AloneInv

\* It returns, throws or dies, having written what fits.
LEMMA AloneEnds ==
  ASSUME AloneInv, NEW i \in L!Callers, aloneRun[i].pc \notin {"idle", "ended"}, L!End(i),
         aloneExec' \in L!Row, RowFits(aloneExec', aloneSteps), aloneExec'.status # "absent" \/ aloneExec' = aloneExec,
         UNCHANGED <<aloneSteps, aloneEffects>>
  PROVE  AloneInv'
<1> DEFINE r == [L!NoRun EXCEPT !.pc = IF i \in {AloneSweep} THEN "idle" ELSE "ended"]
<1>1. r \in L!Run /\ r.pc = IF i = AloneSweep THEN "idle" ELSE "ended"
  BY DEF L!NoRun, L!Run, L!PC, L!Outcome
<1>2. aloneRun' = [aloneRun EXCEPT ![i] = r]
  BY DEF L!End
<1> HIDE DEF r
<1>3. Stands(r, aloneExec') /\ Leads(r, aloneExec', aloneSteps')
  BY <1>1 DEF Stands, Leads
<1>4. i = AloneSweep => aloneRun[AloneTrigger].pc = "ended"
  BY DEF AloneInv, OneDrives
<1>5. /\ aloneSteps' \in Seq(L!Step) /\ Rising(aloneSteps') /\ aloneEffects' \subseteq 1 .. Len(aloneSteps')
      /\ RowFits(aloneExec', aloneSteps')
  BY DEF AloneInv, AloneTyped
<1> QED BY <1>1, <1>2, <1>3, <1>4, <1>5, AloneCallers, AloneMoves

\* It goes on with the row and the steps as they are.
LEMMA AloneGoes ==
  ASSUME AloneInv, NEW i \in L!Callers, NEW r \in L!Run, aloneRun' = [aloneRun EXCEPT ![i] = r],
         aloneRun[i].pc \notin {"idle", "ended"}, r.pc \notin {"idle", "ended", "create", "resume"},
         r.pc = "advance" => aloneRun[i].pc = "resume",
         UNCHANGED <<aloneExec, aloneSteps>>, aloneEffects' \subseteq 1 .. Len(aloneSteps),
         Stands(r, aloneExec), Leads(r, aloneExec, aloneSteps)
  PROVE  AloneInv'
<1>1. i = AloneSweep => aloneRun[AloneTrigger].pc = "ended"
  BY DEF AloneInv, OneDrives
<1>2. i = AloneTrigger => r.pc # "advance"
  BY DEF AloneInv, OneDrives
<1>3. /\ aloneExec' \in L!Row /\ aloneSteps' \in Seq(L!Step) /\ Rising(aloneSteps')
      /\ RowFits(aloneExec', aloneSteps') /\ aloneEffects' \subseteq 1 .. Len(aloneSteps')
      /\ Stands(r, aloneExec') /\ Leads(r, aloneExec', aloneSteps')
  BY DEF AloneInv, AloneTyped
<1> QED BY <1>1, <1>2, <1>3, AloneCallers, AloneMoves

\* What the graph says of where an edge leads.
LEMMA EdgesAhead ==
  ASSUME NEW s \in Seq(L!Step), NEW n, Reached(n, s), NEW m,
         m \in (AloneOut[n] \cup {AloneOnError[n]}) \ {NoNode}
  PROVE  m \in AloneTargets /\ Ahead(m, s)
<1>1. n \in AloneNodes /\ m \in AloneTargets /\ AloneRank[n] < AloneRank[m]
  BY AloneAssumption DEF Reached
<1>2. AloneRank[n] \in Nat /\ AloneRank[m] \in Nat
  BY <1>1, AloneAssumption DEF AloneTargets
<1>3. ASSUME NEW k \in 1 .. Len(s) PROVE RankAt(s, k) < AloneRank[m]
  <2>0. s[k] \in L!Step
    OBVIOUS
  <2>1. s[k].node \in AloneNodes
    BY <2>0 DEF L!Step
  <2>2. AloneRank[s[k].node] \in Nat /\ AloneRank[s[k].node] <= AloneRank[n]
    BY <2>1, AloneAssumption DEF AloneTargets, Reached, RankAt
  <2> QED BY <1>1, <1>2, <2>2 DEF RankAt
<1> QED BY <1>1, <1>3 DEF Ahead

\* Every statement of a driver keeps it so.
LEMMA AloneAdvances == ASSUME AloneInv, NEW i \in L!Callers, L!Advances(i) PROVE AloneInv'
<1> USE DEF L!At
<1>i. /\ aloneExec \in L!Row /\ aloneSteps \in Seq(L!Step) /\ aloneRun \in [L!Callers -> L!Run] /\ aloneRun[i] \in L!Run
      /\ aloneRun[i].seq \in Nat /\ aloneRun[i].tokens \in Nat /\ aloneExec.tokens \in Nat
      /\ aloneRun[i].node \in AloneTargets \cup {NoNode} /\ aloneExec.node \in AloneTargets \cup {NoNode}
  BY DEF AloneInv, AloneTyped, L!Row, L!Run, L!Targets, AloneTargets
<1>l. Stands(aloneRun[i], aloneExec) /\ Leads(aloneRun[i], aloneExec, aloneSteps)
  BY DEF AloneInv
<1>f. RowFits(aloneExec, aloneSteps) /\ Rising(aloneSteps) /\ aloneEffects \subseteq 1 .. Len(aloneSteps)
  BY DEF AloneInv
<1>w. i = AloneSweep => aloneRun[AloneTrigger].pc = "ended"
  <2>1. aloneRun[i].pc # "idle"
    BY DEF L!Advances, L!StartCreates, L!StartRefused, L!ResumeReads, L!ResumeConflict, L!ResumeAdvances, L!RunReturns,
           L!RunLoads, L!RunBegins, L!RunCounts, L!LoopHead, L!StepOpens, L!StepRefused, L!NodeRuns, L!CapChecks, L!StepCloses,
           L!RouteError, L!RouteSuspend, L!RouteFinish, L!RouteNext, L!RunFinishes, L!RunFails, L!RunTimesOut, L!Closes
  <2> QED BY <2>1 DEF AloneInv, OneDrives
<1>a. AloneTargets = AloneNodes \cup AloneUnknown /\ L!Targets = AloneTargets
  BY DEF AloneTargets, L!Targets
\* An end that writes nothing.
<1>e. ASSUME aloneRun[i].pc \notin {"idle", "ended"}, L!End(i), UNCHANGED <<aloneExec, aloneSteps, aloneEffects>>
      PROVE  AloneInv'
  BY <1>e, <1>i, <1>f, AloneEnds
<1> USE DEF L!KeepsDurable, L!KeepsHistory
<1>1. CASE L!StartCreates(i)
  <2>1. PICK v \in BOOLEAN : aloneExec' = [aloneExec EXCEPT !.status = "queued", !.versioned = v]
    BY <1>1 DEF L!StartCreates
  <2>2. aloneExec' \in L!Row /\ aloneExec'.status = "queued" /\ aloneExec'.node = aloneExec.node /\ aloneExec'.timer = aloneExec.timer
    BY <1>i, <2>1 DEF L!Row, L!Status
  <2>3. aloneRun[i].pc = "create" /\ aloneExec.status = "absent" /\ UNCHANGED <<aloneSteps, aloneEffects>>
    BY <1>1 DEF L!StartCreates
  <2>4. aloneExec.node = NoNode /\ aloneSteps = <<>> /\ aloneExec.timer = "none"
    BY <1>f, <2>3 DEF RowFits
  <2> DEFINE r == [aloneRun[i] EXCEPT !.pc = "load"]
  <2>5. r \in L!Run /\ r.pc = "load"
    BY <1>i DEF L!Run, L!PC
  <2>6. aloneRun' = [aloneRun EXCEPT ![i] = r]
    BY <1>1 DEF L!StartCreates, L!Goto
  <2> HIDE DEF r
  <2>7. Stands(r, aloneExec') /\ Leads(r, aloneExec', aloneSteps') /\ RowFits(aloneExec', aloneSteps')
    BY <2>2, <2>3, <2>4, <2>5 DEF Stands, Leads, RowFits, Ahead
  <2>8. i # AloneSweep
    BY <2>3, AloneCallers DEF AloneInv, OneDrives
  <2> QED BY <1>i, <1>f, <2>2, <2>3, <2>5, <2>6, <2>7, <2>8, AloneMoves
<1>2. CASE L!StartRefused(i)   BY <1>2, <1>e DEF L!StartRefused
<1>3. CASE L!ResumeReads(i)
  <2> DEFINE r == [aloneRun[i] EXCEPT !.pc = "advance", !.node = aloneExec.node]
  <2>1. r \in L!Run /\ r.pc = "advance" /\ r.node = aloneExec.node
    BY <1>i DEF L!Run, L!PC, L!Row
  <2>2. aloneRun[i].pc = "resume" /\ aloneExec.status = "suspended"
    BY <1>3 DEF L!ResumeReads
  <2>3. aloneRun' = [aloneRun EXCEPT ![i] = r] /\ UNCHANGED <<aloneExec, aloneSteps, aloneEffects>>
    BY <1>3 DEF L!ResumeReads
  <2> HIDE DEF r
  <2>4. Stands(r, aloneExec) /\ Leads(r, aloneExec, aloneSteps)
    BY <1>l, <1>f, <2>1, <2>2 DEF Stands, Leads, RowFits
  <2> QED BY <1>i, <1>f, <2>1, <2>2, <2>3, <2>4, AloneGoes
<1>4. CASE L!ResumeConflict(i) BY <1>4, <1>e DEF L!ResumeConflict
<1>5. CASE L!ResumeAdvances(i)
  <2> DEFINE next == IF aloneRun[i].node \in AloneNodes THEN AloneFirst[aloneRun[i].node] ELSE NoNode
             to   == IF next = NoNode THEN "finish" ELSE "load"
             r    == [aloneRun[i] EXCEPT !.pc = to, !.outcome = "terminal"]
  <2>1. aloneRun[i].pc = "advance" /\ Reached(aloneRun[i].node, aloneSteps)
    BY <1>5, <1>l DEF L!ResumeAdvances, Leads
  <2>2. next = NoNode \/ next \in AloneOut[aloneRun[i].node]
    BY <2>1, AloneAssumption DEF Reached
  <2>3. next \in AloneTargets \cup {NoNode} /\ Ahead(next, aloneSteps)
    BY <1>i, <2>1, <2>2, EdgesAhead DEF Ahead
  <2>4. r \in L!Run /\ r.pc = to /\ to \in {"finish", "load"}
    BY <1>i DEF L!Run, L!PC, L!Outcome
  <2>5. /\ aloneRun' = [aloneRun EXCEPT ![i] = r]
        /\ aloneExec' = [aloneExec EXCEPT !.status = "running", !.node = next, !.timer = "none"]
        /\ UNCHANGED <<aloneSteps, aloneEffects>>
    BY <1>5 DEF L!ResumeAdvances
  <2>6. to = "load" => next # NoNode
    OBVIOUS
  <2> HIDE DEF r, next, to
  <2>7. /\ aloneExec' \in L!Row /\ aloneExec'.status = "running" /\ aloneExec'.node = next /\ aloneExec'.timer = "none"
    BY <1>i, <1>a, <2>3, <2>5 DEF L!Row, L!Status
  <2>8. Stands(r, aloneExec') /\ Leads(r, aloneExec', aloneSteps') /\ RowFits(aloneExec', aloneSteps')
    BY <2>3, <2>4, <2>5, <2>6, <2>7 DEF Stands, Leads, RowFits
  <2>9. aloneRun[i].pc \notin {"idle", "ended"} /\ r.pc \notin {"create", "ended", "idle", "resume", "advance"}
    BY <2>1, <2>4
  <2> QED BY <1>i, <1>f, <1>w, <2>4, <2>5, <2>7, <2>8, <2>9, AloneMoves
<1>6. CASE L!RunReturns(i)     BY <1>6, <1>e DEF L!RunReturns
<1>7. CASE L!RunLoads(i)
  <2> DEFINE r == [L!NoRun EXCEPT
               !.pc     = IF aloneExec.versioned THEN "begin" ELSE "fail",
               !.node   = IF aloneExec.node = NoNode THEN Entry ELSE aloneExec.node,
               !.tokens = aloneExec.tokens]
  <2>1. /\ r \in L!Run /\ r.pc \in {"begin", "fail"}
        /\ r.node = IF aloneExec.node = NoNode THEN Entry ELSE aloneExec.node
    BY <1>i, <1>a, AloneAssumption DEF L!Run, L!PC, L!Outcome, L!NoRun, L!Row
  <2>2. aloneRun[i].pc = "load" /\ aloneRun' = [aloneRun EXCEPT ![i] = r] /\ UNCHANGED <<aloneExec, aloneSteps, aloneEffects>>
    BY <1>7 DEF L!RunLoads
  <2> HIDE DEF r
  <2>3. aloneSteps = <<>> => Ahead(Entry, aloneSteps)
    BY AloneAssumption DEF Ahead
  <2>4. Stands(r, aloneExec) /\ Leads(r, aloneExec, aloneSteps)
    BY <1>l, <2>1, <2>2, <2>3 DEF Stands, Leads
  <2> QED BY <1>f, <2>1, <2>2, <2>4, AloneGoes
<1>8. CASE L!RunBegins(i)
  <2> DEFINE r == [aloneRun[i] EXCEPT !.pc = "count"]
  <2>1. r \in L!Run /\ r.pc = "count" /\ r.node = aloneRun[i].node
    BY <1>i DEF L!Run, L!PC
  <2>2. /\ aloneRun[i].pc = "begin" /\ aloneRun' = [aloneRun EXCEPT ![i] = r] /\ UNCHANGED <<aloneSteps, aloneEffects>>
        /\ aloneExec' = [aloneExec EXCEPT !.status = "running"]
    BY <1>8 DEF L!RunBegins, L!Goto
  <2> HIDE DEF r
  <2>3. aloneExec' \in L!Row /\ aloneExec'.status = "running" /\ aloneExec'.node = aloneExec.node /\ aloneExec'.timer = aloneExec.timer
    BY <1>i, <2>2 DEF L!Row, L!Status
  <2>4. aloneExec.status \in {"queued", "running"}
    BY <1>l, <2>2 DEF Stands
  <2>5. Stands(r, aloneExec') /\ Leads(r, aloneExec', aloneSteps') /\ RowFits(aloneExec', aloneSteps')
    BY <1>l, <1>f, <2>1, <2>2, <2>3, <2>4 DEF Stands, Leads, RowFits
  <2> QED BY <1>i, <1>f, <1>w, <2>1, <2>2, <2>3, <2>5, AloneMoves
<1>9. CASE L!RunCounts(i)
  <2> DEFINE r == [aloneRun[i] EXCEPT !.pc = "head", !.seq = Len(aloneSteps)]
  <2>1. Len(aloneSteps) \in Nat
    BY <1>i
  <2>2. r \in L!Run /\ r.pc = "head" /\ r.node = aloneRun[i].node
    BY <1>i, <2>1 DEF L!Run, L!PC
  <2>3. aloneRun[i].pc = "count" /\ aloneRun' = [aloneRun EXCEPT ![i] = r] /\ UNCHANGED <<aloneExec, aloneSteps, aloneEffects>>
    BY <1>9 DEF L!RunCounts
  <2> HIDE DEF r
  <2>4. Stands(r, aloneExec) /\ Leads(r, aloneExec, aloneSteps)
    BY <1>l, <2>2, <2>3 DEF Stands, Leads
  <2> QED BY <1>f, <2>2, <2>3, <2>4, AloneGoes
<1>10. CASE L!LoopHead(i)
  <2>1. CASE L!Verdict(i) = "cancelled"
    BY <1>10, <2>1, <1>e DEF L!LoopHead
  <2>2. CASE L!Verdict(i) # "cancelled"
    <3> DEFINE r == [aloneRun[i] EXCEPT !.pc = L!Verdict(i), !.usage = (L!Verdict(i) = "finish")]
    <3>1. L!Verdict(i) \in {"finish", "fail", "timeout", "open"}
      BY <2>2 DEF L!Verdict
    <3>2. L!Verdict(i) = "open" => aloneRun[i].node \in AloneNodes
      BY DEF L!Verdict
    <3>3. r \in L!Run /\ r.pc = L!Verdict(i) /\ r.node = aloneRun[i].node
      BY <1>i, <3>1 DEF L!Run, L!PC
    <3>4. aloneRun[i].pc = "head" /\ aloneRun' = [aloneRun EXCEPT ![i] = r] /\ UNCHANGED <<aloneExec, aloneSteps, aloneEffects>>
      BY <1>10, <2>2 DEF L!LoopHead
    <3> HIDE DEF r
    <3>5. Stands(r, aloneExec) /\ Leads(r, aloneExec, aloneSteps)
      BY <1>l, <3>1, <3>2, <3>3, <3>4 DEF Stands, Leads
    <3>6. r.pc \notin {"idle", "ended", "create", "resume", "advance"}
      BY <3>1, <3>3
    <3> QED BY <1>f, <3>3, <3>4, <3>5, <3>6, AloneGoes
  <2> QED BY <2>1, <2>2
<1>11. CASE L!StepOpens(i)
  <2> DEFINE s   == aloneSteps
             n   == aloneRun[i].node
             r   == [aloneRun[i] EXCEPT !.pc = "execute", !.seq = aloneRun[i].seq + 1]
             new == [node |-> n, status |-> "running"]
  <2>1. aloneRun[i].pc = "open" /\ aloneRun[i].seq = Len(s) /\ aloneRun[i].seq + 1 \in Nat
    BY <1>i, <1>11 DEF L!StepOpens
  <2>2. r \in L!Run /\ r.pc = "execute" /\ r.node = n /\ r.seq = Len(s) + 1
    BY <1>i, <2>1 DEF L!Run, L!PC
  <2>3. n \in AloneNodes /\ Ahead(n, s) /\ aloneExec.status = "running"
    BY <1>l, <2>1 DEF Leads, Stands
  <2>4. /\ aloneRun' = [aloneRun EXCEPT ![i] = r] /\ aloneSteps' = Append(s, new)
        /\ UNCHANGED <<aloneExec, aloneEffects>>
    BY <1>11 DEF L!StepOpens
  <2>5. new \in L!Step /\ new.node = n
    BY <2>3 DEF L!Step
  <2> HIDE DEF r, new
  <2>6. /\ aloneSteps' \in Seq(L!Step) /\ Len(aloneSteps') = Len(s) + 1 /\ Len(s) \in Nat
        /\ aloneSteps'[Len(s) + 1] = new /\ \A k \in 1 .. Len(s) : aloneSteps'[k] = s[k]
    BY <1>i, <2>4, <2>5, AppendProperties
  <2>7. /\ \A k \in 1 .. Len(s) : RankAt(aloneSteps', k) = RankAt(s, k) /\ RankAt(s, k) < AloneRank[n]
        /\ RankAt(aloneSteps', Len(s) + 1) = AloneRank[n] /\ AloneRank[n] \in Nat
    BY <2>3, <2>5, <2>6, <1>a, AloneAssumption DEF RankAt, Ahead
  <2>k. ASSUME NEW k \in 1 .. Len(s) PROVE RankAt(s, k) \in Nat
    <3>1. s[k] \in L!Step
      BY <1>i
    <3>2. s[k].node \in AloneNodes
      BY <3>1 DEF L!Step
    <3> QED BY <3>2, AloneAssumption DEF RankAt, AloneTargets
  <2>8. Rising(aloneSteps')
    <3> SUFFICES ASSUME NEW j \in 1 .. Len(s) + 1, NEW k \in 1 .. Len(s) + 1, j < k
                 PROVE  RankAt(aloneSteps', j) < RankAt(aloneSteps', k)
      BY <2>6 DEF Rising
    <3>1. j \in 1 .. Len(s)
      BY <2>6
    <3>2. CASE k \in 1 .. Len(s)
      BY <1>f, <2>7, <3>1, <3>2 DEF Rising
    <3>3. CASE k = Len(s) + 1
      BY <2>7, <3>1, <3>3
    <3> QED BY <2>6, <3>2, <3>3
  <2>9. Reached(n, aloneSteps')
    <3> SUFFICES ASSUME NEW k \in 1 .. Len(s) + 1 PROVE RankAt(aloneSteps', k) <= AloneRank[n]
      BY <2>3, <2>6 DEF Reached
    <3>1. CASE k \in 1 .. Len(s)
      BY <2>7, <2>k, <3>1
    <3>2. CASE k = Len(s) + 1
      BY <2>7, <3>2
    <3> QED BY <2>6, <3>1, <3>2
  <2>10. Stands(r, aloneExec') /\ Leads(r, aloneExec', aloneSteps')
    BY <2>2, <2>3, <2>4, <2>6, <2>9 DEF Stands, Leads
  <2>11. aloneExec'.timer = "none" /\ aloneExec'.status = "running"
    BY <1>f, <2>3, <2>4 DEF RowFits
  <2>12. RowFits(aloneExec', aloneSteps') /\ aloneEffects' \subseteq 1 .. Len(aloneSteps')
    BY <1>f, <2>4, <2>6, <2>11 DEF RowFits
  <2> QED BY <1>i, <1>w, <2>1, <2>2, <2>4, <2>6, <2>8, <2>10, <2>12, AloneMoves
<1>12. CASE L!StepRefused(i)   BY <1>12, <1>e DEF L!StepRefused
<1>13. CASE L!NodeRuns(i)
  <2>1. PICK o \in AloneOutcomes[aloneRun[i].node], t \in 0 .. AloneMaxTokens :
          aloneRun' = [aloneRun EXCEPT ![i] = [aloneRun[i] EXCEPT
               !.pc = "cap", !.outcome = o, !.tokens = aloneRun[i].tokens + t, !.usage = TRUE]]
    BY <1>13 DEF L!NodeRuns
  <2> DEFINE r == [aloneRun[i] EXCEPT
               !.pc = "cap", !.outcome = o, !.tokens = aloneRun[i].tokens + t, !.usage = TRUE]
  <2>2. /\ aloneRun[i].pc = "execute" /\ aloneEffects' = aloneEffects \cup {aloneRun[i].seq}
        /\ UNCHANGED <<aloneExec, aloneSteps>>
    BY <1>13 DEF L!NodeRuns
  <2>3. Reached(aloneRun[i].node, aloneSteps) /\ aloneRun[i].seq \in 1 .. Len(aloneSteps)
    BY <1>l, <2>2 DEF Leads
  <2>4. o \in L!Outcome
    BY <2>3, AloneAssumption DEF L!Outcome, Reached
  <2>5. aloneRun[i].tokens + t \in Nat
    BY <1>i, AloneAssumption
  <2>6. r \in L!Run /\ r.pc = "cap" /\ r.node = aloneRun[i].node /\ r.seq = aloneRun[i].seq
    BY <1>i, <2>4, <2>5 DEF L!Run, L!PC
  <2>7. aloneRun' = [aloneRun EXCEPT ![i] = r]
    BY <2>1
  <2> HIDE DEF r
  <2>8. Stands(r, aloneExec) /\ Leads(r, aloneExec, aloneSteps)
    BY <1>l, <2>2, <2>3, <2>6 DEF Stands, Leads
  <2> QED BY <1>f, <2>2, <2>3, <2>6, <2>7, <2>8, AloneGoes
<1>14. CASE L!CapChecks(i)
  <2> DEFINE to == IF aloneRun[i].tokens > AloneTokenCap THEN "fail" ELSE "close"
             r  == [aloneRun[i] EXCEPT !.pc = to]
  <2>1. r \in L!Run /\ r.pc \in {"fail", "close"} /\ r.node = aloneRun[i].node /\ r.seq = aloneRun[i].seq
    BY <1>i DEF L!Run, L!PC
  <2>2. aloneRun[i].pc = "cap" /\ aloneRun' = [aloneRun EXCEPT ![i] = r] /\ UNCHANGED <<aloneExec, aloneSteps, aloneEffects>>
    BY <1>14 DEF L!CapChecks, L!Goto
  <2> HIDE DEF r, to
  <2>3. Stands(r, aloneExec) /\ Leads(r, aloneExec, aloneSteps)
    BY <1>l, <2>1, <2>2 DEF Stands, Leads
  <2> QED BY <1>f, <2>1, <2>2, <2>3, AloneGoes
<1>15. CASE L!StepCloses(i)
  <2> DEFINE k    == aloneRun[i].seq
             done == [aloneSteps[k] EXCEPT
                       !.status = IF aloneRun[i].outcome = "error" THEN "failed" ELSE "succeeded"]
             r    == [aloneRun[i] EXCEPT !.pc = "route"]
  <2>1. /\ aloneRun[i].pc = "close" /\ aloneSteps' = [aloneSteps EXCEPT ![k] = done]
        /\ aloneRun' = [aloneRun EXCEPT ![i] = r] /\ UNCHANGED <<aloneExec, aloneEffects>>
    BY <1>15 DEF L!StepCloses, L!Goto
  <2>2. k \in 1 .. Len(aloneSteps) /\ Reached(aloneRun[i].node, aloneSteps) /\ aloneExec.status = "running"
    BY <1>l, <2>1 DEF Leads, Stands
  <2>3. done \in L!Step /\ done.node = aloneSteps[k].node
    <3>1. aloneSteps[k] \in L!Step
      BY <1>i, <2>2
    <3> QED BY <3>1 DEF L!Step
  <2>4. r \in L!Run /\ r.pc = "route" /\ r.node = aloneRun[i].node
    BY <1>i DEF L!Run, L!PC
  <2> HIDE DEF done, r
  <2>5. /\ aloneSteps' \in Seq(L!Step) /\ Len(aloneSteps') = Len(aloneSteps)
        /\ \A n \in 1 .. Len(aloneSteps) : RankAt(aloneSteps', n) = RankAt(aloneSteps, n)
    <3>1. /\ aloneSteps' \in Seq(L!Step) /\ Len(aloneSteps') = Len(aloneSteps)
          /\ \A n \in 1 .. Len(aloneSteps) : aloneSteps'[n] = IF n = k THEN done ELSE aloneSteps[n]
      BY <1>i, <2>1, <2>2, <2>3, ExceptSeq
    <3> QED BY <2>3, <3>1 DEF RankAt
  <2>6. Rising(aloneSteps') /\ Reached(aloneRun[i].node, aloneSteps')
    BY <1>f, <2>2, <2>5 DEF Rising, Reached
  <2>7. Stands(r, aloneExec') /\ Leads(r, aloneExec', aloneSteps')
    BY <1>l, <2>1, <2>4, <2>6, <2>2 DEF Stands, Leads
  <2>8. RowFits(aloneExec', aloneSteps') /\ aloneEffects' \subseteq 1 .. Len(aloneSteps')
    BY <1>f, <2>1, <2>2, <2>5 DEF RowFits
  <2> QED BY <1>i, <1>w, <2>1, <2>4, <2>5, <2>6, <2>7, <2>8, AloneMoves
<1>r. aloneRun[i].pc = "route" => Reached(aloneRun[i].node, aloneSteps) /\ aloneExec.status = "running"
  BY <1>l DEF Leads, Stands
<1>n. aloneExec.status = "running" => aloneExec.timer = "none"
  BY <1>f DEF RowFits
\* persistProgress, wherever the error edge or nextNode leads.
<1>16. ASSUME NEW n, n \in (AloneOut[aloneRun[i].node] \cup {AloneOnError[aloneRun[i].node]}) \ {NoNode},
              aloneRun[i].pc = "route", L!Persists(i, n), UNCHANGED <<aloneSteps, aloneEffects>>
       PROVE  AloneInv'
  <2>1. n \in AloneTargets /\ Ahead(n, aloneSteps)
    BY <1>16, <1>r, <1>i, EdgesAhead
  <2> DEFINE r == [aloneRun[i] EXCEPT !.pc = "head", !.node = n]
  <2>2. r \in L!Run /\ r.pc = "head" /\ r.node = n
    BY <1>i, <1>a, <2>1 DEF L!Run, L!PC
  <2>3. /\ aloneRun' = [aloneRun EXCEPT ![i] = r]
        /\ aloneExec' = [aloneExec EXCEPT !.node = n, !.tokens = aloneRun[i].tokens]
    BY <1>16 DEF L!Persists
  <2> HIDE DEF r
  <2>4. aloneExec' \in L!Row /\ aloneExec'.status = "running" /\ aloneExec'.timer = "none"
    BY <1>16, <1>r, <1>n, <1>i, <1>a, <2>1, <2>3 DEF L!Row
  <2>5. Stands(r, aloneExec') /\ Leads(r, aloneExec', aloneSteps') /\ RowFits(aloneExec', aloneSteps')
    BY <1>16, <2>1, <2>2, <2>4 DEF Stands, Leads, RowFits
  <2> QED BY <1>16, <1>i, <1>f, <1>w, <2>2, <2>3, <2>4, <2>5, AloneMoves
<1>17. CASE L!RouteError(i)
  <2>1. CASE AloneOnError[aloneRun[i].node] = NoNode
    <3> DEFINE r == [aloneRun[i] EXCEPT !.pc = "fail"]
    <3>1. r \in L!Run /\ r.pc = "fail"
      BY <1>i DEF L!Run, L!PC
    <3>2. aloneRun[i].pc = "route" /\ aloneRun' = [aloneRun EXCEPT ![i] = r] /\ UNCHANGED <<aloneExec, aloneSteps, aloneEffects>>
      BY <1>17, <2>1 DEF L!RouteError, L!Goto
    <3> HIDE DEF r
    <3>3. Stands(r, aloneExec) /\ Leads(r, aloneExec, aloneSteps)
      BY <1>r, <3>1, <3>2 DEF Stands, Leads
    <3> QED BY <1>f, <3>1, <3>2, <3>3, AloneGoes
  <2>2. CASE AloneOnError[aloneRun[i].node] # NoNode
    BY <1>17, <1>16, <2>2 DEF L!RouteError
  <2> QED BY <2>1, <2>2
<1>18. CASE L!RouteSuspend(i)
  <2>1. /\ aloneRun[i].pc = "route" /\ L!End(i) /\ UNCHANGED <<aloneSteps, aloneEffects>>
        /\ aloneExec' = [aloneExec EXCEPT !.status = "suspended", !.node = aloneRun[i].node,
             !.timer = IF aloneRun[i].outcome = "delay" THEN "pending" ELSE "none", !.tokens = aloneRun[i].tokens]
    BY <1>18 DEF L!RouteSuspend
  <2>2. aloneExec' \in L!Row /\ aloneExec'.status = "suspended" /\ aloneExec'.node = aloneRun[i].node
    BY <1>i, <1>a, <2>1 DEF L!Row, L!Status
  <2>3. RowFits(aloneExec', aloneSteps)
    BY <1>r, <2>1, <2>2 DEF RowFits
  <2> QED BY <2>1, <2>2, <2>3, AloneEnds
<1>19. CASE L!RouteFinish(i)
  <2> DEFINE r == [aloneRun[i] EXCEPT !.pc = "finish"]
  <2>1. r \in L!Run /\ r.pc = "finish"
    BY <1>i DEF L!Run, L!PC
  <2>2. aloneRun[i].pc = "route" /\ aloneRun' = [aloneRun EXCEPT ![i] = r] /\ UNCHANGED <<aloneExec, aloneSteps, aloneEffects>>
    BY <1>19 DEF L!RouteFinish, L!Goto
  <2> HIDE DEF r
  <2>3. Stands(r, aloneExec) /\ Leads(r, aloneExec, aloneSteps)
    BY <1>r, <2>1, <2>2 DEF Stands, Leads
  <2> QED BY <1>f, <2>1, <2>2, <2>3, AloneGoes
<1>20. CASE L!RouteNext(i)
  <2>1. PICK n \in AloneOut[aloneRun[i].node] : L!Persists(i, n)
    BY <1>20 DEF L!RouteNext
  <2>2. aloneRun[i].pc = "route" /\ UNCHANGED <<aloneSteps, aloneEffects>>
    BY <1>20 DEF L!RouteNext
  <2>3. n # NoNode
    BY <1>r, <2>1, <2>2, AloneAssumption DEF Reached
  <2> QED BY <1>16, <2>1, <2>2, <2>3
\* finish and fail, with or without a usage to report.
<1>21. ASSUME NEW at \in {"finish", "fail", "timeout"}, NEW s \in {"succeeded", "failed", "timed_out"}, L!Closes(i, at, s)
       PROVE  AloneInv'
  <2> DEFINE t == IF aloneRun[i].usage THEN aloneRun[i].tokens ELSE aloneExec.tokens
  <2>1. t \in Nat
    BY <1>i
  <2>2. /\ aloneRun[i].pc = at /\ aloneExec' = [aloneExec EXCEPT !.status = s, !.tokens = t]
        /\ L!End(i) /\ UNCHANGED <<aloneSteps, aloneEffects>>
    BY <1>21 DEF L!Closes
  <2> HIDE DEF t
  <2>3. aloneExec' \in L!Row /\ aloneExec'.status = s /\ aloneExec'.timer = aloneExec.timer
    BY <1>i, <2>1, <2>2 DEF L!Row, L!Status, L!Terminal
  <2>4. aloneExec.timer = "none"
    BY <1>l, <1>f, <2>2 DEF Stands, RowFits
  <2>5. RowFits(aloneExec', aloneSteps)
    BY <2>3, <2>4 DEF RowFits
  <2> QED BY <2>2, <2>3, <2>5, AloneEnds
<1>22. CASE L!RunFinishes(i) \/ L!RunFails(i) \/ L!RunTimesOut(i)
  BY <1>22, <1>21 DEF L!RunFinishes, L!RunFails, L!RunTimesOut
<1> QED
  BY <1>1, <1>2, <1>3, <1>4, <1>5, <1>6, <1>7, <1>8, <1>9, <1>10, <1>11, <1>12, <1>13,
     <1>14, <1>15, <1>17, <1>18, <1>19, <1>20, <1>22 DEF L!Advances

LEMMA AloneStarts == L!Init => AloneInv
<1> SUFFICES ASSUME L!Init PROVE AloneInv
  OBVIOUS
<1>1. /\ aloneExec = [status |-> "absent", node |-> NoNode, versioned |-> TRUE, timer |-> "none", tokens |-> 0]
      /\ aloneSteps = <<>> /\ aloneEffects = {} /\ aloneRun = [i \in L!Callers |-> L!NoRun]
  BY DEF L!Init
<1>2. L!NoRun \in L!Run /\ L!NoRun.pc = "idle"
  BY DEF L!NoRun, L!Run, L!PC, L!Outcome
<1>3. aloneExec \in L!Row /\ aloneSteps \in Seq(L!Step)
  BY <1>1, EmptySeq DEF L!Row, L!Status, L!Terminal
<1>4. Rising(aloneSteps) /\ aloneEffects \subseteq 1 .. Len(aloneSteps) /\ RowFits(aloneExec, aloneSteps)
  BY <1>1 DEF Rising, RowFits
<1>5. \A i \in L!Callers : aloneRun[i] \in L!Run /\ aloneRun[i].pc = "idle"
  BY <1>1, <1>2
<1>6. \A i \in L!Callers : Stands(aloneRun[i], aloneExec) /\ Leads(aloneRun[i], aloneExec, aloneSteps)
  BY <1>5 DEF Stands, Leads
<1>7. OneDrives(aloneRun[AloneTrigger], aloneRun[AloneSweep], aloneExec)
  BY <1>1, <1>5, AloneCallers DEF OneDrives
<1>8. aloneRun \in [L!Callers -> L!Run]
  BY <1>1, <1>2
<1> QED BY <1>3, <1>4, <1>6, <1>7, <1>8 DEF AloneInv, AloneTyped

\* An invocation begins: the trigger once, the cron only once the trigger has gone.
LEMMA AloneBegins ==
  ASSUME AloneInv, NEW i \in L!Callers, L!StartFinds(i) \/ L!SweepLists(i) PROVE AloneInv'
<1> DEFINE to == IF i = AloneSweep THEN "resume" ELSE "create"
           r  == [aloneRun[i] EXCEPT !.pc = to]
<1>i. /\ aloneExec \in L!Row /\ aloneSteps \in Seq(L!Step) /\ aloneRun[i] \in L!Run
      /\ RowFits(aloneExec, aloneSteps) /\ Rising(aloneSteps) /\ aloneEffects \subseteq 1 .. Len(aloneSteps)
  BY DEF AloneInv, AloneTyped
<1>1. aloneRun[i].pc = "idle" /\ UNCHANGED <<aloneExec, aloneSteps, aloneEffects>>
  BY DEF L!StartFinds, L!SweepLists, L!At, L!KeepsDurable
<1>2. i = AloneTrigger => aloneExec.status = "absent" /\ L!StartFinds(i)
  BY <1>1, AloneCallers DEF AloneInv, OneDrives, L!SweepLists
<1>3. i = AloneSweep => aloneExec.status = "suspended" /\ aloneExec.timer = "due" /\ L!SweepLists(i)
  BY <1>1, AloneCallers DEF L!StartFinds, L!SweepLists
<1>4. aloneRun' = [aloneRun EXCEPT ![i] = r]
  BY <1>2, <1>3, AloneCallers DEF L!StartFinds, L!SweepLists, L!Goto
<1>5. r \in L!Run /\ r.pc = to
  BY <1>i DEF L!Run, L!PC
<1>6. i = AloneSweep => aloneRun[AloneTrigger].pc = "ended"
  <2> SUFFICES ASSUME i = AloneSweep PROVE aloneRun[AloneTrigger].pc = "ended"
    OBVIOUS
  <2>1. aloneRun[AloneTrigger] \in L!Run /\ Stands(aloneRun[AloneTrigger], aloneExec)
    BY AloneCallers DEF AloneInv, AloneTyped
  <2>2. aloneRun[AloneTrigger].pc \notin {"idle", "resume", "advance"}
    BY <1>3 DEF AloneInv, OneDrives
  <2> QED BY <1>3, <2>1, <2>2 DEF Stands, L!Run, L!PC
<1> HIDE DEF r
<1>7. Stands(r, aloneExec) /\ Leads(r, aloneExec, aloneSteps)
  BY <1>2, <1>3, <1>5, AloneCallers DEF Stands, Leads
<1> HIDE DEF to
<1>8. to \in {"resume", "create"} /\ (to = "create" <=> i # AloneSweep)
  BY DEF to
<1>9. /\ aloneExec' \in L!Row /\ aloneSteps' \in Seq(L!Step) /\ Rising(aloneSteps') /\ RowFits(aloneExec', aloneSteps')
      /\ aloneEffects' \subseteq 1 .. Len(aloneSteps') /\ Stands(r, aloneExec') /\ Leads(r, aloneExec', aloneSteps')
  BY <1>i, <1>1, <1>7
<1> QED BY <1>1, <1>4, <1>5, <1>6, <1>8, <1>9, AloneCallers, AloneMoves

LEMMA AloneRemains ==
  ASSUME AloneInv, UNCHANGED <<aloneRun, aloneSteps, aloneEffects>>, aloneExec' \in L!Row,
         aloneExec'.status = aloneExec.status, aloneExec'.node = aloneExec.node,
         aloneExec'.timer = aloneExec.timer \/ (aloneExec.timer = "pending" /\ aloneExec'.timer = "due")
  PROVE  AloneInv'
<1>1. RowFits(aloneExec', aloneSteps) /\ OneDrives(aloneRun[AloneTrigger], aloneRun[AloneSweep], aloneExec')
  BY DEF AloneInv, RowFits, OneDrives
<1>2. ASSUME NEW i \in L!Callers PROVE Stands(aloneRun[i], aloneExec') /\ Leads(aloneRun[i], aloneExec', aloneSteps)
  <2>1. Stands(aloneRun[i], aloneExec) /\ Leads(aloneRun[i], aloneExec, aloneSteps)
    BY DEF AloneInv
  <2> DEFINE r == aloneRun[i]
  <2> HIDE DEF r
  <2>2. Stands(r, aloneExec) /\ Leads(r, aloneExec, aloneSteps)
    BY <2>1 DEF r
  <2>3. Stands(r, aloneExec') /\ Leads(r, aloneExec', aloneSteps)
    BY <2>2 DEF Stands, Leads
  <2> QED BY <2>3 DEF r
<1>3. AloneTyped /\ Rising(aloneSteps) /\ aloneEffects \subseteq 1 .. Len(aloneSteps)
  BY DEF AloneInv
<1> DEFINE Fits(e, s, rn, f) ==
     /\ e \in L!Row /\ s \in Seq(L!Step) /\ rn \in [L!Callers -> L!Run]
     /\ Rising(s) /\ f \subseteq 1 .. Len(s) /\ RowFits(e, s)
     /\ OneDrives(rn[AloneTrigger], rn[AloneSweep], e)
     /\ \A i \in L!Callers : Stands(rn[i], e) /\ Leads(rn[i], e, s)
<1>4. Fits(aloneExec', aloneSteps, aloneRun, aloneEffects)
  BY <1>1, <1>2, <1>3 DEF AloneTyped
<1>5. Fits(aloneExec', aloneSteps', aloneRun', aloneEffects')
  BY <1>4
<1> QED BY <1>5, Zenon DEF AloneInv, AloneTyped, L!Callers, L!Row, L!Step, L!Run, L!Targets, L!PC, L!Outcome, L!Status, L!Terminal

LEMMA AloneNext == AloneInv /\ [L!Next]_aloneVars => AloneInv'
<1> SUFFICES ASSUME AloneInv, [L!Next]_aloneVars PROVE AloneInv'
  OBVIOUS
<1>i. aloneExec \in L!Row /\ RowFits(aloneExec, aloneSteps)
  BY DEF AloneInv, AloneTyped
<1>1. ASSUME NEW i \in L!Callers, L!Advances(i) PROVE AloneInv'
  BY <1>1, AloneAdvances
<1>2. ASSUME NEW i \in L!Callers, L!Crash(i) PROVE AloneInv'
  BY <1>2, <1>i, AloneEnds DEF L!Crash
<1>3. ASSUME NEW i \in L!Callers, L!StartFinds(i) \/ L!SweepLists(i) PROVE AloneInv'
  BY <1>3, AloneBegins
<1>4. CASE L!TimerElapses
  <2>1. aloneExec' \in L!Row /\ aloneExec'.status = aloneExec.status /\ aloneExec'.node = aloneExec.node /\ aloneExec'.timer = "due"
    BY <1>4, <1>i DEF L!TimerElapses, L!Row
  <2> QED BY <1>4, <2>1, AloneRemains DEF L!TimerElapses, L!KeepsHistory
<1>5. CASE L!DeadlinePasses
  BY <1>5, <1>i, AloneRemains DEF L!DeadlinePasses
<1>6. CASE UNCHANGED aloneVars
  BY <1>6, <1>i, AloneRemains DEF aloneVars
<1> QED
  BY <1>1, <1>2, <1>3, <1>4, <1>5, <1>6 DEF L!Next, L!Cancel, L!ApiResumes

LEMMA AllRemainsAlone == AllSpec => L!Init /\ [][L!Next]_aloneVars
<1>1. AllInit => L!Init
  BY DEF AllInit
<1>2. [AllNext]_AllVars => [L!Next]_aloneVars
  BY DEF AllNext, AllVars
<1> QED BY <1>1, <1>2, PTL DEF AllSpec

-----------------------------------------------------------------------------
(***************************************************************************)
(* What was used.  The row tells it while nobody drives, the driver while  *)
(* it does; between a node and the statement that saves the usage only the *)
(* driver knows, and if it dies there the execution is never run again.    *)
(***************************************************************************)
InLoop == {"begin", "count", "head", "open", "execute"}
Tally(r, e, sp) ==
  /\ r.pc \in {"idle", "create", "resume", "advance"} => ~r.usage
  /\ r.pc \in InLoop \cup {"load"} => e.tokens = sp
  /\ r.pc \in InLoop \cup {"cap", "close", "route"} => r.tokens = sp
  /\ r.pc \in {"cap", "close", "route"} => r.usage
  /\ r.pc \in {"finish", "fail", "timeout"} => sp = IF r.usage THEN r.tokens ELSE e.tokens
  /\ r.pc \in InLoop \cup {"load", "close", "route"} => sp <= AloneTokenCap
RowTally(e, sp) ==
  /\ sp \in Nat /\ sp <= AloneTokenCap + AloneMaxTokens
  /\ e.status # "running" => e.tokens = sp
  /\ e.status \in {"absent", "queued", "suspended"} => sp <= AloneTokenCap
TallyInv ==
  /\ RowTally(aloneExec, aloneSpent)
  /\ \A i \in L!Callers : Tally(aloneRun[i], aloneExec, aloneSpent)

LEMMA TallyMoves ==
  ASSUME AloneInv, TallyInv, NEW i \in L!Callers, NEW r \in L!Run, aloneRun' = [aloneRun EXCEPT ![i] = r],
         aloneRun[i].pc \notin {"idle", "ended"} \/ UNCHANGED <<aloneExec, aloneSpent>>,
         RowTally(aloneExec', aloneSpent'), Tally(r, aloneExec', aloneSpent')
  PROVE  TallyInv'
<1>1. \A j \in L!Callers : aloneRun'[j] = IF j = i THEN r ELSE aloneRun[j]
  BY DEF AloneInv, AloneTyped
<1>2. ASSUME NEW j \in L!Callers, j # i PROVE Tally(aloneRun'[j], aloneExec', aloneSpent')
  <2> DEFINE q == aloneRun[j]
  <2>1. Tally(q, aloneExec, aloneSpent) /\ aloneRun'[j] = q
    BY <1>1, <1>2 DEF TallyInv
  <2>2. aloneRun[i].pc \notin {"idle", "ended"} => q.pc \in {"idle", "ended"}
    BY <1>2, AloneCallers DEF AloneInv, OneDrives
  <2> HIDE DEF q
  <2>3. Tally(q, aloneExec', aloneSpent')
    BY <2>1, <2>2 DEF Tally, InLoop
  <2> QED BY <2>1, <2>3
<1>3. \A j \in L!Callers : Tally(aloneRun'[j], aloneExec', aloneSpent')
  BY <1>1, <1>2
<1> QED BY <1>3, Zenon DEF TallyInv, L!Callers

LEMMA TallyEnds ==
  ASSUME AloneInv, TallyInv, NEW i \in L!Callers, L!End(i), aloneRun[i].pc \notin {"idle", "ended"},
         RowTally(aloneExec', aloneSpent')
  PROVE  TallyInv'
<1> DEFINE r == [L!NoRun EXCEPT !.pc = IF i \in {AloneSweep} THEN "idle" ELSE "ended"]
<1>1. r \in L!Run /\ r.pc \in {"idle", "ended"} /\ r.usage = FALSE
  BY DEF L!NoRun, L!Run, L!PC, L!Outcome
<1>2. aloneRun' = [aloneRun EXCEPT ![i] = r]
  BY DEF L!End
<1> HIDE DEF r
<1>3. Tally(r, aloneExec', aloneSpent')
  BY <1>1 DEF Tally, InLoop
<1> QED BY <1>1, <1>2, <1>3, TallyMoves

\* The driver goes on, and neither the row's usage nor what was used changes.
LEMMA TallyGoes ==
  ASSUME AloneInv, TallyInv, NEW i \in L!Callers, NEW q \in L!PC, L!Goto(i, q),
         aloneRun[i].pc \notin {"idle", "ended"} \/ UNCHANGED <<aloneExec, aloneSpent>>,
         UNCHANGED aloneSpent, RowTally(aloneExec', aloneSpent),
         \A r \in L!Run : r.pc = q /\ r.tokens = aloneRun[i].tokens /\ r.usage = aloneRun[i].usage
                            => Tally(r, aloneExec', aloneSpent)
  PROVE  TallyInv'
<1> DEFINE r == [aloneRun[i] EXCEPT !.pc = q]
<1>1. aloneRun[i] \in L!Run
  BY DEF AloneInv, AloneTyped
<1>2. r \in L!Run /\ r.pc = q /\ r.tokens = aloneRun[i].tokens /\ r.usage = aloneRun[i].usage
  BY <1>1 DEF L!Run
<1>3. aloneRun' = [aloneRun EXCEPT ![i] = r]
  BY DEF L!Goto
<1> HIDE DEF r
<1>4. Tally(r, aloneExec', aloneSpent') /\ RowTally(aloneExec', aloneSpent')
  BY <1>2
<1> QED BY <1>2, <1>3, <1>4, TallyMoves

LEMMA TallyAdvances == ASSUME AloneInv, TallyInv, NEW i \in L!Callers, L!Advances(i) PROVE TallyInv'
<1> USE DEF L!At
<1>i. /\ aloneExec \in L!Row /\ aloneRun[i] \in L!Run /\ aloneRun[i].tokens \in Nat /\ aloneExec.tokens \in Nat
      /\ aloneRun[i].usage \in BOOLEAN /\ aloneSpent \in Nat
  BY DEF AloneInv, AloneTyped, TallyInv, RowTally, L!Row, L!Run
<1>l. Stands(aloneRun[i], aloneExec) /\ Tally(aloneRun[i], aloneExec, aloneSpent) /\ RowTally(aloneExec, aloneSpent)
  BY DEF AloneInv, TallyInv
<1>p. {"load", "finish", "begin", "fail", "count", "head", "cap", "close", "route", "execute", "advance"} \subseteq L!PC
  BY DEF L!PC
<1>e. ASSUME aloneRun[i].pc \notin {"idle", "ended"}, L!End(i), UNCHANGED <<aloneExec, aloneSpent>> PROVE TallyInv'
  BY <1>e, <1>l, TallyEnds
\* A step that writes neither the row nor what was used.
<1>g. ASSUME NEW r \in L!Run, aloneRun' = [aloneRun EXCEPT ![i] = r], UNCHANGED <<aloneExec, aloneSpent>>,
             Tally(r, aloneExec, aloneSpent)
      PROVE  TallyInv'
  <2>1. Tally(r, aloneExec', aloneSpent') /\ RowTally(aloneExec', aloneSpent')
    BY <1>g, <1>l
  <2> QED BY <1>g, <2>1, TallyMoves
<1> USE DEF L!KeepsDurable, L!KeepsHistory
<1>1. CASE L!StartCreates(i)
  <2>1. PICK v \in BOOLEAN : aloneExec' = [aloneExec EXCEPT !.status = "queued", !.versioned = v]
    BY <1>1 DEF L!StartCreates
  <2>2. /\ aloneRun[i].pc = "create" /\ aloneExec.status = "absent" /\ L!Goto(i, "load") /\ UNCHANGED aloneSpent
        /\ aloneExec'.status = "queued" /\ aloneExec'.tokens = aloneExec.tokens
    BY <1>1, <1>i, <2>1 DEF L!StartCreates, L!Row
  <2>3. RowTally(aloneExec', aloneSpent)
    BY <1>l, <2>2 DEF RowTally
  <2>4. \A r \in L!Run : r.pc = "load" => Tally(r, aloneExec', aloneSpent)
    BY <1>l, <2>2 DEF Tally, RowTally, InLoop
  <2> QED BY <1>p, <2>2, <2>3, <2>4, TallyGoes
<1>2. CASE L!StartRefused(i)   BY <1>2, <1>e DEF L!StartRefused
<1>3. CASE L!ResumeReads(i)
  <2> DEFINE r == [aloneRun[i] EXCEPT !.pc = "advance", !.node = aloneExec.node]
  <2>1. r \in L!Run /\ r.pc = "advance" /\ r.usage = aloneRun[i].usage
    BY <1>i DEF L!Run, L!PC, L!Row
  <2>2. aloneRun[i].pc = "resume" /\ aloneRun' = [aloneRun EXCEPT ![i] = r] /\ UNCHANGED <<aloneExec, aloneSpent>>
    BY <1>3 DEF L!ResumeReads
  <2> HIDE DEF r
  <2>3. Tally(r, aloneExec, aloneSpent)
    BY <1>l, <2>1, <2>2 DEF Tally, InLoop
  <2> QED BY <1>g, <2>1, <2>2, <2>3
<1>4. CASE L!ResumeConflict(i) BY <1>4, <1>e DEF L!ResumeConflict
<1>5. CASE L!ResumeAdvances(i)
  <2> DEFINE next == IF aloneRun[i].node \in AloneNodes THEN AloneFirst[aloneRun[i].node] ELSE NoNode
             to   == IF next = NoNode THEN "finish" ELSE "load"
             r    == [aloneRun[i] EXCEPT !.pc = to, !.outcome = "terminal"]
  <2>1. r \in L!Run /\ r.pc \in {"finish", "load"} /\ r.usage = aloneRun[i].usage
    BY <1>i DEF L!Run, L!PC, L!Outcome
  <2>2. /\ aloneRun[i].pc = "advance" /\ aloneRun' = [aloneRun EXCEPT ![i] = r] /\ UNCHANGED aloneSpent
        /\ aloneExec' = [aloneExec EXCEPT !.status = "running", !.node = next, !.timer = "none"]
    BY <1>5 DEF L!ResumeAdvances
  <2> HIDE DEF r, next
  <2>3. aloneExec'.status = "running" /\ aloneExec'.tokens = aloneExec.tokens
    BY <1>i, <2>2 DEF L!Row
  <2>4. aloneExec.status = "suspended" /\ aloneRun[i].usage = FALSE
    BY <1>i, <1>l, <2>2 DEF Stands, Tally
  <2>5. Tally(r, aloneExec', aloneSpent') /\ RowTally(aloneExec', aloneSpent')
    BY <1>l, <2>1, <2>2, <2>3, <2>4 DEF Tally, RowTally, InLoop
  <2> QED BY <2>1, <2>2, <2>5, TallyMoves
<1>6. CASE L!RunReturns(i)     BY <1>6, <1>e DEF L!RunReturns
<1>7. CASE L!RunLoads(i)
  <2> DEFINE r == [L!NoRun EXCEPT
               !.pc     = IF aloneExec.versioned THEN "begin" ELSE "fail",
               !.node   = IF aloneExec.node = NoNode THEN Entry ELSE aloneExec.node,
               !.tokens = aloneExec.tokens]
  <2>1. r \in L!Run /\ r.pc \in {"begin", "fail"} /\ r.tokens = aloneExec.tokens /\ r.usage = FALSE
    BY <1>i, AloneAssumption DEF L!Run, L!PC, L!Outcome, L!NoRun, L!Row, L!Targets, AloneTargets
  <2>2. aloneRun[i].pc = "load" /\ aloneRun' = [aloneRun EXCEPT ![i] = r] /\ UNCHANGED <<aloneExec, aloneSpent>>
    BY <1>7 DEF L!RunLoads
  <2> HIDE DEF r
  <2>3. Tally(r, aloneExec, aloneSpent)
    BY <1>l, <2>1, <2>2 DEF Tally, InLoop
  <2> QED BY <1>g, <2>1, <2>2, <2>3
<1>8. CASE L!RunBegins(i)
  <2>1. /\ aloneRun[i].pc = "begin" /\ L!Goto(i, "count") /\ UNCHANGED aloneSpent
        /\ aloneExec'.status = "running" /\ aloneExec'.tokens = aloneExec.tokens
    BY <1>8, <1>i DEF L!RunBegins, L!Row
  <2>2. RowTally(aloneExec', aloneSpent)
    BY <1>l, <2>1 DEF RowTally
  <2>3. \A r \in L!Run : r.pc = "count" /\ r.tokens = aloneRun[i].tokens => Tally(r, aloneExec', aloneSpent)
    BY <1>l, <2>1 DEF Tally, InLoop
  <2> QED BY <1>p, <2>1, <2>2, <2>3, TallyGoes
<1>9. CASE L!RunCounts(i)
  <2> DEFINE r == [aloneRun[i] EXCEPT !.pc = "head", !.seq = Len(aloneSteps)]
  <2>1. Len(aloneSteps) \in Nat
    BY DEF AloneInv, AloneTyped
  <2>2. r \in L!Run /\ r.pc = "head" /\ r.tokens = aloneRun[i].tokens
    BY <1>i, <2>1 DEF L!Run, L!PC
  <2>3. aloneRun[i].pc = "count" /\ aloneRun' = [aloneRun EXCEPT ![i] = r] /\ UNCHANGED <<aloneExec, aloneSpent>>
    BY <1>9 DEF L!RunCounts
  <2> HIDE DEF r
  <2>4. Tally(r, aloneExec, aloneSpent)
    BY <1>l, <2>2, <2>3 DEF Tally, InLoop
  <2> QED BY <1>g, <2>2, <2>3, <2>4
<1>10. CASE L!LoopHead(i)
  <2>1. CASE L!Verdict(i) = "cancelled"
    BY <1>10, <2>1, <1>e DEF L!LoopHead
  <2>2. CASE L!Verdict(i) # "cancelled"
    <3> DEFINE r == [aloneRun[i] EXCEPT !.pc = L!Verdict(i), !.usage = (L!Verdict(i) = "finish")]
    <3>1. L!Verdict(i) \in {"finish", "fail", "timeout", "open"}
      BY <2>2 DEF L!Verdict
    <3>2. r \in L!Run /\ r.pc = L!Verdict(i) /\ r.tokens = aloneRun[i].tokens
      BY <1>i, <3>1 DEF L!Run, L!PC
    <3>3. aloneRun[i].pc = "head" /\ aloneRun' = [aloneRun EXCEPT ![i] = r] /\ UNCHANGED <<aloneExec, aloneSpent>>
      BY <1>10, <2>2 DEF L!LoopHead
    <3> HIDE DEF r
    <3>4. Tally(r, aloneExec, aloneSpent)
      BY <1>l, <3>1, <3>2, <3>3 DEF Tally, InLoop
    <3> QED BY <1>g, <3>2, <3>3, <3>4
  <2> QED BY <2>1, <2>2
<1>11. CASE L!StepOpens(i)
  <2> DEFINE r == [aloneRun[i] EXCEPT !.pc = "execute", !.seq = aloneRun[i].seq + 1]
  <2>1. aloneRun[i].seq + 1 \in Nat
    BY <1>i DEF L!Run
  <2>2. r \in L!Run /\ r.pc = "execute" /\ r.tokens = aloneRun[i].tokens
    BY <1>i, <2>1 DEF L!Run, L!PC
  <2>3. aloneRun[i].pc = "open" /\ aloneRun' = [aloneRun EXCEPT ![i] = r] /\ UNCHANGED <<aloneExec, aloneSpent>>
    BY <1>11 DEF L!StepOpens
  <2> HIDE DEF r
  <2>4. Tally(r, aloneExec, aloneSpent)
    BY <1>l, <2>2, <2>3 DEF Tally, InLoop
  <2> QED BY <1>g, <2>2, <2>3, <2>4
<1>12. CASE L!StepRefused(i)   BY <1>12, <1>e DEF L!StepRefused
<1>13. CASE L!NodeRuns(i)
  <2>1. PICK o \in AloneOutcomes[aloneRun[i].node], t \in 0 .. AloneMaxTokens :
          /\ aloneRun' = [aloneRun EXCEPT ![i] = [aloneRun[i] EXCEPT
               !.pc = "cap", !.outcome = o, !.tokens = aloneRun[i].tokens + t, !.usage = TRUE]]
          /\ aloneSpent' = aloneSpent + t
    BY <1>13 DEF L!NodeRuns
  <2> DEFINE r == [aloneRun[i] EXCEPT
               !.pc = "cap", !.outcome = o, !.tokens = aloneRun[i].tokens + t, !.usage = TRUE]
  <2>2. aloneRun[i].pc = "execute" /\ UNCHANGED aloneExec
    BY <1>13 DEF L!NodeRuns
  <2>3. aloneRun[i].node \in AloneNodes
    BY <2>2 DEF AloneInv, Leads, Reached
  <2>4. o \in L!Outcome
    BY <2>3, AloneAssumption DEF L!Outcome
  <2>5. aloneRun[i].tokens + t \in Nat /\ t \in Nat /\ t <= AloneMaxTokens /\ AloneMaxTokens \in Nat /\ AloneTokenCap \in Nat
    BY <1>i, AloneAssumption
  <2>6. r \in L!Run /\ r.pc = "cap" /\ r.tokens = aloneRun[i].tokens + t /\ r.usage = TRUE
    BY <1>i, <2>4, <2>5 DEF L!Run, L!PC
  <2>7. aloneRun' = [aloneRun EXCEPT ![i] = r] /\ aloneSpent' = aloneSpent + t
    BY <2>1
  <2> HIDE DEF r
  <2>8. aloneRun[i].tokens = aloneSpent /\ aloneSpent <= AloneTokenCap /\ aloneExec.status = "running"
    BY <1>l, <2>2 DEF Tally, InLoop, Stands
  <2>9. RowTally(aloneExec', aloneSpent')
    BY <1>i, <2>2, <2>5, <2>7, <2>8 DEF RowTally
  <2>10. Tally(r, aloneExec', aloneSpent')
    BY <2>6, <2>7, <2>8 DEF Tally, InLoop
  <2> QED BY <2>2, <2>6, <2>7, <2>9, <2>10, TallyMoves
<1>14. CASE L!CapChecks(i)
  <2> DEFINE to == IF aloneRun[i].tokens > AloneTokenCap THEN "fail" ELSE "close"
  <2>1. aloneRun[i].pc = "cap" /\ L!Goto(i, to) /\ UNCHANGED <<aloneExec, aloneSpent>>
    BY <1>14 DEF L!CapChecks
  <2>2. to \in {"fail", "close"} /\ (to = "close" => aloneRun[i].tokens <= AloneTokenCap)
    BY <1>i, AloneAssumption
  <2> HIDE DEF to
  <2>3. \A r \in L!Run : r.pc = to /\ r.tokens = aloneRun[i].tokens /\ r.usage = aloneRun[i].usage
                           => Tally(r, aloneExec, aloneSpent)
    BY <1>l, <2>1, <2>2 DEF Tally, InLoop
  <2> QED BY <1>l, <1>p, <2>1, <2>2, <2>3, TallyGoes
<1>15. CASE L!StepCloses(i)
  <2>1. aloneRun[i].pc = "close" /\ L!Goto(i, "route") /\ UNCHANGED <<aloneExec, aloneSpent>>
    BY <1>15 DEF L!StepCloses
  <2>2. \A r \in L!Run : r.pc = "route" /\ r.tokens = aloneRun[i].tokens /\ r.usage = aloneRun[i].usage
                           => Tally(r, aloneExec, aloneSpent)
    BY <1>l, <2>1 DEF Tally, InLoop
  <2> QED BY <1>l, <1>p, <2>1, <2>2, TallyGoes
<1>r. aloneRun[i].pc = "route" => /\ aloneRun[i].usage /\ aloneRun[i].tokens = aloneSpent /\ aloneSpent <= AloneTokenCap
                                  /\ aloneExec.status = "running"
  BY <1>l DEF Tally, InLoop, Stands
<1>16. ASSUME NEW n \in AloneTargets, aloneRun[i].pc = "route", L!Persists(i, n), UNCHANGED aloneSpent PROVE TallyInv'
  <2> DEFINE r == [aloneRun[i] EXCEPT !.pc = "head", !.node = n]
  <2>1. r \in L!Run /\ r.pc = "head" /\ r.tokens = aloneRun[i].tokens
    BY <1>i DEF L!Run, L!PC, L!Targets, AloneTargets
  <2>2. /\ aloneRun' = [aloneRun EXCEPT ![i] = r]
        /\ aloneExec' = [aloneExec EXCEPT !.node = n, !.tokens = aloneRun[i].tokens]
    BY <1>16 DEF L!Persists
  <2> HIDE DEF r
  <2>3. aloneExec'.tokens = aloneRun[i].tokens /\ aloneExec'.status = aloneExec.status
    BY <1>i, <2>2 DEF L!Row
  <2>4. Tally(r, aloneExec', aloneSpent') /\ RowTally(aloneExec', aloneSpent')
    BY <1>16, <1>l, <1>r, <2>1, <2>3 DEF Tally, RowTally, InLoop
  <2> QED BY <1>16, <2>1, <2>2, <2>4, TallyMoves
<1>o. aloneRun[i].pc = "route" => aloneRun[i].node \in AloneNodes
  BY DEF AloneInv, Leads, Reached
<1>17. CASE L!RouteError(i)
  <2>1. CASE AloneOnError[aloneRun[i].node] = NoNode
    <3>1. aloneRun[i].pc = "route" /\ L!Goto(i, "fail") /\ UNCHANGED <<aloneExec, aloneSpent>>
      BY <1>17, <2>1 DEF L!RouteError
    <3>2. \A r \in L!Run : r.pc = "fail" /\ r.tokens = aloneRun[i].tokens /\ r.usage = aloneRun[i].usage
                             => Tally(r, aloneExec, aloneSpent)
      BY <1>r, <3>1 DEF Tally, InLoop
    <3> QED BY <1>l, <1>p, <3>1, <3>2, TallyGoes
  <2>2. CASE AloneOnError[aloneRun[i].node] # NoNode
    <3>1. aloneRun[i].pc = "route" /\ L!Persists(i, AloneOnError[aloneRun[i].node]) /\ UNCHANGED aloneSpent
      BY <1>17, <2>2 DEF L!RouteError
    <3>2. AloneOnError[aloneRun[i].node] \in AloneTargets
      BY <1>o, <2>2, <3>1, AloneAssumption
    <3> QED BY <1>16, <3>1, <3>2
  <2> QED BY <2>1, <2>2
<1>18. CASE L!RouteSuspend(i)
  <2>1. aloneRun[i].pc = "route" /\ L!End(i) /\ UNCHANGED aloneSpent
    BY <1>18 DEF L!RouteSuspend
  <2>2. aloneExec'.status = "suspended" /\ aloneExec'.tokens = aloneRun[i].tokens
    BY <1>18, <1>i DEF L!RouteSuspend, L!Row
  <2>3. RowTally(aloneExec', aloneSpent')
    BY <1>l, <1>r, <2>1, <2>2 DEF RowTally
  <2> QED BY <2>1, <2>3, TallyEnds
<1>19. CASE L!RouteFinish(i)
  <2>1. aloneRun[i].pc = "route" /\ L!Goto(i, "finish") /\ UNCHANGED <<aloneExec, aloneSpent>>
    BY <1>19 DEF L!RouteFinish
  <2>2. \A r \in L!Run : r.pc = "finish" /\ r.tokens = aloneRun[i].tokens /\ r.usage = aloneRun[i].usage
                           => Tally(r, aloneExec, aloneSpent)
    BY <1>r, <2>1 DEF Tally, InLoop
  <2> QED BY <1>l, <1>p, <2>1, <2>2, TallyGoes
<1>20. CASE L!RouteNext(i)
  <2>1. PICK n \in AloneOut[aloneRun[i].node] : L!Persists(i, n)
    BY <1>20 DEF L!RouteNext
  <2>2. aloneRun[i].pc = "route" /\ UNCHANGED aloneSpent
    BY <1>20 DEF L!RouteNext
  <2>3. n \in AloneTargets
    BY <1>o, <2>1, <2>2, AloneAssumption
  <2> QED BY <1>16, <2>1, <2>2, <2>3
<1>21. ASSUME NEW at \in {"finish", "fail", "timeout"}, NEW s \in {"succeeded", "failed", "timed_out"}, L!Closes(i, at, s)
       PROVE  TallyInv'
  <2> DEFINE t == IF aloneRun[i].usage THEN aloneRun[i].tokens ELSE aloneExec.tokens
  <2>1. /\ aloneRun[i].pc = at /\ aloneExec' = [aloneExec EXCEPT !.status = s, !.tokens = t]
        /\ L!End(i) /\ UNCHANGED aloneSpent
    BY <1>21 DEF L!Closes
  <2>2. t = aloneSpent
    BY <1>l, <2>1 DEF Tally
  <2> HIDE DEF t
  <2>3. aloneExec'.status = s /\ aloneExec'.tokens = t
    BY <1>i, <2>1 DEF L!Row
  <2>4. RowTally(aloneExec', aloneSpent')
    BY <1>l, <2>1, <2>2, <2>3 DEF RowTally
  <2> QED BY <2>1, <2>4, TallyEnds
<1>22. CASE L!RunFinishes(i) \/ L!RunFails(i) \/ L!RunTimesOut(i)
  BY <1>22, <1>21 DEF L!RunFinishes, L!RunFails, L!RunTimesOut
<1> QED
  BY <1>1, <1>2, <1>3, <1>4, <1>5, <1>6, <1>7, <1>8, <1>9, <1>10, <1>11, <1>12, <1>13,
     <1>14, <1>15, <1>17, <1>18, <1>19, <1>20, <1>22, Zenon DEF L!Advances

LEMMA TallyNext == AloneInv /\ TallyInv /\ [L!Next]_aloneVars => TallyInv'
<1> SUFFICES ASSUME AloneInv, TallyInv, [L!Next]_aloneVars PROVE TallyInv'
  OBVIOUS
<1>i. aloneExec \in L!Row /\ RowTally(aloneExec, aloneSpent)
  BY DEF AloneInv, AloneTyped, TallyInv
<1>1. ASSUME NEW i \in L!Callers, L!Crash(i) PROVE TallyInv'
  BY <1>1, <1>i, TallyEnds DEF L!Crash
<1>2. ASSUME NEW i \in L!Callers, L!StartFinds(i) \/ L!SweepLists(i) PROVE TallyInv'
  <2> DEFINE to == IF i = AloneSweep THEN "resume" ELSE "create"
  <2>1. aloneRun[i].pc = "idle" /\ UNCHANGED <<aloneExec, aloneSpent>>
    BY <1>2 DEF L!StartFinds, L!SweepLists, L!At, L!KeepsDurable
  <2>2. L!Goto(i, to)
    <3>1. i = AloneTrigger => aloneExec.status = "absent" /\ L!StartFinds(i)
      BY <1>2, <2>1, AloneCallers DEF AloneInv, OneDrives, L!SweepLists
    <3>2. i = AloneSweep => L!SweepLists(i)
      BY <1>2, AloneCallers DEF L!StartFinds
    <3> QED BY <3>1, <3>2, AloneCallers DEF L!StartFinds, L!SweepLists
  <2>3. to \in L!PC /\ to \in {"resume", "create"}
    BY DEF L!PC
  <2> HIDE DEF to
  <2>4. ~aloneRun[i].usage
    BY <2>1 DEF TallyInv, Tally
  <2>5. \A r \in L!Run : r.pc = to /\ r.tokens = aloneRun[i].tokens /\ r.usage = aloneRun[i].usage
                           => Tally(r, aloneExec, aloneSpent)
    BY <2>3, <2>4 DEF Tally, InLoop
  <2> QED BY <1>i, <2>1, <2>2, <2>3, <2>5, TallyGoes
\* Whoever writes the timer or lets the deadline pass writes nothing else.
<1>3. ASSUME UNCHANGED <<aloneRun, aloneSpent>>, aloneExec'.status = aloneExec.status, aloneExec'.tokens = aloneExec.tokens
      PROVE  TallyInv'
  <2>1. RowTally(aloneExec', aloneSpent)
    BY <1>i, <1>3 DEF RowTally
  <2>2. \A i \in L!Callers : Tally(aloneRun[i], aloneExec', aloneSpent)
    BY <1>3 DEF TallyInv, Tally
  <2>3. RowTally(aloneExec', aloneSpent') /\ \A i \in L!Callers : Tally(aloneRun'[i], aloneExec', aloneSpent')
    BY <1>3, <2>1, <2>2
  <2> QED BY <2>3, Zenon DEF TallyInv, L!Callers
<1>4. CASE L!TimerElapses
  <2>1. aloneExec'.status = aloneExec.status /\ aloneExec'.tokens = aloneExec.tokens
    BY <1>4, <1>i DEF L!TimerElapses, L!Row
  <2> QED BY <1>4, <2>1, <1>3 DEF L!TimerElapses, L!KeepsHistory
<1>5. CASE L!DeadlinePasses \/ UNCHANGED aloneVars
  BY <1>5, <1>3 DEF L!DeadlinePasses, aloneVars
<1>n. ~L!Cancel /\ \A i \in L!Callers : ~L!ApiResumes(i)
  BY DEF L!Cancel, L!ApiResumes
<1>m. CASE L!Next
  <2>1. \/ \E i \in L!Callers : L!Advances(i) \/ L!Crash(i) \/ L!StartFinds(i) \/ L!SweepLists(i)
        \/ L!TimerElapses \/ L!DeadlinePasses
    BY <1>m, <1>n, Zenon DEF L!Next
  <2> QED BY <2>1, <1>1, <1>2, <1>4, <1>5, TallyAdvances
<1> QED BY <1>m, <1>5

LEMMA TallyStarts == L!Init => TallyInv
<1> SUFFICES ASSUME L!Init PROVE TallyInv
  OBVIOUS
<1>1. /\ aloneExec.status = "absent" /\ aloneExec.tokens = 0 /\ aloneSpent = 0
      /\ \A i \in L!Callers : aloneRun[i] = L!NoRun
  BY DEF L!Init
<1>2. L!NoRun.pc = "idle" /\ L!NoRun.usage = FALSE
  BY DEF L!NoRun
<1>3. RowTally(aloneExec, aloneSpent)
  BY <1>1, AloneAssumption DEF RowTally
<1>4. Tally(L!NoRun, aloneExec, aloneSpent)
  BY <1>2 DEF Tally, InLoop
<1> QED BY <1>1, <1>3, <1>4 DEF TallyInv

\* With one trigger and the cron, on any graph without a cycle and with any limits,
\* whatever dies: no node runs twice, because a resume advances past the node that
\* suspended; an ended execution reports what its nodes used; and that exceeds the cap by
\* one node at the most.
THEOREM AloneKeepsCountTheorem == AllSpec => []AloneKeepsCount
<1>1. AloneInv => L!NodesRunOnce
  <2> SUFFICES ASSUME AloneInv, NEW j \in aloneEffects, NEW k \in aloneEffects,
                      aloneSteps[j].node = aloneSteps[k].node
               PROVE  j = k
    BY DEF L!NodesRunOnce
  <2>1. j \in 1 .. Len(aloneSteps) /\ k \in 1 .. Len(aloneSteps) /\ Rising(aloneSteps)
    BY DEF AloneInv
  <2>2. aloneSteps[j] \in L!Step
    BY <2>1 DEF AloneInv, AloneTyped
  <2>3. AloneRank[aloneSteps[j].node] \in Nat
    BY <2>2, AloneAssumption DEF L!Step, AloneTargets
  <2>4. ~(j < k) /\ ~(k < j)
    BY <2>1, <2>3 DEF Rising, RankAt
  <2>5. j \in Int /\ k \in Int
    BY <2>1
  <2> QED BY <2>4, <2>5
<1>2. TallyInv => L!UsageIsReported /\ L!CapBoundsUsage
  BY DEF TallyInv, RowTally, L!UsageIsReported, L!CapBoundsUsage, L!Terminal
<1>3. AloneInv /\ TallyInv => AloneKeepsCount
  BY <1>1, <1>2 DEF AloneKeepsCount
<1> QED BY <1>3, AloneStarts, AloneNext, TallyStarts, TallyNext, AllRemainsAlone, PTL

\* Each statement takes the status one way: queued, running, suspended until its delay
\* has passed, and an end is an end.
Follows == [L!Lifecycle!Next]_<<aloneExec.status, aloneExec.timer>>
LEMMA AloneStepFollows == AloneInv /\ [L!Next]_aloneVars => Follows
<1> SUFFICES ASSUME AloneInv, [L!Next]_aloneVars PROVE Follows
  OBVIOUS
<1> USE DEF L!At, L!KeepsDurable, L!KeepsHistory
<1>i. aloneExec \in L!Row /\ RowFits(aloneExec, aloneSteps)
  BY DEF AloneInv, AloneTyped
<1>s. ASSUME aloneExec'.status = aloneExec.status, aloneExec'.timer = aloneExec.timer PROVE Follows
  BY <1>s DEF Follows
<1>u. ASSUME UNCHANGED aloneExec PROVE Follows
  BY <1>u DEF Follows
<1>1. ASSUME NEW i \in L!Callers, L!Advances(i) PROVE Follows
  <2>l. Stands(aloneRun[i], aloneExec)
    BY DEF AloneInv
  <2>1. CASE L!StartCreates(i)
    <3>1. PICK v \in BOOLEAN : aloneExec' = [aloneExec EXCEPT !.status = "queued", !.versioned = v]
      BY <2>1 DEF L!StartCreates
    <3>2. aloneExec.status = "absent" /\ aloneExec'.status = "queued" /\ aloneExec'.timer = aloneExec.timer
      BY <1>i, <2>1, <3>1 DEF L!StartCreates, L!Row
    <3> QED BY <3>2 DEF Follows, L!Lifecycle!Next, L!Lifecycle!Queue
  <2>2. CASE L!ResumeAdvances(i)
    <3> DEFINE next == IF aloneRun[i].node \in AloneNodes THEN AloneFirst[aloneRun[i].node] ELSE NoNode
    <3>1. aloneExec.status = "suspended" /\ aloneExec.timer = "due"
      BY <2>2, <2>l DEF L!ResumeAdvances, Stands
    <3>2. aloneExec' = [aloneExec EXCEPT !.status = "running", !.node = next, !.timer = "none"]
      BY <2>2 DEF L!ResumeAdvances
    <3> HIDE DEF next
    <3>3. aloneExec'.status = "running" /\ aloneExec'.timer = "none"
      BY <1>i, <3>2 DEF L!Row
    <3> QED BY <3>1, <3>3 DEF Follows, L!Lifecycle!Next, L!Lifecycle!Resume
  <2>3. CASE L!RunBegins(i)
    <3>1. aloneExec.status \in {"queued", "running"} /\ aloneExec' = [aloneExec EXCEPT !.status = "running"]
      BY <2>3, <2>l DEF L!RunBegins, Stands
    <3>2. aloneExec'.status = "running" /\ aloneExec'.timer = aloneExec.timer
      BY <1>i, <3>1 DEF L!Row
    <3> QED BY <3>1, <3>2 DEF Follows, L!Lifecycle!Next, L!Lifecycle!Begin
  <2>4. CASE L!RouteSuspend(i)
    <3>1. aloneExec.status = "running"
      BY <2>4, <2>l DEF L!RouteSuspend, Stands
    <3>2. aloneExec'.status = "suspended" /\ aloneExec'.timer \in {"none", "pending"}
      BY <1>i, <2>4 DEF L!RouteSuspend, L!Row
    <3> QED BY <3>1, <3>2 DEF Follows, L!Lifecycle!Next, L!Lifecycle!Suspend
  <2>5. ASSUME NEW n, L!Persists(i, n) PROVE Follows
    <3>1. aloneExec'.status = aloneExec.status /\ aloneExec'.timer = aloneExec.timer
      BY <1>i, <2>5 DEF L!Persists, L!Row
    <3> QED BY <1>s, <3>1
  <2>6. CASE L!RouteError(i)
    BY <1>u, <2>5, <2>6 DEF L!RouteError
  <2>7. CASE L!RouteNext(i)
    BY <2>5, <2>7 DEF L!RouteNext
  <2>8. ASSUME NEW at \in {"finish", "fail", "timeout"}, NEW s \in {"succeeded", "failed", "timed_out"}, L!Closes(i, at, s)
        PROVE  Follows
    <3> DEFINE t == IF aloneRun[i].usage THEN aloneRun[i].tokens ELSE aloneExec.tokens
    <3>1. aloneRun[i].pc = at /\ aloneExec' = [aloneExec EXCEPT !.status = s, !.tokens = t]
      BY <2>8 DEF L!Closes
    <3> HIDE DEF t
    <3>2. aloneExec.status \in {"queued", "running"}
      BY <2>l, <3>1 DEF Stands
    <3>3. aloneExec'.status = s /\ aloneExec'.timer = aloneExec.timer
      BY <1>i, <3>1 DEF L!Row
    <3> QED BY <3>2, <3>3 DEF Follows, L!Lifecycle!Next, L!Lifecycle!Close, L!Lifecycle!Terminal
  <2>9. CASE L!RunFinishes(i) \/ L!RunFails(i) \/ L!RunTimesOut(i)
    BY <2>8, <2>9 DEF L!RunFinishes, L!RunFails, L!RunTimesOut
  <2>10. CASE \/ L!StartRefused(i) \/ L!ResumeReads(i) \/ L!ResumeConflict(i) \/ L!RunReturns(i) \/ L!RunLoads(i)
              \/ L!RunCounts(i) \/ L!LoopHead(i) \/ L!StepOpens(i) \/ L!StepRefused(i) \/ L!NodeRuns(i) \/ L!CapChecks(i)
              \/ L!StepCloses(i) \/ L!RouteFinish(i)
    <3>1. UNCHANGED aloneExec
      BY <2>10 DEF L!StartRefused, L!ResumeReads, L!ResumeConflict, L!RunReturns, L!RunLoads, L!RunCounts, L!LoopHead,
                   L!StepOpens, L!StepRefused, L!NodeRuns, L!CapChecks, L!StepCloses, L!RouteFinish
    <3> QED BY <1>u, <3>1
  <2> QED BY <1>1, <2>1, <2>2, <2>3, <2>4, <2>6, <2>7, <2>9, <2>10, Zenon DEF L!Advances
<1>2. ASSUME NEW i \in L!Callers, L!Crash(i) \/ L!StartFinds(i) \/ L!SweepLists(i) PROVE Follows
  <2>1. UNCHANGED aloneExec
    BY <1>2 DEF L!Crash, L!StartFinds, L!SweepLists
  <2> QED BY <1>u, <2>1
<1>3. CASE L!TimerElapses
  <2>1. aloneExec.timer = "pending" /\ aloneExec' = [aloneExec EXCEPT !.timer = "due"]
    BY <1>3 DEF L!TimerElapses
  <2>2. aloneExec.status = "suspended" /\ aloneExec'.status = aloneExec.status /\ aloneExec'.timer = "due"
    BY <1>i, <2>1 DEF RowFits, L!Row
  <2> QED BY <2>1, <2>2 DEF Follows, L!Lifecycle!Next, L!Lifecycle!Elapse
<1>4. CASE L!DeadlinePasses
  BY <1>4, <1>u DEF L!DeadlinePasses
<1>5. CASE UNCHANGED aloneVars
  BY <1>5, <1>u DEF aloneVars
<1>n. ~L!Cancel /\ \A i \in L!Callers : ~L!ApiResumes(i)
  BY DEF L!Cancel, L!ApiResumes
<1>m. CASE L!Next
  <2>1. \/ \E i \in L!Callers : L!Advances(i) \/ L!Crash(i) \/ L!StartFinds(i) \/ L!SweepLists(i)
        \/ L!TimerElapses \/ L!DeadlinePasses
    BY <1>m, <1>n, Zenon DEF L!Next
  <2> QED BY <2>1, <1>1, <1>2, <1>3, <1>4, Zenon
<1> QED BY <1>m, <1>5

\* The interpreter with one driver implements the life of an execution: initial states
\* map to initial states, and each step to a step of it or a stutter.
THEOREM AloneFollowsLifecycleTheorem == AllSpec => AloneFollowsLifecycle
<1>1. L!Init => L!Lifecycle!Init
  BY DEF L!Init, L!Lifecycle!Init
<1>2. AloneInv /\ [L!Next]_aloneVars => [L!Lifecycle!Next]_<<aloneExec.status, aloneExec.timer>>
  BY AloneStepFollows DEF Follows
<1> QED
  BY <1>1, <1>2, AloneStarts, AloneNext, AllRemainsAlone, PTL
     DEF AloneFollowsLifecycle, L!ImplementsLifecycle, L!Lifecycle!Spec
=============================================================================
