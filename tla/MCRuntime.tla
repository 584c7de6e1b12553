----------------------------- MODULE MCRuntime -----------------------------
(* Two small instances of Runtime: one execution under several invocations, and *)
(* one under a single trigger and the cron, which may crash. The first state    *)
(* chooses the one that moves; the other stays as it was made.                  *)
EXTENDS Runtime, TLC

CONSTANTS
  t1, t2, s1, a1, n1, n2, n3, ghost,
  \* The instance with one driver: who it is, the graph, and the limits.
  AloneTrigger, AloneSweep,
  AloneNodes, AloneUnknown, AloneOut, AloneFirst, AloneOnError, AloneOutcomes,
  AloneRank, \* what shows that the graph has no cycle: it grows along every edge
  AloneMaxSteps, AloneTokenCap, AloneMaxTokens, AloneMaxCrashes

AloneTargets == AloneNodes \cup AloneUnknown
ASSUME AloneAssumption ==
  /\ AloneTrigger # AloneSweep
  /\ NoNode \notin AloneTargets /\ Entry \in AloneTargets \cup {NoNode}
  /\ AloneOut \in [AloneNodes -> SUBSET AloneTargets]
  /\ AloneOnError \in [AloneNodes -> AloneTargets \cup {NoNode}]
  /\ AloneOutcomes \in [AloneNodes -> SUBSET {"ok", "error", "wait", "delay", "terminal"}]
  /\ AloneRank \in [AloneTargets -> Nat]
  /\ \A n \in AloneNodes :
       /\ IF AloneOut[n] = {} THEN AloneFirst[n] = NoNode ELSE AloneFirst[n] \in AloneOut[n]
       /\ \A m \in (AloneOut[n] \cup {AloneOnError[n]}) \ {NoNode} : AloneRank[n] < AloneRank[m]
  /\ {AloneTokenCap, AloneMaxTokens} \subseteq Nat

TwoTriggers == {t1, t2}
OneApi      == {a1}
Nobody      == {}

\* A chain whose middle node may wait, with an error edge that skips it.
ChainNodes    == {n1, n2, n3}
NoGhosts      == {}
ChainOut      == n1 :> {n2} @@ n2 :> {n3} @@ n3 :> {}
ChainFirst    == n1 :> n2 @@ n2 :> n3 @@ n3 :> NoNode
ChainOnError  == n1 :> n3 @@ n2 :> NoNode @@ n3 :> NoNode
ChainOutcomes == n1 :> {"ok", "error", "delay"} @@ n2 :> {"ok", "error", "delay"}
              @@ n3 :> {"ok", "terminal", "wait"}
ChainRank     == n1 :> 1 @@ n2 :> 2 @@ n3 :> 3

\* Two nodes, one cycle, and an edge to a node the graph does not have.
LoopNodes    == {n1, n2}
Ghosts       == {ghost}
LoopOut      == n1 :> {n2} @@ n2 :> {n1, ghost}
LoopFirst    == n1 :> n2 @@ n2 :> n1
LoopOnError  == n1 :> n2 @@ n2 :> NoNode
LoopOutcomes == n1 :> {"ok", "error", "delay"} @@ n2 :> {"ok", "wait", "terminal"}

VARIABLES
  part,
  aloneExec, aloneSteps, aloneRun, aloneEffects, aloneSpent, aloneLate, aloneCrashes
aloneVars == <<aloneExec, aloneSteps, aloneRun, aloneEffects, aloneSpent, aloneLate, aloneCrashes>>

L == INSTANCE Runtime WITH
       Triggers <- {AloneTrigger}, Sweeps <- {AloneSweep}, Apis <- {}, Nodes <- AloneNodes,
       Unknown <- AloneUnknown, Out <- AloneOut, First <- AloneFirst, OnError <- AloneOnError,
       Outcomes <- AloneOutcomes, MaxSteps <- AloneMaxSteps, TokenCap <- AloneTokenCap,
       MaxTokens <- AloneMaxTokens, MayCancel <- FALSE, MaxCrashes <- AloneMaxCrashes,
       exec <- aloneExec, steps <- aloneSteps, run <- aloneRun, effects <- aloneEffects,
       spent <- aloneSpent, late <- aloneLate, crashes <- aloneCrashes

AllVars == <<vars, part, aloneVars>>
AllInit == part \in {"shared", "alone"} /\ Init /\ L!Init
AllNext ==
  \/ part = "shared" /\ Next /\ UNCHANGED <<part, aloneVars>>
  \/ part = "alone" /\ L!Next /\ UNCHANGED <<part, vars>>
AllSpec == AllInit /\ [][AllNext]_AllVars /\ Fairness /\ L!Fairness

\* With one trigger and the cron no node runs twice, what an ended execution reports was
\* used is what its nodes used, and that is beyond the cap by one node at the most
\* (runtime.service.ts:131-200, 235-249, 420-500).
AloneKeepsCount == L!NodesRunOnce /\ L!UsageIsReported /\ L!CapBoundsUsage
\* The status of the execution follows its abstract life.
AloneFollowsLifecycle == L!ImplementsLifecycle
=============================================================================
