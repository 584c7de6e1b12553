-------------------------- MODULE WorkflowVersions --------------------------
(***************************************************************************)
(* Authoring of one workflow: WorkflowsService.saveGraph, publish and      *)
(* delete, called by several builders at once.  Each of them reads the     *)
(* latest version, decides on what it read, and writes by row id.          *)
(*                                                                         *)
(* A graph is a value; validateGraph is the set it belongs to (its         *)
(* algorithm is module WorkflowGraph).  create is the initial state.       *)
(***************************************************************************)
EXTENDS Naturals, Sequences

CONSTANTS
  Builders,    \* concurrent requests to the workflow routes
  Graphs,      \* what a builder may draw
  Publishable, \* those with no issue of severity error
  NoGraph,     \* a request that carries none
  MaxSaves,    \* bound: versions of the workflow
  MaxRequests  \* bound: requests that ever begin

ASSUME WorkflowVersionsAssumption ==
  /\ Publishable \subseteq Graphs
  /\ NoGraph \notin Graphs
  /\ MaxSaves \in Nat \ {0} /\ MaxRequests \in Nat

VARIABLES
  wver,     \* the workflow_versions rows, by version number
  wactive,  \* activeVersionId, as a version number; 0 is null
  wgone,    \* the workflow row is deleted
  build,    \* the local state of each request
  asked,    \* requests that have begun
  wfrozen   \* history: versions published while no save held them as a draft

wfVars == <<wver, wactive, wgone, build, wfrozen>>
kept   == <<wver, wactive, wgone, wfrozen>>

WVersion == [graph : Graphs, published : BOOLEAN]
Build    == [pc : {"idle", "save", "publish", "delete"}, seen : Nat,
             wasPublished : BOOLEAN, graph : Graphs \cup {NoGraph}]

NoBuild == [pc |-> "idle", seen |-> 0, wasPublished |-> FALSE, graph |-> NoGraph]

WTypeOK ==
  /\ wver \in Seq(WVersion)
  /\ wactive \in Nat
  /\ wgone \in BOOLEAN
  /\ build \in [Builders -> Build]
  /\ wfrozen \subseteq (Nat \X Graphs)
  /\ asked \in 0..MaxRequests

\* create writes the workflow and its version 1 in one transaction.
WInit ==
  /\ \E g \in Graphs : wver = <<[graph |-> g, published |-> FALSE]>>
  /\ wactive = 0
  /\ wgone = FALSE
  /\ build = [i \in Builders |-> NoBuild]
  /\ wfrozen = {}
  /\ asked = 0

-----------------------------------------------------------------------------
WLatest == Len(wver)

Asks == asked < MaxRequests /\ asked' = asked + 1

BuildEnds(i) == build' = [build EXCEPT ![i] = NoBuild] /\ UNCHANGED asked

\* get, as every route begins: the latest version is copied and used from here on.
ReadsLatest(i, pc, g) ==
  /\ build[i].pc = "idle" /\ ~wgone /\ Asks
  /\ build' = [build EXCEPT ![i] =
       [pc |-> pc, seen |-> WLatest, wasPublished |-> wver[WLatest].published, graph |-> g]]
  /\ UNCHANGED kept

SaveReads(i) == \E g \in Graphs : ReadsLatest(i, "save", g)

\* Mutant: the latest version is edited in place, published or not.
SaveAlwaysInPlace(i) ==
  /\ build[i].pc = "save" /\ ~wgone
  /\ wver' = [wver EXCEPT ![build[i].seen].graph = build[i].graph]
  /\ BuildEnds(i)
  /\ UNCHANGED <<wactive, wgone, wfrozen>>

\* A version read as unpublished is edited in place, whatever it is by now.
SaveInPlace(i) ==
  /\ build[i].pc = "save" /\ ~build[i].wasPublished /\ ~wgone
  /\ wver' = [wver EXCEPT ![build[i].seen].graph = build[i].graph]
  /\ BuildEnds(i)
  /\ UNCHANGED <<wactive, wgone, wfrozen>>

\* After a publish the save opens the next version.
SaveNext(i) ==
  /\ build[i].pc = "save" /\ build[i].wasPublished /\ ~wgone
  /\ build[i].seen = WLatest /\ WLatest < MaxSaves
  /\ wver' = Append(wver, [graph |-> build[i].graph, published |-> FALSE])
  /\ BuildEnds(i)
  /\ UNCHANGED <<wactive, wgone, wfrozen>>

\* The number is taken, or the workflow is gone: the database refuses the write.
SaveRefused(i) ==
  /\ build[i].pc = "save"
  /\ wgone \/ (build[i].wasPublished /\ build[i].seen < WLatest)
  /\ BuildEnds(i)
  /\ UNCHANGED kept

\* publish refuses a latest version that is published already, or is invalid.
PublishReads(i) ==
  /\ ~wver[WLatest].published /\ wver[WLatest].graph \in Publishable
  /\ ReadsLatest(i, "publish", NoGraph)

\* A save that read version v as a draft and has not written yet.
EditInFlight(v) ==
  \E j \in Builders : build[j].pc = "save" /\ build[j].seen = v /\ ~build[j].wasPublished

\* One transaction: the version it read becomes published and active.
PublishCommits(i) ==
  /\ build[i].pc = "publish" /\ ~wgone
  /\ LET v == build[i].seen IN
       /\ wver' = [wver EXCEPT ![v].published = TRUE]
       /\ wactive' = v
       /\ wfrozen' = IF wver[v].published \/ EditInFlight(v)
                     THEN wfrozen
                     ELSE wfrozen \cup {<<v, wver[v].graph>>}
  /\ BuildEnds(i)
  /\ UNCHANGED wgone

PublishRefused(i) ==
  /\ build[i].pc = "publish" /\ wgone
  /\ BuildEnds(i)
  /\ UNCHANGED kept

\* delete goes on only if no agent version names the workflow when it counts.
CountsUses(i, inUse) ==
  /\ ~inUse
  /\ ReadsLatest(i, "delete", NoGraph)

\* The row goes, and its versions with it.
DeleteCommits(i) ==
  /\ build[i].pc = "delete"
  /\ wgone' = TRUE
  /\ BuildEnds(i)
  /\ UNCHANGED <<wver, wactive, wfrozen>>

BuildStep(i, inUse) ==
  \/ SaveReads(i) \/ SaveInPlace(i) \/ SaveNext(i) \/ SaveRefused(i)
  \/ PublishReads(i) \/ PublishCommits(i) \/ PublishRefused(i)
  \/ CountsUses(i, inUse) \/ DeleteCommits(i)

-----------------------------------------------------------------------------
\* Of the versions only the last can be a draft: however saves and publishes
\* overlap, the number a save claims is the one after a published version.
OnlyLastIsDraft == \A v \in 1..WLatest : v < WLatest => wver[v].published

\* "What is live never changes underfoot" (the comment above saveGraph), as far
\* as the code keeps it: a version published while no save held it as a draft
\* keeps its graph for ever.
PublishedGraphIsFrozen == \A f \in wfrozen : wver[f[1]].graph = f[2]
=============================================================================
