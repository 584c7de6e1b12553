--------------------------- MODULE WorkflowGraph ---------------------------
(***************************************************************************)
(* Publishing checks of a workflow: validateGraph and its findCycles.  The *)
(* two walks over the graph, the one from the trigger and the depth-first  *)
(* search for cycles, are taken one iteration at a time; the checks that   *)
(* only look at the lists are operators over the graph.  The graph itself  *)
(* is drawn in Init and never changes.                                     *)
(***************************************************************************)
EXTENDS Naturals, Sequences, FiniteSets

CONSTANTS
  Ids,         \* node ids, those edges name and no node has included
  NodeLists,   \* the node lists that may be drawn
  Adjacencies  \* the edges that may be drawn, each id's targets in their order

Kinds == {"trigger", "loop", "branch", "plain", "unknown"}
Node  == [id : Ids, kind : Kinds]

ASSUME GraphAssumption ==
  /\ IsFiniteSet(Ids)
  /\ \A list \in NodeLists : list \in Seq(Node)
  /\ Adjacencies \subseteq [Ids -> Seq(Ids)]

VARIABLES
  nodes, adj,  \* the graph
  phase,       \* "reach", "visit" or "done"
  stack,       \* the ids the first walk has yet to look at
  reached,     \* the ids it has been at
  root,        \* the position in nodes of the next root of the second walk
  mark,        \* "new", "visiting" or "done"
  path,        \* the ids being visited, outermost first
  rest,        \* the targets each of them has yet to follow
  cycles       \* the paths findCycles returns

graph == <<nodes, adj>>
vars == <<nodes, adj, phase, stack, reached, root, mark, path, rest, cycles>>

Elements(s) == {s[k] : k \in DOMAIN s}
NodeIds     == {nodes[k].id : k \in DOMAIN nodes}

\* nodes.find: the first node with the id decides its kind.
IsLoop(i) == \E k \in DOMAIN nodes :
  /\ nodes[k].id = i /\ nodes[k].kind = "loop"
  /\ \A l \in 1 .. k - 1 : nodes[l].id # i

Triggers == {k \in DOMAIN nodes : nodes[k].kind = "trigger"}
Trigger  == nodes[CHOOSE k \in Triggers : TRUE].id

TypeOK ==
  /\ nodes \in Seq(Node)
  /\ adj \in [Ids -> Seq(Ids)]
  /\ phase \in {"reach", "visit", "done"}
  /\ stack \in Seq(Ids)
  /\ reached \subseteq Ids
  /\ root \in Nat \ {0}
  /\ mark \in [Ids -> {"new", "visiting", "done"}]
  /\ path \in Seq(Ids)
  /\ rest \in [Ids -> Seq(Ids)]
  /\ cycles \subseteq Seq(Ids)

\* Without nodes there is one error and nothing to walk; without exactly one
\* trigger there is nowhere to walk from.
Init ==
  /\ nodes \in NodeLists
  /\ adj \in Adjacencies
  /\ phase = IF nodes = <<>> THEN "done"
             ELSE IF Cardinality(Triggers) = 1 THEN "reach" ELSE "visit"
  /\ stack = IF Cardinality(Triggers) = 1 THEN <<Trigger>> ELSE <<>>
  /\ reached = {}
  /\ root = 1
  /\ mark = [i \in Ids |-> "new"]
  /\ path = <<>>
  /\ rest = adj
  /\ cycles = {}

-----------------------------------------------------------------------------
(* The walk from the trigger.                                              *)

Top(s)    == s[Len(s)]
Popped(s) == SubSeq(s, 1, Len(s) - 1)

\* Mutant: the targets replace what was still to be looked at.
ReachForgets ==
  /\ phase = "reach" /\ stack # <<>>
  /\ IF Top(stack) \in reached
     THEN /\ stack' = Popped(stack)
          /\ UNCHANGED reached
     ELSE /\ stack' = adj[Top(stack)]
          /\ reached' = reached \cup {Top(stack)}
  /\ UNCHANGED <<graph, phase, root, mark, path, rest, cycles>>

ReachNext ==
  /\ phase = "reach" /\ stack # <<>>
  /\ IF Top(stack) \in reached
     THEN /\ stack' = Popped(stack)
          /\ UNCHANGED reached
     ELSE /\ stack' = Popped(stack) \o adj[Top(stack)]
          /\ reached' = reached \cup {Top(stack)}
  /\ UNCHANGED <<graph, phase, root, mark, path, rest, cycles>>

ReachEnds ==
  /\ phase = "reach" /\ stack = <<>>
  /\ phase' = "visit"
  /\ UNCHANGED <<graph, stack, reached, root, mark, path, rest, cycles>>

-----------------------------------------------------------------------------
(* findCycles: visit, its recursion kept in path and rest.                 *)

Enter(i) ==
  /\ mark' = [mark EXCEPT ![i] = "visiting"]
  /\ path' = Append(path, i)

\* Mutant: the roots are taken backwards from the first.
VisitRootBackwards ==
  /\ phase = "visit" /\ path = <<>> /\ root <= Len(nodes)
  /\ IF mark[nodes[root].id] = "new"
     THEN Enter(nodes[root].id) /\ UNCHANGED root
     ELSE root' = root - 1 /\ UNCHANGED <<mark, path>>
  /\ UNCHANGED <<graph, phase, stack, reached, rest, cycles>>

VisitRoot ==
  /\ phase = "visit" /\ path = <<>> /\ root <= Len(nodes)
  /\ IF mark[nodes[root].id] = "new"
     THEN Enter(nodes[root].id) /\ UNCHANGED root
     ELSE root' = root + 1 /\ UNCHANGED <<mark, path>>
  /\ UNCHANGED <<graph, phase, stack, reached, rest, cycles>>

\* Mutant: the whole path, from the root on.
ClosedByAll(i) == {path \o <<i>>}

\* The part of the path from where i was entered, closed by i again.
ClosedBy(i) == {SubSeq(path, k, Len(path)) \o <<i>> : k \in {l \in DOMAIN path : path[l] = i}}

\* Mutant: an edge back to the path is looked at again and again.
FollowForever ==
  /\ phase = "visit" /\ path # <<>> /\ rest[Top(path)] # <<>>
  /\ LET next == Head(rest[Top(path)]) IN
       \/ mark[next] = "done" /\ rest' = [rest EXCEPT ![Top(path)] = Tail(@)]
          /\ UNCHANGED <<mark, path, cycles>>
       \/ mark[next] = "visiting" /\ cycles' = cycles \cup ClosedBy(next)
          /\ UNCHANGED <<mark, path, rest>>
       \/ mark[next] = "new" /\ Enter(next) /\ rest' = [rest EXCEPT ![Top(path)] = Tail(@)]
          /\ UNCHANGED cycles
  /\ UNCHANGED <<graph, phase, stack, reached, root>>

\* The innermost visit follows its next edge.
Follow ==
  /\ phase = "visit" /\ path # <<>> /\ rest[Top(path)] # <<>>
  /\ LET next == Head(rest[Top(path)]) IN
       /\ rest' = [rest EXCEPT ![Top(path)] = Tail(@)]
       /\ \/ mark[next] = "done" /\ UNCHANGED <<mark, path, cycles>>
          \/ mark[next] = "visiting" /\ cycles' = cycles \cup ClosedBy(next)
             /\ UNCHANGED <<mark, path>>
          \/ mark[next] = "new" /\ Enter(next) /\ UNCHANGED cycles
  /\ UNCHANGED <<graph, phase, stack, reached, root>>

Leave ==
  /\ phase = "visit" /\ path # <<>> /\ rest[Top(path)] = <<>>
  /\ mark' = [mark EXCEPT ![Top(path)] = "done"]
  /\ path' = Popped(path)
  /\ UNCHANGED <<graph, phase, stack, reached, root, rest, cycles>>

\* Mutant: the search ends with the first root.
VisitEndsEarly ==
  /\ phase = "visit" /\ path = <<>> /\ root > 1
  /\ phase' = "done"
  /\ UNCHANGED <<graph, stack, reached, root, mark, path, rest, cycles>>

VisitEnds ==
  /\ phase = "visit" /\ path = <<>> /\ root > Len(nodes)
  /\ phase' = "done"
  /\ UNCHANGED <<graph, stack, reached, root, mark, path, rest, cycles>>

Next == ReachNext \/ ReachEnds \/ VisitRoot \/ Follow \/ Leave \/ VisitEnds

Spec == Init /\ [][Next]_vars /\ WF_vars(Next)

-----------------------------------------------------------------------------
(* The issues, once the walks are done.                                    *)

Duplicated == \E k, l \in DOMAIN nodes : k # l /\ nodes[k].id = nodes[l].id
UnknownType == \E k \in DOMAIN nodes : nodes[k].kind = "unknown"
\* Mutant: only where an edge starts is checked.
DanglingFrom == \E i \in Ids : adj[i] # <<>> /\ i \notin NodeIds

Dangling ==
  \E i \in Ids : adj[i] # <<>> /\ (i \notin NodeIds \/ ~(Elements(adj[i]) \subseteq NodeIds))
DeadTrigger == \E k \in Triggers : adj[nodes[k].id] = <<>>
BareCycleFound == \E c \in cycles : \A k \in DOMAIN c : ~IsLoop(c[k])

Errors ==
  {e \in {"empty", "duplicate", "type", "triggers", "dangling", "trigger edge", "cycle"} :
     \/ e = "empty"        /\ nodes = <<>>
     \/ e = "duplicate"    /\ Duplicated
     \/ e = "type"         /\ UnknownType
     \/ e = "triggers"     /\ Cardinality(Triggers) # 1
     \/ e = "dangling"     /\ Dangling
     \/ e = "trigger edge" /\ DeadTrigger
     \/ e = "cycle"        /\ BareCycleFound}

\* Nodes with a warning, which does not block publishing.
Warned ==
  {nodes[k].id : k \in {l \in DOMAIN nodes :
     \/ Cardinality(Triggers) = 1 /\ nodes[l].id \notin reached
     \/ nodes[l].kind = "branch" /\ Len(adj[nodes[l].id]) < 2}}

Publishable == phase = "done" /\ Errors = {}

-----------------------------------------------------------------------------
(* Reference definitions, over all sets of ids.                            *)

Closed(S) == \A i \in S : Elements(adj[i]) \subseteq S
From(i)   == {j \in Ids : \A S \in SUBSET Ids : i \in S /\ Closed(S) => j \in S}
\* A set of ids contains a cycle when some part of it has no way out of itself.
Cyclic(S) == \E C \in SUBSET S : C # {} /\ \A i \in C : Elements(adj[i]) \cap C # {}

IsCycle(c) ==
  /\ Len(c) > 1 /\ c[1] = c[Len(c)]
  /\ \A k \in 1 .. Len(c) - 1 : c[k + 1] \in Elements(adj[c[k]])

-----------------------------------------------------------------------------
(* Properties.                                                             *)

\* Every path findCycles returns is a way round in the graph.
CyclesAreReal == \A c \in cycles : IsCycle(c)

\* The walk with the stack reaches what can be reached from the trigger, so the
\* "unreachable" warnings are right.
ReachesAll ==
  phase # "reach" /\ Cardinality(Triggers) = 1 => reached = From(Trigger)

\* A graph with any cycle yields one, wherever the search starts.
CyclicIsNoticed ==
  phase = "done" => (cycles # {} <=> Cyclic(UNION {From(i) : i \in NodeIds}))

\* The runtime on a published graph never comes to an unknown node: it has an
\* entry and all it can reach are nodes (RuntimeService.entryNodeId, run).
PublishedIsClosed ==
  Publishable => adj[Trigger] # <<>> /\ From(Trigger) \subseteq NodeIds

\* Validation ends, whatever cycles the graph has.
Terminates == <>(phase = "done")

\* "no cycle that is not an explicit loop" (the comment of validateGraph): with
\* the loop nodes taken out, a published graph has no cycle left.
PublishedHasNoBareCycle == Publishable => ~Cyclic({i \in NodeIds : ~IsLoop(i)})
=============================================================================
