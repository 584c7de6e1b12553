---------------------------- MODULE GraphsProofs ----------------------------
(***************************************************************************)
(* Proofs about what is drawn, saved and led along. WorkflowGraph, for any *)
(* node list and any edges: both walks compute what the reference          *)
(* definitions say. AgentTurns, AccessRights, AiGovernance, IvrMenus, Calls*)
(* and Knowledge, for any number of requests, people and nodes: the        *)
(* guardrails that hold whatever overlaps, the rights that never widen, the*)
(* policies in force, the menus that lead on, the calls that stay over, the*)
(* index that follows its article.                                         *)
(***************************************************************************)
EXTENDS MCGraphs, FiniteSetTheorems, SequenceTheorems, WellFoundedInduction, TLAPS

USE GraphAssumption

-----------------------------------------------------------------------------
(* What the list operations do to the elements of a list.                  *)

LEMMA PoppedIs ==
  ASSUME NEW s \in Seq(Ids), s # <<>>
  PROVE  /\ Popped(s) \in Seq(Ids) /\ Len(Popped(s)) = Len(s) - 1
         /\ \A k \in 1 .. Len(s) - 1 : Popped(s)[k] = s[k]
         /\ Len(s) \in Nat \ {0} /\ Top(s) \in Ids /\ Top(s) = s[Len(s)]
         /\ Elements(s) = Elements(Popped(s)) \cup {Top(s)}
<1>1. Len(s) \in Nat \ {0} /\ DOMAIN s = 1 .. Len(s) /\ \A k \in 1 .. Len(s) : s[k] \in Ids
  BY EmptySeq, LenProperties, ElementOfSeq
<1>2. /\ Popped(s) \in Seq(Ids) /\ Len(Popped(s)) = Len(s) - 1
      /\ \A k \in 1 .. Len(s) - 1 : Popped(s)[k] = s[k]
  <2>1. 1 \in Int /\ Len(s) - 1 \in Int /\ \A k \in 1 .. Len(s) - 1 : s[k] \in Ids
    BY <1>1
  <2> HIDE DEF Popped
  <2>2. /\ SubSeq(s, 1, Len(s) - 1) \in Seq(Ids)
        /\ Len(SubSeq(s, 1, Len(s) - 1)) = IF 1 <= Len(s) - 1 THEN Len(s) - 1 - 1 + 1 ELSE 0
        /\ \A k \in 1 .. Len(s) - 1 - 1 + 1 : SubSeq(s, 1, Len(s) - 1)[k] = s[1 + k - 1]
    BY <2>1, SubSeqProperties
  <2>3. \A k \in 1 .. Len(s) - 1 : SubSeq(s, 1, Len(s) - 1)[k] = s[k]
    <3> TAKE k \in 1 .. Len(s) - 1
    <3>1. k \in 1 .. Len(s) - 1 - 1 + 1 /\ 1 + k - 1 = k
      BY <1>1
    <3> QED BY <2>2, <3>1
  <2> QED BY <1>1, <2>2, <2>3 DEF Popped
<1>3. DOMAIN Popped(s) = 1 .. Len(s) - 1
  BY <1>2, LenProperties
<1> QED BY <1>1, <1>2, <1>3 DEF Elements, Top

LEMMA TailIs ==
  ASSUME NEW s \in Seq(Ids), s # <<>>
  PROVE  /\ Head(s) \in Ids /\ Tail(s) \in Seq(Ids)
         /\ Elements(s) = Elements(Tail(s)) \cup {Head(s)}
<1>1. Len(s) \in Nat \ {0} /\ DOMAIN s = 1 .. Len(s) /\ Head(s) = s[1]
  BY EmptySeq, LenProperties, HeadTailProperties
<1>2. /\ Head(s) \in Ids /\ Tail(s) \in Seq(Ids) /\ Len(Tail(s)) = Len(s) - 1
      /\ \A k \in 1 .. Len(Tail(s)) : Tail(s)[k] = s[k + 1]
      /\ DOMAIN Tail(s) = 1 .. Len(s) - 1
  BY HeadTailProperties, LenProperties
<1>3. ASSUME NEW k \in 1 .. Len(s), k # 1
      PROVE  k - 1 \in 1 .. Len(s) - 1 /\ Tail(s)[k - 1] = s[k]
  BY <1>1, <1>2, <1>3
<1>4. ASSUME NEW k \in 1 .. Len(s) - 1
      PROVE  k + 1 \in 1 .. Len(s) /\ Tail(s)[k] = s[k + 1]
  BY <1>1, <1>2
<1>5. DOMAIN s = 1 .. Len(s) /\ DOMAIN Tail(s) = 1 .. Len(s) - 1 /\ 1 \in 1 .. Len(s)
  BY <1>1, <1>2
<1>6. Elements(s) \subseteq Elements(Tail(s)) \cup {Head(s)}
  <2> SUFFICES ASSUME NEW k \in 1 .. Len(s) PROVE s[k] \in Elements(Tail(s)) \cup {Head(s)}
    BY <1>5 DEF Elements
  <2>1. CASE k = 1
    BY <1>1, <2>1
  <2>2. CASE k # 1
    <3>1. k - 1 \in DOMAIN Tail(s) /\ Tail(s)[k - 1] = s[k]
      BY <1>3, <1>5, <2>2
    <3> QED BY <3>1 DEF Elements
  <2> QED BY <2>1, <2>2
<1>7. Elements(Tail(s)) \cup {Head(s)} \subseteq Elements(s)
  BY <1>1, <1>4, <1>5 DEF Elements
<1> QED BY <1>2, <1>6, <1>7

LEMMA AppendIs ==
  ASSUME NEW s \in Seq(Ids), NEW i \in Ids
  PROVE  /\ Append(s, i) \in Seq(Ids) /\ Append(s, i) # <<>>
         /\ Len(Append(s, i)) = Len(s) + 1 /\ Len(s) \in Nat
         /\ \A k \in 1 .. Len(s) : Append(s, i)[k] = s[k]
         /\ Append(s, i)[Len(s) + 1] = i
         /\ Elements(Append(s, i)) = Elements(s) \cup {i}
<1>1. /\ Append(s, i) \in Seq(Ids) /\ Append(s, i) # <<>>
      /\ Len(Append(s, i)) = Len(s) + 1 /\ Len(s) \in Nat
      /\ \A k \in 1 .. Len(s) : Append(s, i)[k] = s[k]
      /\ Append(s, i)[Len(s) + 1] = i
  BY AppendProperties, LenProperties
<1>2. DOMAIN s = 1 .. Len(s) /\ DOMAIN Append(s, i) = 1 .. Len(s) + 1
  BY <1>1, LenProperties
<1> QED BY <1>1, <1>2 DEF Elements

LEMMA ConcatElements ==
  ASSUME NEW s \in Seq(Ids), NEW t \in Seq(Ids)
  PROVE  s \o t \in Seq(Ids) /\ Elements(s \o t) = Elements(s) \cup Elements(t)
<1>1. /\ s \o t \in Seq(Ids) /\ Len(s \o t) = Len(s) + Len(t)
      /\ \A i \in 1 .. Len(s) + Len(t) :
           (s \o t)[i] = IF i <= Len(s) THEN s[i] ELSE t[i - Len(s)]
  BY ConcatProperties
<1>2. /\ DOMAIN s = 1 .. Len(s) /\ DOMAIN t = 1 .. Len(t)
      /\ DOMAIN (s \o t) = 1 .. Len(s) + Len(t) /\ Len(s) \in Nat /\ Len(t) \in Nat
  BY <1>1, LenProperties
<1>3. ASSUME NEW k \in 1 .. Len(t) PROVE t[k] \in Elements(s \o t)
  <2>1. k + Len(s) \in 1 .. Len(s) + Len(t) /\ ~(k + Len(s) <= Len(s)) /\ k + Len(s) - Len(s) = k
    BY <1>2
  <2>2. (s \o t)[k + Len(s)] = t[k]
    BY <1>1, <2>1
  <2> QED BY <1>2, <2>1, <2>2 DEF Elements
<1>4. ASSUME NEW k \in 1 .. Len(s) PROVE s[k] \in Elements(s \o t)
  BY <1>1, <1>2 DEF Elements
<1>5. ASSUME NEW k \in 1 .. Len(s) + Len(t) PROVE (s \o t)[k] \in Elements(s) \cup Elements(t)
  <2>1. CASE k <= Len(s)
    <3>1. k \in 1 .. Len(s) /\ (s \o t)[k] = s[k]
      BY <1>1, <1>2, <2>1
    <3> QED BY <1>2, <3>1 DEF Elements
  <2>2. CASE ~(k <= Len(s))
    <3>1. k - Len(s) \in 1 .. Len(t) /\ (s \o t)[k] = t[k - Len(s)]
      BY <1>1, <1>2, <2>2
    <3> QED BY <1>2, <3>1 DEF Elements
  <2> QED BY <2>1, <2>2
<1> QED BY <1>1, <1>2, <1>3, <1>4, <1>5 DEF Elements

LEMMA EmptyElements == Elements(<<>>) = {}
  BY EmptySeq DEF Elements

LEMMA ElementsIds == ASSUME NEW s \in Seq(Ids) PROVE Elements(s) \subseteq Ids
  BY LenProperties, ElementOfSeq DEF Elements

LEMMA NonemptyHas == ASSUME NEW s \in Seq(Ids), s # <<>> PROVE Elements(s) # {}
  BY TailIs

-----------------------------------------------------------------------------
\* Every variable keeps its type.
LEMMA TriggerIsNode ==
  ASSUME nodes \in Seq(Node), Cardinality(Triggers) = 1
  PROVE  Trigger \in NodeIds /\ Trigger \in Ids
<1>1. Triggers # {}
  <2> SUFFICES ASSUME Triggers = {} PROVE Cardinality(Triggers) = 0
    OBVIOUS
  <2> QED BY FS_EmptySet
<1>2. (CHOOSE k \in Triggers : TRUE) \in DOMAIN nodes
  BY <1>1 DEF Triggers
<1>3. nodes[CHOOSE k \in Triggers : TRUE] \in Node
  BY <1>2, LenProperties, ElementOfSeq
<1> QED BY <1>2, <1>3 DEF Trigger, NodeIds, Node

LEMMA RootIsNode ==
  ASSUME nodes \in Seq(Node), NEW k \in Nat \ {0}, k <= Len(nodes)
  PROVE  nodes[k].id \in NodeIds /\ nodes[k].id \in Ids
<1>1. k \in DOMAIN nodes /\ k \in 1 .. Len(nodes)
  BY LenProperties
<1>2. nodes[k] \in Node
  BY <1>1, ElementOfSeq
<1> QED BY <1>1, <1>2 DEF NodeIds, Node

LEMMA SingletonSeq == ASSUME NEW i \in Ids PROVE <<i>> \in Seq(Ids)
  OBVIOUS

LEMMA ClosedByIs ==
  ASSUME path \in Seq(Ids), NEW i \in Ids
  PROVE  ClosedBy(i) \subseteq Seq(Ids)
<1> SUFFICES ASSUME NEW k \in DOMAIN path
             PROVE  SubSeq(path, k, Len(path)) \o <<i>> \in Seq(Ids)
  BY DEF ClosedBy
<1>1. k \in 1 .. Len(path) /\ Len(path) \in Nat
  BY LenProperties
<1>2. \A l \in k .. Len(path) : path[l] \in Ids
  BY <1>1, ElementOfSeq
<1>3. SubSeq(path, k, Len(path)) \in Seq(Ids)
  BY <1>1, <1>2, SubSeqProperties
<1> QED BY <1>3, SingletonSeq, ConcatProperties

THEOREM TypeCorrect == Spec => []TypeOK
<1>1. Init => TypeOK
  <2> SUFFICES ASSUME Init PROVE TypeOK
    OBVIOUS
  <2>1. nodes \in Seq(Node) /\ adj \in [Ids -> Seq(Ids)]
    BY DEF Init
  <2>2. stack \in Seq(Ids)
    BY <2>1, TriggerIsNode, SingletonSeq, EmptySeq DEF Init
  <2> QED BY <2>1, <2>2, EmptySeq DEF Init, TypeOK
<1>2. TypeOK /\ [Next]_vars => TypeOK'
  <2> SUFFICES ASSUME TypeOK, [Next]_vars PROVE TypeOK'
    OBVIOUS
  <2> USE DEF TypeOK, graph
  <2>1. CASE ReachNext
    <3>1. Popped(stack) \in Seq(Ids) /\ Top(stack) \in Ids
      BY <2>1, PoppedIs DEF ReachNext
    <3>2. Popped(stack) \o adj[Top(stack)] \in Seq(Ids)
      BY <3>1, ConcatElements
    <3>3. stack' \in Seq(Ids) /\ reached' \subseteq Ids
      BY <2>1, <3>1, <3>2 DEF ReachNext
    <3> QED BY <2>1, <3>3 DEF ReachNext
  <2>2. CASE ReachEnds
    BY <2>2 DEF ReachEnds
  <2>3. CASE VisitRoot
    <3>1. nodes[root].id \in Ids
      BY <2>3, RootIsNode DEF VisitRoot
    <3>2. Append(path, nodes[root].id) \in Seq(Ids)
      BY <3>1, AppendIs
    <3> DEFINE i == nodes[root].id
    <3>3. \/ mark' = [mark EXCEPT ![i] = "visiting"] /\ path' = Append(path, i) /\ root' = root
          \/ root' = root + 1 /\ UNCHANGED <<mark, path>>
      BY <2>3 DEF VisitRoot, Enter
    <3>4. UNCHANGED <<nodes, adj, phase, stack, reached, rest, cycles>>
      BY <2>3 DEF VisitRoot
    <3> HIDE DEF i
    <3>5. mark' \in [Ids -> {"new", "visiting", "done"}] /\ path' \in Seq(Ids)
      BY <3>1, <3>2, <3>3 DEF i
    <3>6. root' \in Nat \ {0}
      BY <3>3
    <3> QED BY <3>4, <3>5, <3>6
  <2>4. CASE Follow
    <3> DEFINE top == Top(path)  next == Head(rest[top])
    <3>1. top \in Ids /\ rest[top] \in Seq(Ids) /\ rest[top] # <<>>
      BY <2>4, PoppedIs DEF Follow
    <3>2. next \in Ids /\ Tail(rest[top]) \in Seq(Ids)
      BY <3>1, TailIs
    <3>3. Append(path, next) \in Seq(Ids) /\ ClosedBy(next) \subseteq Seq(Ids)
      BY <3>2, AppendIs, ClosedByIs
    <3>4. rest' = [rest EXCEPT ![top] = Tail(rest[top])]
      BY <2>4 DEF Follow
    <3>5. \/ UNCHANGED <<mark, path, cycles>>
          \/ cycles' = cycles \cup ClosedBy(next) /\ UNCHANGED <<mark, path>>
          \/ Enter(next) /\ UNCHANGED cycles
      BY <2>4 DEF Follow
    <3>6. UNCHANGED <<nodes, adj, phase, stack, reached, root>>
      BY <2>4 DEF Follow
    <3> HIDE DEF top, next
    <3> QED BY <3>1, <3>2, <3>3, <3>4, <3>5, <3>6 DEF Enter
  <2>5. CASE Leave
    <3>1. Popped(path) \in Seq(Ids) /\ Top(path) \in Ids
      BY <2>5, PoppedIs DEF Leave
    <3> QED BY <2>5, <3>1 DEF Leave
  <2>6. CASE VisitEnds
    BY <2>6 DEF VisitEnds
  <2>7. CASE UNCHANGED vars
    BY <2>7 DEF vars
  <2> QED BY <2>1, <2>2, <2>3, <2>4, <2>5, <2>6, <2>7 DEF Next
<1> QED BY <1>1, <1>2, PTL DEF Spec

-----------------------------------------------------------------------------
(* What can be reached.                                                    *)

LEMMA FromFacts ==
  ASSUME TypeOK, NEW i \in Ids
  PROVE  /\ i \in From(i) /\ From(i) \subseteq Ids
         /\ \A j \in From(i) : Elements(adj[j]) \subseteq From(i)
         /\ \A S \in SUBSET Ids : i \in S /\ Closed(S) => From(i) \subseteq S
<1>1. \A j \in Ids : Elements(adj[j]) \subseteq Ids
  BY ElementsIds DEF TypeOK
<1>2. ASSUME NEW j \in From(i), NEW k \in Elements(adj[j]) PROVE k \in From(i)
  BY <1>1 DEF From, Closed
<1> QED BY <1>2 DEF From

LEMMA GraphStays ==
  ASSUME UNCHANGED graph
  PROVE  /\ Triggers' = Triggers /\ Trigger' = Trigger /\ NodeIds' = NodeIds
         /\ \A i \in Ids : From(i)' = From(i)
         /\ \A S \in SUBSET Ids : Cyclic(S)' = Cyclic(S)
         /\ \A c : IsCycle(c)' = IsCycle(c)
  BY DEF graph, Triggers, Trigger, NodeIds, From, Closed, Elements, Cyclic, IsCycle

LEMMA NextKeepsGraph == ASSUME [Next]_vars PROVE UNCHANGED graph
  BY DEF Next, vars, graph, ReachNext, ReachEnds, VisitRoot, Follow, Leave, VisitEnds

(***************************************************************************)
(* The walk from the trigger: what is reached or on the stack contains the *)
(* trigger, is closed but for the stack, and can be reached.               *)
(***************************************************************************)
ReachInv ==
  Cardinality(Triggers) = 1 =>
    /\ Trigger \in reached \cup Elements(stack)
    /\ reached \cup Elements(stack) \subseteq From(Trigger)
    /\ \A i \in reached : Elements(adj[i]) \subseteq reached \cup Elements(stack)
    /\ phase # "reach" => stack = <<>>

LEMMA ReachInvHolds == Spec => []ReachInv
<1>1. Init => ReachInv
  <2> SUFFICES ASSUME Init, Cardinality(Triggers) = 1 PROVE ReachInv
    BY DEF ReachInv
  <2>1. nodes \in Seq(Node) /\ adj \in [Ids -> Seq(Ids)]
    BY DEF Init
  <2>2. TypeOK
    BY <2>1, TriggerIsNode, SingletonSeq, EmptySeq DEF Init, TypeOK
  <2>3. Trigger \in Ids /\ Trigger \in From(Trigger)
    BY <2>1, <2>2, TriggerIsNode, FromFacts
  <2>4. stack = <<Trigger>> /\ reached = {}
    BY DEF Init
  <2>5. Elements(stack) = {Trigger}
    BY <2>4 DEF Elements
  <2>6. phase = "reach"
    <3>1. nodes # <<>>
      BY <2>1, TriggerIsNode, EmptySeq DEF NodeIds
    <3> QED BY <3>1 DEF Init
  <2> QED BY <2>3, <2>4, <2>5, <2>6 DEF ReachInv
<1>2. TypeOK /\ ReachInv /\ [Next]_vars => ReachInv'
  <2> SUFFICES ASSUME TypeOK, ReachInv, [Next]_vars, Cardinality(Triggers) = 1 PROVE ReachInv'
    BY NextKeepsGraph, GraphStays DEF ReachInv
  <2>0. /\ Trigger' = Trigger /\ Trigger \in Ids /\ From(Trigger)' = From(Trigger)
        /\ adj' = adj
    BY NextKeepsGraph, GraphStays, TriggerIsNode DEF TypeOK, graph
  <2>1. CASE ReachNext
    <3> DEFINE top == Top(stack)
    <3>1. /\ top \in Ids /\ Popped(stack) \in Seq(Ids)
          /\ Elements(stack) = Elements(Popped(stack)) \cup {top}
      BY <2>1, PoppedIs DEF ReachNext, TypeOK
    <3>2. Elements(Popped(stack) \o adj[top]) = Elements(Popped(stack)) \cup Elements(adj[top])
      BY <3>1, ConcatElements DEF TypeOK
    <3>3. top \in From(Trigger) => Elements(adj[top]) \subseteq From(Trigger)
      BY <2>0, FromFacts
    <3>4. \/ top \in reached /\ stack' = Popped(stack) /\ reached' = reached
          \/ /\ stack' = Popped(stack) \o adj[top]
             /\ reached' = reached \cup {top}
      BY <2>1 DEF ReachNext
    <3>5. phase' = "reach"
      BY <2>1 DEF ReachNext
    <3> HIDE DEF top
    <3>6. CASE top \in reached /\ stack' = Popped(stack) /\ reached' = reached
      <4>1. Elements(stack') \cup reached' = Elements(stack) \cup reached
        BY <3>1, <3>6
      <4> QED BY <2>0, <3>5, <3>6, <4>1 DEF ReachInv, Elements
    <3>7. CASE stack' = Popped(stack) \o adj[top] /\ reached' = reached \cup {top}
      <4>1. Elements(stack') \cup reached' = Elements(stack) \cup reached \cup Elements(adj[top])
        BY <3>1, <3>2, <3>7
      <4>2. top \in From(Trigger)
        BY <3>1 DEF ReachInv
      <4>3. Elements(stack') \cup reached' \subseteq From(Trigger) /\ Trigger \in Elements(stack') \cup reached'
        BY <3>3, <4>1, <4>2 DEF ReachInv
      <4>4. ASSUME NEW i \in reached' PROVE Elements(adj[i]) \subseteq reached' \cup Elements(stack')
        BY <3>7, <4>1 DEF ReachInv
      <4> HIDE DEF Elements
      <4> QED BY <2>0, <3>5, <4>3, <4>4 DEF ReachInv
    <3> QED BY <3>4, <3>6, <3>7
  <2>2. CASE ReachEnds
    BY <2>0, <2>2 DEF ReachEnds, ReachInv
  <2>3. CASE VisitRoot \/ Follow \/ Leave \/ VisitEnds \/ UNCHANGED vars
    <3>1. UNCHANGED <<stack, reached>> /\ (phase' = phase \/ phase # "reach")
      BY <2>3 DEF VisitRoot, Follow, Leave, VisitEnds, vars
    <3> QED BY <2>0, <3>1 DEF ReachInv
  <2> QED BY <2>1, <2>2, <2>3 DEF Next
<1> QED BY <1>1, <1>2, TypeCorrect, PTL DEF Spec

\* The walk from the trigger reaches exactly what can be reached.
THEOREM ReachesAllHolds == Spec => []ReachesAll
<1>1. TypeOK /\ ReachInv => ReachesAll
  <2> SUFFICES ASSUME TypeOK, ReachInv, phase # "reach", Cardinality(Triggers) = 1
               PROVE  reached = From(Trigger)
    BY DEF ReachesAll
  <2>1. Trigger \in Ids
    BY TriggerIsNode DEF TypeOK
  <2>2. Elements(stack) = {}
    BY EmptyElements DEF ReachInv
  <2>3. reached \in SUBSET Ids /\ Closed(reached) /\ Trigger \in reached
    BY <2>2 DEF ReachInv, Closed, TypeOK
  <2> QED BY <2>1, <2>2, <2>3, FromFacts DEF ReachInv
<1> QED BY <1>1, TypeCorrect, ReachInvHolds, PTL

\* The runtime on a published graph has an entry that leads on, and all it can
\* come to are nodes: what Errors looks at node by node holds along every way.
THEOREM PublishedIsClosedHolds == Spec => []PublishedIsClosed
<1>1. TypeOK => PublishedIsClosed
  <2> SUFFICES ASSUME TypeOK, Publishable
               PROVE  adj[Trigger] # <<>> /\ From(Trigger) \subseteq NodeIds
    BY DEF PublishedIsClosed
  <2>1. Cardinality(Triggers) = 1 /\ ~Dangling /\ ~DeadTrigger
    BY Zenon DEF Publishable, Errors
  <2>2. Trigger \in NodeIds /\ Trigger \in Ids
    BY <2>1, TriggerIsNode DEF TypeOK
  <2>3. adj[Trigger] # <<>>
    <3>1. Triggers # {}
      BY <2>1, FS_EmptySet
    <3> QED BY <2>1, <3>1 DEF DeadTrigger, Trigger
  <2>4. NodeIds \subseteq Ids
    <3>1. ASSUME NEW k \in DOMAIN nodes PROVE nodes[k] \in Node
      BY LenProperties, ElementOfSeq DEF TypeOK
    <3> QED BY <3>1 DEF NodeIds, Node
  <2>5. ASSUME NEW i \in NodeIds PROVE Elements(adj[i]) \subseteq NodeIds
    <3>1. CASE adj[i] = <<>>
      BY <3>1 DEF Elements
    <3>2. CASE adj[i] # <<>>
      BY <2>1, <2>4, <3>2 DEF Dangling
    <3> QED BY <3>1, <3>2
  <2>6. Closed(NodeIds) /\ NodeIds \in SUBSET Ids
    BY <2>4, <2>5 DEF Closed
  <2> QED BY <2>2, <2>3, <2>6 DEF From
<1> QED BY <1>1, TypeCorrect, PTL

-----------------------------------------------------------------------------
(***************************************************************************)
(* The depth-first search: the ids being visited are those on the path,    *)
(* each once, and the path follows edges; what an id has yet to follow are *)
(* edges of its own, all of them before it is entered.                     *)
(***************************************************************************)
OnPath(i) == i \in Elements(path)

Distinct == \A k, l \in 1 .. Len(path) : path[k] = path[l] => k = l
Marked   == \A i \in Ids : mark[i] = "visiting" <=> OnPath(i)
Linked   == \A k \in 1 .. Len(path) - 1 : path[k + 1] \in Elements(adj[path[k]])
OwnEdges == \A i \in Ids : Elements(rest[i]) \subseteq Elements(adj[i])
NewFull  == \A i \in Ids : mark[i] = "new" => rest[i] = adj[i]

PathInv == Distinct /\ Marked /\ Linked /\ OwnEdges /\ NewFull /\ CyclesAreReal

\* What one step of the search does, told by its effect on the path.
Opens(i) ==
  /\ i \in Ids /\ mark[i] = "new"
  /\ mark' = [mark EXCEPT ![i] = "visiting"] /\ path' = Append(path, i)
  /\ cycles' = cycles
Follows(i) ==
  /\ path # <<>> /\ Elements(rest[Top(path)]) = Elements(rest'[Top(path)]) \cup {i}
  /\ rest' = [rest EXCEPT ![Top(path)] = rest'[Top(path)]]

LEMMA SearchSteps ==
  ASSUME TypeOK, [Next]_vars
  PROVE  \/ UNCHANGED <<mark, path, rest, cycles>>
         \/ \E i \in Ids : Opens(i) /\ path = <<>> /\ rest' = rest /\ i \in NodeIds
         \/ \E i \in Ids : /\ Follows(i)
                          /\ \/ Opens(i)
                             \/ mark[i] = "done" /\ UNCHANGED <<mark, path, cycles>>
                             \/ /\ mark[i] = "visiting" /\ UNCHANGED <<mark, path>>
                                /\ cycles' = cycles \cup ClosedBy(i)
         \/ Leave
<1>1. CASE ReachNext \/ ReachEnds \/ VisitEnds \/ UNCHANGED vars
  BY <1>1 DEF ReachNext, ReachEnds, VisitEnds, vars
<1>2. CASE VisitRoot
  <2>1. nodes[root].id \in Ids /\ nodes[root].id \in NodeIds
    BY <1>2, RootIsNode DEF VisitRoot, TypeOK
  <2>2. UNCHANGED <<rest, cycles>> /\ path = <<>>
    BY <1>2 DEF VisitRoot
  <2>3. CASE mark[nodes[root].id] = "new"
    <3>1. Opens(nodes[root].id)
      BY <1>2, <2>1, <2>2, <2>3 DEF VisitRoot, Enter, Opens
    <3> QED BY <2>1, <2>2, <3>1
  <2>4. CASE mark[nodes[root].id] # "new"
    BY <1>2, <2>2, <2>4 DEF VisitRoot
  <2> QED BY <2>3, <2>4
<1>3. CASE Follow
  <2> DEFINE top == Top(path)  i == Head(rest[top])
  <2>1. top \in Ids /\ rest[top] \in Seq(Ids) /\ rest[top] # <<>> /\ path # <<>>
    BY <1>3, PoppedIs DEF Follow, TypeOK
  <2>2. i \in Ids /\ Elements(rest[top]) = Elements(Tail(rest[top])) \cup {i}
    BY <2>1, TailIs
  <2>3. rest' = [rest EXCEPT ![top] = Tail(rest[top])]
    BY <1>3 DEF Follow
  <2>4. rest'[top] = Tail(rest[top])
    BY <2>1, <2>3 DEF TypeOK
  <2>5. Follows(i)
    BY <2>1, <2>2, <2>3, <2>4 DEF Follows
  <2>6. \/ mark[i] = "done" /\ UNCHANGED <<mark, path, cycles>>
        \/ /\ mark[i] = "visiting" /\ UNCHANGED <<mark, path>>
           /\ cycles' = cycles \cup ClosedBy(i)
        \/ mark[i] = "new" /\ Enter(i) /\ UNCHANGED cycles
    BY <1>3 DEF Follow
  <2> HIDE DEF i
  <2>7. mark[i] = "new" /\ Enter(i) /\ UNCHANGED cycles => Opens(i)
    BY <2>2 DEF Enter, Opens
  <2> QED BY <2>2, <2>5, <2>6, <2>7
<1> QED BY <1>1, <1>2, <1>3 DEF Next

\* A way back to an id of the path closes a real cycle of ids of the path.
LEMMA ClosedByIsCycle ==
  ASSUME TypeOK, PathInv, path # <<>>, NEW i \in Ids, i \in Elements(adj[Top(path)]), OnPath(i)
  PROVE  /\ ClosedBy(i) # {}
         /\ \A c \in ClosedBy(i) : c \in Seq(Ids) /\ IsCycle(c) /\ Elements(c) \subseteq Elements(path)
<1>0. path \in Seq(Ids) /\ DOMAIN path = 1 .. Len(path) /\ Len(path) \in Nat
  BY LenProperties DEF TypeOK
<1>1. ClosedBy(i) # {}
  BY DEF ClosedBy, OnPath, Elements
<1>2. ASSUME NEW k \in 1 .. Len(path), path[k] = i
      PROVE  LET c == SubSeq(path, k, Len(path)) \o <<i>>
             IN  c \in Seq(Ids) /\ IsCycle(c) /\ Elements(c) \subseteq Elements(path)
  <2> DEFINE sub == SubSeq(path, k, Len(path))  n == Len(path) - k + 1
             last == <<i>>  c == sub \o last
  <2>1. \A l \in k .. Len(path) : path[l] \in Ids
    BY <1>0, ElementOfSeq
  <2>2. k \in Int /\ Len(path) \in Int /\ n \in Nat \ {0} /\ k <= Len(path)
    BY <1>0
  <2>3. sub \in Seq(Ids) /\ Len(sub) = n /\ \A l \in 1 .. n : sub[l] = path[k + l - 1]
    BY <2>1, <2>2, SubSeqProperties
  <2> HIDE DEF sub, n
  <2>4. last \in Seq(Ids) /\ Len(last) = 1 /\ last[1] = i
    BY SingletonSeq
  <2> HIDE DEF last
  <2>c. /\ c \in Seq(Ids) /\ Len(c) = Len(sub) + Len(last)
        /\ \A l \in 1 .. Len(sub) + Len(last) :
             c[l] = IF l <= Len(sub) THEN sub[l] ELSE last[l - Len(sub)]
    BY <2>3, <2>4, ConcatProperties
  <2>5. /\ c \in Seq(Ids) /\ Len(c) = n + 1
        /\ \A l \in 1 .. n + 1 : c[l] = IF l <= n THEN sub[l] ELSE last[l - n]
    BY <2>3, <2>4, <2>c
  <2>6. \A l \in 1 .. n : c[l] = path[k + l - 1]
    BY <2>2, <2>3, <2>5
  <2>7. c[n + 1] = i
    BY <2>2, <2>4, <2>5
  <2>8. c[1] = i
    <3>1. 1 \in 1 .. n /\ k + 1 - 1 = k
      BY <2>2
    <3> QED BY <1>2, <2>6, <3>1
  <2> HIDE DEF c
  <2>9. ASSUME NEW l \in 1 .. n PROVE c[l + 1] \in Elements(adj[c[l]])
    <3>1. CASE l = n
      <4>1. c[l] = path[Len(path)]
        BY <2>2, <2>6, <3>1 DEF n
      <4> QED BY <2>7, <3>1, <4>1 DEF Top
    <3>2. CASE l # n
      <4>1. l + 1 \in 1 .. n /\ k + l - 1 \in 1 .. Len(path) - 1 /\ k + (l + 1) - 1 = (k + l - 1) + 1
        BY <1>0, <2>2, <3>2 DEF n
      <4>2. c[l] = path[k + l - 1] /\ c[l + 1] = path[(k + l - 1) + 1]
        BY <2>6, <4>1
      <4> QED BY <4>1, <4>2 DEF PathInv, Linked
    <3> QED BY <3>1, <3>2
  <2>10. IsCycle(c)
    BY <2>2, <2>5, <2>7, <2>8, <2>9 DEF IsCycle
  <2>11. ASSUME NEW l \in 1 .. n + 1 PROVE c[l] \in Elements(path)
    <3>1. CASE l = n + 1
      BY <2>7, <3>1 DEF OnPath
    <3>2. CASE l # n + 1
      <4>1. l \in 1 .. n /\ k + l - 1 \in 1 .. Len(path)
        BY <1>0, <2>2, <3>2 DEF n
      <4> QED BY <1>0, <2>6, <4>1 DEF Elements
    <3> QED BY <3>1, <3>2
  <2>12. Elements(c) \subseteq Elements(path)
    <3>1. DOMAIN c = 1 .. n + 1
      BY <2>5, LenProperties
    <3> QED BY <2>11, <3>1 DEF Elements
  <2> QED BY <2>5, <2>10, <2>12 DEF c, sub, last
<1> QED BY <1>0, <1>1, <1>2 DEF ClosedBy

\* What is left alone by a step that leaves its variables alone.
LEMMA PartsStay ==
  ASSUME adj' = adj, \A c : IsCycle(c)' = IsCycle(c)
  PROVE  /\ path' = path /\ Distinct => Distinct'
         /\ path' = path /\ mark' = mark /\ Marked => Marked'
         /\ path' = path /\ Linked => Linked'
         /\ rest' = rest /\ OwnEdges => OwnEdges'
         /\ rest' = rest /\ (\A j \in Ids : mark'[j] = "new" => mark[j] = "new") /\ NewFull => NewFull'
         /\ cycles' = cycles /\ CyclesAreReal => CyclesAreReal'
<1>1. path' = path /\ Distinct => Distinct'
  BY DEF Distinct
<1>2. path' = path /\ mark' = mark /\ Marked => Marked'
  BY DEF Marked, OnPath, Elements
<1>3. path' = path /\ Linked => Linked'
  BY DEF Linked, Elements
<1>4. rest' = rest /\ OwnEdges => OwnEdges'
  <2>1. ASSUME rest' = rest, OwnEdges PROVE \A j \in Ids : Elements(rest'[j]) \subseteq Elements(adj[j])
    <3> HIDE DEF Elements
    <3> QED BY <2>1 DEF OwnEdges
  <2>2. adj' = adj /\ (\A j \in Ids : Elements(rest'[j]) \subseteq Elements(adj[j])) => OwnEdges'
    BY DEF OwnEdges, Elements
  <2> QED BY <2>1, <2>2
<1>5. rest' = rest /\ (\A j \in Ids : mark'[j] = "new" => mark[j] = "new") /\ NewFull => NewFull'
  BY DEF NewFull
<1>6. cycles' = cycles /\ CyclesAreReal => CyclesAreReal'
  BY DEF CyclesAreReal
<1> QED BY <1>1, <1>2, <1>3, <1>4, <1>5, <1>6

LEMMA PathInvHolds == Spec => []PathInv
<1>1. Init => PathInv
  <2> SUFFICES ASSUME Init PROVE PathInv
    OBVIOUS
  <2>1. path = <<>> /\ Len(path) = 0 /\ Elements(path) = {} /\ cycles = {} /\ rest = adj
    BY EmptySeq, EmptyElements DEF Init
  <2> QED
    BY <2>1 DEF Init, PathInv, Distinct, Marked, Linked, OwnEdges, NewFull, OnPath, CyclesAreReal
<1>2. TypeOK /\ PathInv /\ [Next]_vars => PathInv'
  <2> SUFFICES ASSUME TypeOK, PathInv, [Next]_vars PROVE PathInv'
    OBVIOUS
  <2>g. adj' = adj /\ \A c : IsCycle(c)' = IsCycle(c)
    BY NextKeepsGraph, GraphStays DEF graph
  <2>t. path \in Seq(Ids) /\ Len(path) \in Nat /\ mark \in [Ids -> {"new", "visiting", "done"}]
        /\ rest \in [Ids -> Seq(Ids)] /\ DOMAIN path = 1 .. Len(path)
    BY LenProperties DEF TypeOK
  <2>p. Distinct /\ Marked /\ Linked /\ OwnEdges /\ NewFull /\ CyclesAreReal
    BY DEF PathInv
  \* Following an edge shortens only what the top has yet to follow.
  <2>f. ASSUME NEW i \in Ids, Follows(i)
        PROVE  /\ i \in Elements(adj[Top(path)]) /\ path # <<>> /\ OwnEdges'
               /\ \A j \in Ids : mark[j] = "new" => rest'[j] = adj[j]
    <3>1. Top(path) \in Ids /\ OnPath(Top(path)) /\ path # <<>>
      BY <2>f, <2>t, PoppedIs DEF Follows, OnPath
    <3>2. mark[Top(path)] = "visiting"
      BY <2>p, <3>1 DEF Marked
    <3>3. \A j \in Ids : j # Top(path) => rest'[j] = rest[j]
      BY <2>f, <2>t DEF Follows
    <3>4. Elements(rest[Top(path)]) = Elements(rest'[Top(path)]) \cup {i}
      BY <2>f DEF Follows
    <3>5. \A j \in Ids : Elements(rest'[j]) \subseteq Elements(adj[j])
      <4> HIDE DEF Elements
      <4> QED BY <2>p, <3>1, <3>3, <3>4 DEF OwnEdges
    <3>6. OwnEdges'
      BY <2>g, <3>5 DEF OwnEdges, Elements
    <3> HIDE DEF Elements
    <3> QED BY <2>p, <3>1, <3>2, <3>3, <3>4, <3>6 DEF OwnEdges, NewFull
  \* Entering an id lengthens the path by one new element.
  <2>o. ASSUME NEW i \in Ids, Opens(i), path # <<>> => i \in Elements(adj[Top(path)])
        PROVE  Distinct' /\ Marked' /\ Linked' /\ \A j \in Ids : mark'[j] = "new" => mark[j] = "new"
    <3>1. /\ Len(path') = Len(path) + 1 /\ path'[Len(path) + 1] = i
          /\ \A k \in 1 .. Len(path) : path'[k] = path[k]
          /\ Elements(path') = Elements(path) \cup {i}
      BY <2>o, <2>t, AppendIs DEF Opens
    <3>2. i \notin Elements(path)
      BY <2>o, <2>p DEF Opens, Marked, OnPath
    <3>3. \A k \in 1 .. Len(path) : path[k] # i
      BY <2>t, <3>2 DEF Elements
    <3>4. ASSUME NEW k \in 1 .. Len(path'), NEW l \in 1 .. Len(path'), path'[k] = path'[l]
          PROVE  k = l
      <4>1. CASE k \in 1 .. Len(path) /\ l \in 1 .. Len(path)
        BY <2>p, <3>1, <3>4, <4>1 DEF Distinct
      <4>2. CASE k = Len(path) + 1 /\ l \in 1 .. Len(path)
        BY <3>1, <3>3, <3>4, <4>2
      <4>3. CASE l = Len(path) + 1 /\ k \in 1 .. Len(path)
        BY <3>1, <3>3, <3>4, <4>3
      <4>4. CASE k = Len(path) + 1 /\ l = Len(path) + 1
        BY <4>4
      <4> QED BY <2>t, <3>1, <4>1, <4>2, <4>3, <4>4
    <3>5. \A j \in Ids : mark'[j] = IF j = i THEN "visiting" ELSE mark[j]
      BY <2>o, <2>t DEF Opens
    <3>6. ASSUME NEW k \in 1 .. Len(path') - 1 PROVE path'[k + 1] \in Elements(adj[path'[k]])
      <4>0. k \in 1 .. Len(path)
        BY <2>t, <3>1
      <4>1. CASE k = Len(path)
        <5>1. path # <<>> /\ path'[k] = Top(path) /\ path'[k + 1] = i
          BY <2>t, <3>1, <4>0, <4>1, EmptySeq DEF Top
        <5> QED BY <2>o, <5>1
      <4>2. CASE k # Len(path)
        <5>0. Len(path) \in Nat
          BY <2>t
        <5>1. k \in 1 .. Len(path) - 1 /\ k + 1 \in 1 .. Len(path)
          BY <4>0, <4>2, <5>0
        <5>2. path'[k] = path[k] /\ path'[k + 1] = path[k + 1]
          BY <3>1, <4>0, <5>1
        <5> QED BY <2>p, <5>1, <5>2 DEF Linked
      <4> QED BY <4>1, <4>2
    <3>7. Linked'
      BY <2>g, <3>6 DEF Linked, Elements
    <3> HIDE DEF Elements
    <3>8. \A j \in Ids : mark'[j] = "visiting" <=> j \in Elements(path')
      BY <2>p, <3>1, <3>5 DEF Marked, OnPath
    <3>9. Marked'
      BY <3>8 DEF Marked, OnPath, Elements
    <3> QED BY <3>4, <3>5, <3>7, <3>9 DEF Distinct
  <2>1. CASE UNCHANGED <<mark, path, rest, cycles>>
    BY <2>1, <2>g, <2>p, PartsStay DEF PathInv
  <2>2. CASE \E i \in Ids : Opens(i) /\ path = <<>> /\ rest' = rest /\ i \in NodeIds
    <3>1. PICK i \in Ids : Opens(i) /\ path = <<>> /\ rest' = rest
      BY <2>2
    <3>2. Distinct' /\ Marked' /\ Linked' /\ \A j \in Ids : mark'[j] = "new" => mark[j] = "new"
      BY <2>o, <3>1
    <3>3. CyclesAreReal' /\ OwnEdges' /\ NewFull'
      BY <2>g, <2>p, <3>1, <3>2, PartsStay DEF Opens
    <3> QED BY <3>2, <3>3 DEF PathInv
  <2>3. ASSUME NEW i \in Ids, Follows(i), Opens(i) PROVE PathInv'
    <3>1. Distinct' /\ Marked' /\ Linked' /\ \A j \in Ids : mark'[j] = "new" => mark[j] = "new"
      BY <2>f, <2>o, <2>3
    <3>2. OwnEdges' /\ NewFull'
      BY <2>g, <2>f, <2>3, <3>1 DEF NewFull
    <3>3. CyclesAreReal'
      BY <2>g, <2>p, <2>3 DEF CyclesAreReal, Opens
    <3> QED BY <3>1, <3>2, <3>3 DEF PathInv
  <2>4. ASSUME NEW i \in Ids, Follows(i), UNCHANGED <<mark, path>>,
               \/ cycles' = cycles
               \/ mark[i] = "visiting" /\ cycles' = cycles \cup ClosedBy(i)
        PROVE  PathInv'
    <3>1. CyclesAreReal'
      <4>1. CASE cycles' = cycles
        BY <2>g, <2>p, <4>1 DEF CyclesAreReal
      <4>2. CASE mark[i] = "visiting" /\ cycles' = cycles \cup ClosedBy(i)
        <5>1. OnPath(i)
          BY <2>p, <4>2 DEF Marked
        <5>2. \A c \in ClosedBy(i) : IsCycle(c)
          BY <2>f, <2>4, <5>1, ClosedByIsCycle
        <5> QED BY <2>g, <2>p, <4>2, <5>2 DEF CyclesAreReal
      <4> QED BY <2>4, <4>1, <4>2
    <3>2. OwnEdges' /\ NewFull'
      BY <2>g, <2>f, <2>4 DEF NewFull
    <3>3. Distinct' /\ Marked' /\ Linked'
      BY <2>g, <2>p, <2>4, PartsStay
    <3> QED BY <3>1, <3>2, <3>3 DEF PathInv
  <2>5. CASE Leave
    <3>1. /\ path' = Popped(path) /\ mark' = [mark EXCEPT ![Top(path)] = "done"]
          /\ UNCHANGED <<rest, cycles>> /\ path # <<>>
      BY <2>5 DEF Leave
    <3>2. /\ Len(path') = Len(path) - 1 /\ \A k \in 1 .. Len(path) - 1 : path'[k] = path[k]
          /\ Elements(path) = Elements(path') \cup {Top(path)} /\ Len(path) \in Nat \ {0}
          /\ Top(path) = path[Len(path)] /\ path' \in Seq(Ids) /\ Top(path) \in Ids
      BY <2>t, <3>1, PoppedIs
    <3>3. Top(path) \notin Elements(path')
      <4> SUFFICES ASSUME Top(path) \in Elements(path') PROVE FALSE
        OBVIOUS
      <4>1. DOMAIN path' = 1 .. Len(path) - 1
        BY <3>2, LenProperties
      <4>2. PICK k \in 1 .. Len(path) - 1 : path'[k] = Top(path)
        BY <4>1 DEF Elements
      <4>3. k \in 1 .. Len(path) /\ Len(path) \in 1 .. Len(path) /\ k # Len(path)
        BY <3>2
      <4> QED BY <2>p, <3>2, <4>2, <4>3 DEF Distinct
    <3>4. \A j \in Ids : mark'[j] = "visiting" <=> j \in Elements(path')
      <4>1. \A j \in Ids : mark[j] = "visiting" <=> j \in Elements(path)
        BY <2>p DEF Marked, OnPath
      <4> HIDE DEF Elements
      <4> QED BY <2>t, <3>1, <3>2, <3>3, <4>1
    <3>5. Distinct'
      <4> SUFFICES ASSUME NEW k \in 1 .. Len(path'), NEW l \in 1 .. Len(path'), path'[k] = path'[l]
                   PROVE  k = l
        BY DEF Distinct
      <4>1. /\ k \in 1 .. Len(path) - 1 /\ l \in 1 .. Len(path) - 1
            /\ k \in 1 .. Len(path) /\ l \in 1 .. Len(path)
        BY <3>2
      <4> QED BY <2>p, <3>2, <4>1 DEF Distinct
    <3>6. ASSUME NEW k \in 1 .. Len(path') - 1 PROVE path'[k + 1] \in Elements(adj[path'[k]])
      <4>1. k \in 1 .. Len(path) - 1 /\ k + 1 \in 1 .. Len(path) - 1
        BY <3>2
      <4>2. path'[k] = path[k] /\ path'[k + 1] = path[k + 1]
        BY <3>2, <4>1
      <4> QED BY <2>p, <4>1, <4>2 DEF Linked
    <3>7. Linked'
      BY <2>g, <3>6 DEF Linked, Elements
    <3>8. \A j \in Ids : mark'[j] = "new" => mark[j] = "new"
      BY <2>t, <3>1
    <3>9. CyclesAreReal' /\ OwnEdges' /\ NewFull'
      BY <2>g, <2>p, <3>1, <3>8, PartsStay
    <3>10. Marked'
      BY <3>4 DEF Marked, OnPath, Elements
    <3> QED BY <3>5, <3>7, <3>9, <3>10 DEF PathInv
  <2> QED BY <2>1, <2>2, <2>3, <2>4, <2>5, SearchSteps
<1> QED BY <1>1, <1>2, TypeCorrect, PTL DEF Spec

\* Every path findCycles returns is a way round in the graph.
THEOREM CyclesAreRealHolds == Spec => []CyclesAreReal
  BY PathInvHolds, PTL DEF PathInv

-----------------------------------------------------------------------------
(***************************************************************************)
(* What the search has seen: every edge is still to be followed or leads   *)
(* to an id seen, nothing of an id that is done is left to follow, and all *)
(* that is seen can be reached from a node.                                *)
(***************************************************************************)
Done  == {i \in Ids : mark[i] = "done"}
Seen  == {i \in Ids : mark[i] # "new"}
Start == UNION {From(i) : i \in NodeIds}

Drained    == \A i \in Ids : mark[i] = "done" => Elements(rest[i]) = {}
Followed   == \A i \in Ids : Elements(adj[i]) \subseteq Elements(rest[i]) \cup Seen
CyclesSeen == \A c \in cycles : Elements(c) \subseteq Seen
InStart    == Seen \subseteq Start

SeenInv == Drained /\ Followed /\ CyclesSeen /\ InStart

LEMMA StartClosed ==
  ASSUME TypeOK
  PROVE  \A i \in Start : i \in Ids /\ Elements(adj[i]) \subseteq Start
<1>1. \A i \in NodeIds : i \in Ids
  <2>1. \A k \in DOMAIN nodes : nodes[k] \in Node
    BY LenProperties, ElementOfSeq DEF TypeOK
  <2> QED BY <2>1 DEF NodeIds, Node
<1> HIDE DEF NodeIds, From, Elements
<1> QED BY <1>1, FromFacts DEF Start

LEMMA NodesInStart == ASSUME TypeOK, NEW i \in NodeIds, i \in Ids PROVE i \in Start
  BY FromFacts DEF Start

LEMMA SeenInvHolds == Spec => []SeenInv
<1>1. Init => SeenInv
  <2> SUFFICES ASSUME Init PROVE SeenInv
    OBVIOUS
  <2>1. Seen = {} /\ rest = adj /\ cycles = {} /\ \A i \in Ids : mark[i] = "new"
    BY DEF Init, Seen
  <2> QED BY <2>1 DEF SeenInv, Drained, Followed, CyclesSeen, InStart
<1>2. TypeOK /\ PathInv /\ SeenInv /\ [Next]_vars => SeenInv'
  <2> SUFFICES ASSUME TypeOK, PathInv, SeenInv, [Next]_vars PROVE SeenInv'
    OBVIOUS
  <2>g. adj' = adj /\ Start' = Start
    <3>1. NodeIds' = NodeIds /\ adj' = adj
      BY NextKeepsGraph, GraphStays DEF graph
    <3>2. \A S \in SUBSET Ids : Closed(S)' = Closed(S)
      BY <3>1 DEF Closed, Elements
    <3>3. \A i : From(i)' = From(i)
      BY <3>2 DEF From
    <3> QED BY <3>1, <3>3 DEF Start
  <2>t. path \in Seq(Ids) /\ mark \in [Ids -> {"new", "visiting", "done"}] /\ rest \in [Ids -> Seq(Ids)]
    BY DEF TypeOK
  <2>p. /\ Marked /\ OwnEdges /\ Drained /\ InStart /\ CyclesSeen
        /\ \A i \in Ids : Elements(adj[i]) \subseteq Elements(rest[i]) \cup Seen
    BY DEF PathInv, SeenInv, Followed
  \* The last element of the path is an id being visited.
  <2>top. ASSUME path # <<>> PROVE Top(path) \in Ids /\ OnPath(Top(path)) /\ mark[Top(path)] = "visiting"
    BY <2>t, <2>top, <2>p, PoppedIs DEF OnPath, Marked
  \* It is enough to look at what is seen and what is left to follow.
  <2>s. ASSUME Seen \subseteq Seen', Seen' \subseteq Start,
               \A j \in Ids : mark'[j] = "done" => Elements(rest'[j]) = {},
               \A j \in Ids : Elements(adj[j]) \subseteq Elements(rest'[j]) \cup Seen',
               \A c \in cycles' : Elements(c) \subseteq Seen'
        PROVE  SeenInv'
    <3>1. Drained'
      BY <2>s DEF Drained, Elements
    <3>2. Followed'
      <4>1. adj' = adj
        BY <2>g
      <4>2. \A j \in Ids : Elements(adj[j]) \subseteq Elements(rest'[j]) \cup Seen'
        BY <2>s
      <4> QED BY <4>1, <4>2 DEF Followed, Elements
    <3>3. CyclesSeen'
      BY <2>s DEF CyclesSeen, Elements
    <3>4. InStart'
      BY <2>g, <2>s DEF InStart
    <3> QED BY <3>1, <3>2, <3>3, <3>4 DEF SeenInv
  <2>1. CASE UNCHANGED <<mark, path, rest, cycles>>
    <3>1. Seen' = Seen
      BY <2>1 DEF Seen
    <3> HIDE DEF Elements
    <3> QED BY <2>1, <2>p, <2>s, <3>1 DEF Drained, CyclesSeen, InStart
  <2>2. CASE \E i \in Ids : Opens(i) /\ path = <<>> /\ rest' = rest /\ i \in NodeIds
    <3>1. PICK i \in Ids : Opens(i) /\ rest' = rest /\ i \in NodeIds
      BY <2>2
    <3>2. Seen' = Seen \cup {i} /\ cycles' = cycles /\ \A j \in Ids : mark'[j] = "done" => mark[j] = "done"
      BY <2>t, <3>1 DEF Opens, Seen
    <3>3. i \in Start
      BY <3>1, NodesInStart
    <3> HIDE DEF Elements
    <3> QED BY <2>p, <2>s, <3>1, <3>2, <3>3 DEF Drained, CyclesSeen, InStart
  <2>3. ASSUME NEW i \in Ids, Follows(i),
               \/ Opens(i)
               \/ mark[i] = "done" /\ UNCHANGED <<mark, path, cycles>>
               \/ /\ mark[i] = "visiting" /\ UNCHANGED <<mark, path>>
                  /\ cycles' = cycles \cup ClosedBy(i)
        PROVE  SeenInv'
    <3>1. /\ path # <<>> /\ Elements(rest[Top(path)]) = Elements(rest'[Top(path)]) \cup {i}
          /\ \A j \in Ids : j # Top(path) => rest'[j] = rest[j]
      BY <2>3, <2>t DEF Follows
    <3>2. Top(path) \in Ids /\ OnPath(Top(path)) /\ mark[Top(path)] = "visiting"
      BY <2>top, <3>1
    <3>3. Seen' = Seen \cup {i} /\ \A j \in Ids : mark'[j] = "done" => mark[j] = "done"
      BY <2>3, <2>t DEF Opens, Seen
    <3>4. i \in Elements(adj[Top(path)])
      BY <2>p, <3>1, <3>2 DEF OwnEdges
    <3>5. i \in Start
      <4>1. Top(path) \in Start
        BY <2>p, <3>2 DEF InStart, Seen
      <4> QED BY <3>4, <4>1, StartClosed
    <3>6. \A c \in cycles' : Elements(c) \subseteq Seen'
      <4>1. CASE cycles' = cycles
        <5> HIDE DEF Elements
        <5> QED BY <2>p, <3>3, <4>1 DEF CyclesSeen
      <4>2. CASE mark[i] = "visiting" /\ cycles' = cycles \cup ClosedBy(i)
        <5>1. OnPath(i)
          BY <2>p, <4>2 DEF Marked
        <5>2. \A c \in ClosedBy(i) : Elements(c) \subseteq Elements(path)
          BY <3>1, <3>4, <5>1, ClosedByIsCycle
        <5>3. \A j \in Elements(path) : j \in Ids
          BY <2>t, ElementsIds
        <5>4. Elements(path) \subseteq Seen
          BY <2>p, <5>3 DEF Marked, OnPath, Seen
        <5> HIDE DEF Elements
        <5> QED BY <2>p, <3>3, <4>2, <5>2, <5>4 DEF CyclesSeen
      <4> QED BY <2>3, <4>1, <4>2 DEF Opens
    <3>7. \A j \in Ids : Elements(adj[j]) \subseteq Elements(rest'[j]) \cup Seen'
      <4> HIDE DEF Elements
      <4> QED BY <2>p, <3>1, <3>2, <3>3
    <3>8. \A j \in Ids : mark'[j] = "done" => Elements(rest'[j]) = {}
      <4> HIDE DEF Elements
      <4> QED BY <2>p, <3>1, <3>2, <3>3 DEF Drained
    <3>9. Seen \subseteq Seen' /\ Seen' \subseteq Start
      BY <2>p, <3>3, <3>5 DEF InStart
    <3> QED BY <2>s, <3>6, <3>7, <3>8, <3>9
  <2>4. CASE Leave
    <3>1. /\ path # <<>> /\ rest[Top(path)] = <<>> /\ mark' = [mark EXCEPT ![Top(path)] = "done"]
          /\ UNCHANGED <<rest, cycles>>
      BY <2>4 DEF Leave
    <3>2. Top(path) \in Ids /\ mark[Top(path)] = "visiting"
      BY <2>top, <3>1
    <3>3. Seen' = Seen
      BY <2>t, <3>1, <3>2 DEF Seen
    <3>4. Elements(rest[Top(path)]) = {}
      BY <3>1, EmptyElements
    <3>5. \A j \in Ids : mark'[j] = "done" => j = Top(path) \/ mark[j] = "done"
      BY <2>t, <3>1
    <3> HIDE DEF Elements
    <3> QED BY <2>p, <2>s, <3>1, <3>3, <3>4, <3>5 DEF Drained, CyclesSeen, InStart
  <2> QED BY <2>1, <2>2, <2>3, <2>4, SearchSteps
<1> QED BY <1>1, <1>2, TypeCorrect, PathInvHolds, PTL DEF Spec

-----------------------------------------------------------------------------
(***************************************************************************)
(* While no cycle was found, what is done leads only to what is done and   *)
(* holds no cycle, and an id of the path has followed its edges only to    *)
(* what is done and to the next id of the path.                            *)
(***************************************************************************)
DoneClosed == \A i \in Done : Elements(adj[i]) \subseteq Done
NoCycle    == ~Cyclic(Done)
InnerEdges ==
  \A k \in 1 .. Len(path) - 1 : Elements(adj[path[k]]) \subseteq Elements(rest[path[k]]) \cup Done \cup {path[k + 1]}
TopEdges   == path # <<>> => Elements(adj[Top(path)]) \subseteq Elements(rest[Top(path)]) \cup Done

AcyclicInv == cycles = {} => DoneClosed /\ NoCycle /\ InnerEdges /\ TopEdges

\* An id without a way to itself adds no cycle to a closed set without one.
LEMMA OneMore ==
  ASSUME NEW S \in SUBSET Ids, \A i \in S : Elements(adj[i]) \subseteq S, ~Cyclic(S),
         NEW t \in Ids, t \notin S, Elements(adj[t]) \subseteq S
  PROVE  ~Cyclic(S \cup {t})
<1> HIDE DEF Elements
<1> SUFFICES ASSUME NEW D \in SUBSET (S \cup {t}), D # {}, \A i \in D : Elements(adj[i]) \cap D # {}
             PROVE  Cyclic(S)
  BY DEF Cyclic
<1>1. \A i \in D \cap S : Elements(adj[i]) \cap (D \cap S) # {}
  OBVIOUS
<1>2. D \cap S # {}
  OBVIOUS
<1>3. D \cap S \in SUBSET S
  OBVIOUS
<1> QED BY <1>1, <1>2, <1>3 DEF Cyclic

LEMMA AcyclicInvHolds == Spec => []AcyclicInv
<1>1. Init => AcyclicInv
  <2> SUFFICES ASSUME Init PROVE AcyclicInv
    OBVIOUS
  <2>1. Done = {} /\ path = <<>> /\ Len(path) = 0
    BY EmptySeq DEF Init, Done
  <2>2. ~Cyclic(Done)
    BY <2>1 DEF Cyclic
  <2> QED BY <2>1, <2>2 DEF AcyclicInv, DoneClosed, NoCycle, InnerEdges, TopEdges
<1>2. TypeOK /\ PathInv /\ AcyclicInv /\ [Next]_vars => AcyclicInv'
  <2> SUFFICES ASSUME TypeOK, PathInv, AcyclicInv, [Next]_vars, cycles' = {} PROVE AcyclicInv'
    BY DEF AcyclicInv
  <2>g. adj' = adj
    BY NextKeepsGraph DEF graph
  <2>t. /\ path \in Seq(Ids) /\ mark \in [Ids -> {"new", "visiting", "done"}] /\ rest \in [Ids -> Seq(Ids)]
        /\ Len(path) \in Nat /\ DOMAIN path = 1 .. Len(path) /\ \A k \in 1 .. Len(path) : path[k] \in Ids
    BY LenProperties, ElementOfSeq DEF TypeOK
  <2>p. Distinct /\ Marked /\ OwnEdges /\ NewFull
    BY DEF PathInv
  <2>c. cycles = {}
    <3>1. ASSUME NEW i \in Ids PROVE cycles \subseteq cycles \cup ClosedBy(i)
      OBVIOUS
    <3>2. cycles \subseteq cycles'
      BY SearchSteps DEF Opens, Leave
    <3> QED BY <3>2
  <2>a. DoneClosed /\ NoCycle /\ InnerEdges /\ TopEdges
    BY <2>c DEF AcyclicInv
  <2>top. ASSUME path # <<>>
          PROVE  /\ Top(path) = path[Len(path)] /\ Len(path) \in 1 .. Len(path)
                 /\ Top(path) \in Ids /\ OnPath(Top(path)) /\ mark[Top(path)] = "visiting"
    BY <2>t, <2>top, <2>p, PoppedIs DEF OnPath, Marked
  <2>n. Len(path) \in Nat
    BY <2>t
  \* The four parts, said of what the step leaves.
  <2>s. ASSUME \A j \in Done' : Elements(adj[j]) \subseteq Done', ~Cyclic(Done'),
               \A k \in 1 .. Len(path') - 1 :
                 Elements(adj[path'[k]]) \subseteq Elements(rest'[path'[k]]) \cup Done' \cup {path'[k + 1]},
               path' # <<>> => Elements(adj[Top(path')]) \subseteq Elements(rest'[Top(path')]) \cup Done'
        PROVE  AcyclicInv'
    <3>1. DoneClosed'
      BY <2>g, <2>s DEF DoneClosed, Elements
    <3>2. NoCycle'
      <4>1. ~(\E D \in SUBSET Done' : D # {} /\ \A i \in D : Elements(adj[i]) \cap D # {})
        BY <2>s DEF Cyclic
      <4>2. Cyclic(Done)' <=> \E D \in SUBSET Done' : D # {} /\ \A i \in D : Elements(adj'[i]) \cap D # {}
        BY DEF Cyclic, Elements
      <4>3. ~Cyclic(Done)'
        BY <2>g, <4>1, <4>2
      <4> QED BY <4>3 DEF NoCycle
    <3>3. InnerEdges'
      BY <2>g, <2>s DEF InnerEdges, Elements
    <3>4. TopEdges'
      BY <2>g, <2>s DEF TopEdges, Elements, Top
    <3> QED BY <3>1, <3>2, <3>3, <3>4 DEF AcyclicInv
  <2>1. CASE UNCHANGED <<mark, path, rest, cycles>>
    <3>1. Done' = Done
      BY <2>1 DEF Done
    <3> HIDE DEF Elements, Top
    <3> QED BY <2>1, <2>a, <2>s, <3>1 DEF DoneClosed, NoCycle, InnerEdges, TopEdges
  <2>2. CASE \E i \in Ids : Opens(i) /\ path = <<>> /\ rest' = rest /\ i \in NodeIds
    <3>1. PICK i \in Ids : Opens(i) /\ path = <<>> /\ rest' = rest
      BY <2>2
    <3>2. Done' = Done
      BY <2>t, <3>1 DEF Opens, Done
    <3>3. Len(path') = 1 /\ Top(path') = i
      <4>1. path' = Append(path, i) /\ Len(path) = 0
        BY <3>1, EmptySeq DEF Opens
      <4> QED BY <2>t, <4>1, AppendIs DEF Top
    <3>4. rest'[i] = adj[i]
      BY <2>p, <3>1 DEF NewFull, Opens
    <3>5. Elements(adj[Top(path')]) \subseteq Elements(rest'[Top(path')]) \cup Done'
      BY <3>3, <3>4
    <3>6. 1 .. Len(path') - 1 = {}
      BY <3>3
    <3> HIDE DEF Elements, Top
    <3> QED BY <2>a, <2>s, <3>2, <3>5, <3>6 DEF DoneClosed, NoCycle
  <2>3. ASSUME NEW i \in Ids, Follows(i),
               \/ Opens(i)
               \/ mark[i] = "done" /\ UNCHANGED <<mark, path, cycles>>
               \/ /\ mark[i] = "visiting" /\ UNCHANGED <<mark, path>>
                  /\ cycles' = cycles \cup ClosedBy(i)
        PROVE  AcyclicInv'
    <3>1. /\ path # <<>> /\ Elements(rest[Top(path)]) = Elements(rest'[Top(path)]) \cup {i}
          /\ \A j \in Ids : j # Top(path) => rest'[j] = rest[j]
      BY <2>3, <2>t DEF Follows
    <3>2. /\ Top(path) = path[Len(path)] /\ Len(path) \in 1 .. Len(path)
          /\ Top(path) \in Ids /\ mark[Top(path)] = "visiting"
      BY <2>top, <3>1
    <3>3. i \in Elements(adj[Top(path)])
      BY <2>p, <3>1, <3>2 DEF OwnEdges
    <3>4. ~(mark[i] = "visiting" /\ cycles' = cycles \cup ClosedBy(i))
      <4> SUFFICES ASSUME mark[i] = "visiting", cycles' = cycles \cup ClosedBy(i) PROVE FALSE
        OBVIOUS
      <4>1. OnPath(i)
        BY <2>p DEF Marked
      <4>2. ClosedBy(i) # {}
        BY <3>1, <3>3, <4>1, ClosedByIsCycle
      <4> QED BY <4>2
    \* Only the top has followed an edge.
    <3>5. \A k \in 1 .. Len(path) - 1 : path[k] \in Ids /\ path[k] # Top(path) /\ rest'[path[k]] = rest[path[k]]
      <4> TAKE k \in 1 .. Len(path) - 1
      <4>1. k \in 1 .. Len(path) /\ k # Len(path)
        BY <2>n
      <4>2. path[k] # Top(path) /\ path[k] \in Ids
        BY <2>t, <2>p, <3>2, <4>1 DEF Distinct
      <4> QED BY <3>1, <4>2
    <3>6. CASE mark[i] = "done" /\ UNCHANGED <<mark, path, cycles>>
      <4>1. Done' = Done /\ i \in Done /\ path' = path
        BY <3>6 DEF Done
      <4> HIDE DEF Elements, Top
      <4>2. path # <<>> => Elements(adj[Top(path)]) \subseteq Elements(rest'[Top(path)]) \cup Done
        BY <2>a, <3>1, <4>1 DEF TopEdges
      <4>3. \A k \in 1 .. Len(path) - 1 :
              Elements(adj[path[k]]) \subseteq Elements(rest'[path[k]]) \cup Done \cup {path[k + 1]}
        BY <2>a, <3>5 DEF InnerEdges
      <4> QED BY <2>a, <2>s, <4>1, <4>2, <4>3 DEF DoneClosed, NoCycle
    <3>7. CASE Opens(i)
      <4>1. /\ path' = Append(path, i) /\ Len(path') = Len(path) + 1 /\ path'[Len(path) + 1] = i
            /\ \A k \in 1 .. Len(path) : path'[k] = path[k]
        BY <2>t, <3>7, AppendIs DEF Opens
      <4>2. Done' = Done /\ mark[i] = "new"
        BY <2>t, <3>7 DEF Opens, Done
      <4>3. Top(path') = i /\ rest'[i] = adj[i]
        <5>1. i # Top(path)
          BY <3>2, <4>2
        <5> QED BY <2>p, <3>1, <4>1, <4>2, <5>1 DEF NewFull, Top
      <4>4. Elements(adj[Top(path')]) \subseteq Elements(rest'[Top(path')]) \cup Done'
        BY <4>3
      <4>5. ASSUME NEW k \in 1 .. Len(path') - 1
            PROVE  Elements(adj[path'[k]]) \subseteq Elements(rest'[path'[k]]) \cup Done' \cup {path'[k + 1]}
        <5>0. k \in 1 .. Len(path) /\ path'[k] = path[k]
          BY <2>t, <4>1
        <5>1. CASE k = Len(path)
          <6>1. path'[k] = Top(path) /\ path'[k + 1] = i
            BY <3>2, <4>1, <5>0, <5>1
          <6> HIDE DEF Elements, Top
          <6> QED BY <2>a, <3>1, <4>2, <6>1 DEF TopEdges
        <5>2. CASE k # Len(path)
          <6>0. k \in 1 .. Len(path)
            BY <5>0
          <6>1. k \in 1 .. Len(path) - 1 /\ k + 1 \in 1 .. Len(path)
            BY <2>n, <6>0, <5>2
          <6>2. path'[k + 1] = path[k + 1] /\ rest'[path[k]] = rest[path[k]]
            BY <3>5, <4>1, <6>1
          <6> HIDE DEF Elements, Top
          <6> QED BY <2>a, <4>2, <5>0, <6>1, <6>2 DEF InnerEdges
        <5> QED BY <5>1, <5>2
      <4> HIDE DEF Elements, Top
      <4> QED BY <2>a, <2>s, <4>2, <4>4, <4>5 DEF DoneClosed, NoCycle
    <3> QED BY <2>3, <3>4, <3>6, <3>7
  <2>4. CASE Leave
    <3>1. /\ path # <<>> /\ rest[Top(path)] = <<>> /\ mark' = [mark EXCEPT ![Top(path)] = "done"]
          /\ path' = Popped(path) /\ UNCHANGED <<rest, cycles>>
      BY <2>4 DEF Leave
    <3>2. Top(path) \in Ids /\ mark[Top(path)] = "visiting" /\ Top(path) = path[Len(path)]
      BY <2>top, <3>1
    <3>3. /\ Len(path') = Len(path) - 1 /\ \A k \in 1 .. Len(path) - 1 : path'[k] = path[k]
          /\ path' \in Seq(Ids)
      BY <2>t, <3>1, PoppedIs
    <3>4. Done' = Done \cup {Top(path)} /\ Top(path) \notin Done
      BY <2>t, <3>1, <3>2 DEF Done
    <3>5. Elements(adj[Top(path)]) \subseteq Done
      BY <2>a, <3>1, EmptyElements DEF TopEdges
    <3>6. ~Cyclic(Done')
      <4>1. Done \in SUBSET Ids
        BY DEF Done
      <4>2. ~Cyclic(Done \cup {Top(path)})
        BY <2>a, <3>2, <3>4, <3>5, <4>1, OneMore DEF DoneClosed, NoCycle
      <4> QED BY <3>4, <4>2
    <3>7. \A j \in Done' : Elements(adj[j]) \subseteq Done'
      <4> HIDE DEF Elements
      <4> QED BY <2>a, <3>4, <3>5 DEF DoneClosed
    <3>8. ASSUME NEW k \in 1 .. Len(path') - 1
          PROVE  Elements(adj[path'[k]]) \subseteq Elements(rest'[path'[k]]) \cup Done' \cup {path'[k + 1]}
      <4>1. k \in 1 .. Len(path) - 1 /\ k + 1 \in 1 .. Len(path) - 1
        BY <2>t, <3>3
      <4>2. path'[k] = path[k] /\ path'[k + 1] = path[k + 1]
        BY <3>3, <4>1
      <4> HIDE DEF Elements
      <4> QED BY <2>a, <3>1, <3>4, <4>1, <4>2 DEF InnerEdges
    <3>9. path' # <<>> => Elements(adj[Top(path')]) \subseteq Elements(rest'[Top(path')]) \cup Done'
      <4> SUFFICES ASSUME path' # <<>> PROVE Elements(adj[Top(path')]) \subseteq Elements(rest'[Top(path')]) \cup Done'
        OBVIOUS
      <4>1. Len(path') \in Nat \ {0} /\ Top(path') = path'[Len(path')]
        BY <3>3, PoppedIs
      <4>2. Len(path) - 1 \in 1 .. Len(path) - 1 /\ (Len(path) - 1) + 1 = Len(path)
        BY <2>t, <3>3, <4>1
      <4>3. Top(path') = path[Len(path) - 1]
        BY <3>3, <4>1, <4>2
      <4>4. Elements(adj[path[Len(path) - 1]]) \subseteq
              Elements(rest[path[Len(path) - 1]]) \cup Done \cup {path[Len(path)]}
        BY <2>a, <4>2 DEF InnerEdges
      <4> HIDE DEF Elements, Top
      <4> QED BY <3>1, <3>2, <3>4, <4>3, <4>4
    <3> HIDE DEF Elements, Top
    <3> QED BY <2>s, <3>6, <3>7, <3>8, <3>9
  <2> QED BY <2>1, <2>2, <2>3, <2>4, SearchSteps
<1> QED BY <1>1, <1>2, TypeCorrect, PathInvHolds, PTL DEF Spec

-----------------------------------------------------------------------------
\* The roots taken so far are done, and the search ends when all were taken.
RootInv ==
  /\ \A k \in 1 .. Len(nodes) : k < root => mark[nodes[k].id] = "done"
  /\ phase = "done" => path = <<>> /\ root > Len(nodes)

LEMMA RootInvHolds == Spec => []RootInv
<1>1. Init => RootInv
  <2> SUFFICES ASSUME Init PROVE RootInv
    OBVIOUS
  <2>1. path = <<>> /\ root = 1 /\ (phase = "done" => nodes = <<>>)
    BY DEF Init
  <2>2. nodes \in Seq(Node) /\ Len(nodes) \in Nat /\ (nodes = <<>> => Len(nodes) = 0)
    BY EmptySeq, LenProperties DEF Init
  <2> QED BY <2>1, <2>2 DEF RootInv
<1>2. TypeOK /\ PathInv /\ RootInv /\ [Next]_vars => RootInv'
  <2> SUFFICES ASSUME TypeOK, PathInv, RootInv, [Next]_vars PROVE RootInv'
    OBVIOUS
  <2>0. nodes' = nodes
    BY NextKeepsGraph DEF graph
  <2>1. \A k \in 1 .. Len(nodes) : nodes[k].id \in Ids
    <3>1. Len(nodes) \in Nat
      BY LenProperties DEF TypeOK
    <3> TAKE k \in 1 .. Len(nodes)
    <3>2. k \in Nat \ {0} /\ k <= Len(nodes)
      BY <3>1
    <3> QED BY <3>2, RootIsNode DEF TypeOK
  <2>m. mark \in [Ids -> {"new", "visiting", "done"}] /\ root \in Nat \ {0} /\ Len(nodes) \in Nat
    BY LenProperties DEF TypeOK
  <2>2. CASE ReachNext \/ ReachEnds \/ VisitEnds \/ UNCHANGED vars
    BY <2>0, <2>2 DEF ReachNext, ReachEnds, VisitEnds, vars, RootInv
  <2>3. CASE VisitRoot
    <3>1. /\ path = <<>> /\ root <= Len(nodes) /\ phase' = "visit"
          /\ \/ mark' = [mark EXCEPT ![nodes[root].id] = "visiting"] /\ root' = root /\ mark[nodes[root].id] = "new"
             \/ root' = root + 1 /\ mark' = mark /\ mark[nodes[root].id] # "new"
      BY <2>3 DEF VisitRoot, Enter
    <3>2. root \in 1 .. Len(nodes)
      BY <2>m, <3>1
    <3>3. mark[nodes[root].id] # "visiting"
      <4>1. Elements(path) = {}
        BY <3>1, EmptyElements
      <4> QED BY <2>1, <3>2, <4>1 DEF PathInv, Marked, OnPath
    <3>4. CASE mark' = [mark EXCEPT ![nodes[root].id] = "visiting"] /\ root' = root /\ mark[nodes[root].id] = "new"
      BY <2>0, <2>1, <2>m, <3>1, <3>2, <3>4 DEF RootInv
    <3>5. CASE root' = root + 1 /\ mark' = mark /\ mark[nodes[root].id] # "new"
      <4>1. mark[nodes[root].id] = "done"
        BY <2>1, <2>m, <3>2, <3>3, <3>5
      <4>2. \A k \in 1 .. Len(nodes) : k < root + 1 => k < root \/ k = root
        BY <2>m
      <4> QED BY <2>0, <3>1, <3>5, <4>1, <4>2 DEF RootInv
    <3> QED BY <3>1, <3>4, <3>5
  <2>4. CASE Follow
    <3>1. UNCHANGED <<phase, root>> /\ phase = "visit"
      BY <2>4 DEF Follow
    <3>2. \A i \in Ids : mark[i] = "done" => mark'[i] = "done"
      BY <2>m, SearchSteps DEF Opens, Leave
    <3> QED BY <2>0, <2>1, <3>1, <3>2 DEF RootInv
  <2>5. CASE Leave
    <3>1. UNCHANGED <<phase, root>> /\ phase = "visit" /\ mark' = [mark EXCEPT ![Top(path)] = "done"]
      BY <2>5 DEF Leave
    <3> QED BY <2>0, <2>1, <2>m, <3>1 DEF RootInv
  <2> QED BY <2>2, <2>3, <2>4, <2>5 DEF Next
<1> QED BY <1>1, <1>2, TypeCorrect, PathInvHolds, PTL DEF Spec

\* The ids of a cycle, as a set, have no way out of the set only.
LEMMA CycleIsCyclic ==
  ASSUME NEW c \in Seq(Ids), IsCycle(c), NEW S, Elements(c) \subseteq S
  PROVE  Cyclic(S)
<1>1. Len(c) \in Nat /\ DOMAIN c = 1 .. Len(c) /\ Len(c) > 1
  BY LenProperties DEF IsCycle
<1>n. Len(c) \in Nat /\ Len(c) > 1
  BY <1>1
<1>2. c[1] \in Elements(c)
  <2>1. 1 \in 1 .. Len(c)
    BY <1>n
  <2> QED BY <1>1, <2>1 DEF Elements
<1>3. ASSUME NEW k \in 1 .. Len(c) PROVE Elements(adj[c[k]]) \cap Elements(c) # {}
  <2>1. PICK l \in 1 .. Len(c) - 1 : c[l] = c[k]
    <3>1. CASE k = Len(c)
      <4>1. 1 \in 1 .. Len(c) - 1 /\ c[1] = c[k]
        BY <1>n, <3>1 DEF IsCycle
      <4> QED BY <4>1
    <3>2. CASE k # Len(c)
      <4>1. k \in 1 .. Len(c) - 1
        BY <1>n, <3>2
      <4> QED BY <4>1
    <3> QED BY <3>1, <3>2
  <2>2. l + 1 \in 1 .. Len(c)
    BY <1>n
  <2>3. c[l + 1] \in Elements(adj[c[l]])
    BY DEF IsCycle
  <2>4. c[l + 1] \in Elements(c)
    BY <1>1, <2>2 DEF Elements
  <2> QED BY <2>1, <2>3, <2>4
<1>4. \A i \in Elements(c) : Elements(adj[i]) \cap Elements(c) # {}
  <2> TAKE i \in Elements(c)
  <2>1. PICK k \in 1 .. Len(c) : i = c[k]
    BY <1>1 DEF Elements
  <2> QED BY <1>3, <2>1
<1> HIDE DEF Elements
<1> QED BY <1>2, <1>4 DEF Cyclic

\* A graph with any cycle yields one, wherever the search starts.
THEOREM CyclicIsNoticedHolds == Spec => []CyclicIsNoticed
<1>1. TypeOK /\ PathInv /\ SeenInv /\ AcyclicInv /\ RootInv => CyclicIsNoticed
  <2> SUFFICES ASSUME TypeOK, PathInv, SeenInv, AcyclicInv, RootInv, phase = "done"
               PROVE  cycles # {} <=> Cyclic(Start)
    BY DEF CyclicIsNoticed, Start
  <2>1. path = <<>> /\ Elements(path) = {} /\ root > Len(nodes)
    BY EmptyElements DEF RootInv
  <2>2. Seen = Done /\ Done \in SUBSET Ids
    BY <2>1 DEF PathInv, Marked, OnPath, Seen, Done, TypeOK
  <2>3. \A i \in Done : Elements(adj[i]) \subseteq Done
    <3> HIDE DEF Elements
    <3> QED BY <2>2 DEF SeenInv, Followed, Drained, Done
  <2>4. \A i \in NodeIds : i \in Done
    <3>1. \A k \in 1 .. Len(nodes) : nodes[k].id \in Ids
      <4>1. Len(nodes) \in Nat
        BY LenProperties DEF TypeOK
      <4> TAKE k \in 1 .. Len(nodes)
      <4>2. k \in Nat \ {0} /\ k <= Len(nodes)
        BY <4>1
      <4> QED BY <4>2, RootIsNode DEF TypeOK
    <3>2. Len(nodes) \in Nat /\ root \in Nat /\ DOMAIN nodes = 1 .. Len(nodes)
      BY LenProperties DEF TypeOK
    <3>3. \A k \in 1 .. Len(nodes) : k < root
      BY <2>1, <3>2
    <3> QED BY <3>1, <3>2, <3>3 DEF RootInv, Done, NodeIds
  <2>5. \A i \in NodeIds : From(i) \subseteq Done
    <3> TAKE i \in NodeIds
    <3>1. i \in Done /\ i \in Ids /\ Closed(Done)
      BY <2>2, <2>3, <2>4 DEF Closed
    <3> QED BY <2>2, <3>1, FromFacts
  <2>6. Start = Done
    <3> HIDE DEF From, NodeIds
    <3>1. Start \subseteq Done
      BY <2>5 DEF Start
    <3> QED BY <2>2, <3>1 DEF SeenInv, InStart
  <2>7. CASE cycles = {}
    BY <2>6, <2>7 DEF AcyclicInv, NoCycle
  <2>8. CASE cycles # {}
    <3>1. PICK c \in cycles : TRUE
      BY <2>8
    <3>2. c \in Seq(Ids) /\ IsCycle(c) /\ Elements(c) \subseteq Start
      BY <2>2, <2>6 DEF TypeOK, PathInv, CyclesAreReal, SeenInv, CyclesSeen
    <3> QED BY <2>8, <3>2, CycleIsCyclic
  <2> QED BY <2>7, <2>8
<1> QED BY <1>1, TypeCorrect, PathInvHolds, SeenInvHolds, AcyclicInvHolds, RootInvHolds, PTL

-----------------------------------------------------------------------------
(* The parts beside the graph: each starts in its initial states, and a step of *)
(* the whole is a step of one of them and leaves the others as they are.        *)

LEMMA StartsEveryPart ==
  AllInit => M!Init /\ P!Init /\ C!Init /\ K!Init /\ G!Init /\ R!Init /\ T!Init
BY DEF AllInit

LEMMA StepsOnePart ==
  ASSUME [AllNext]_AllVars
  PROVE  /\ M!Next \/ UNCHANGED menuVars
         /\ P!Next \/ UNCHANGED routeVars
         /\ C!Next \/ UNCHANGED callVars
         /\ K!Next \/ UNCHANGED indexVars
         /\ G!Next \/ UNCHANGED modelVars
         /\ R!Next \/ UNCHANGED rightVars
         /\ T!Next \/ UNCHANGED turnVars
BY DEF AllNext, AllVars

-----------------------------------------------------------------------------
\* The invariant behind OwnersKeepTheirs: until such a right is handed on, no role that
\* anybody but the founder has or is about to be given carries it either.
CleanRights(x) == x # None => R!OnlyOwners \cap x = {}
CleanRole(r) == r # None /\ r \in R!ROLE_KEYS => R!OnlyOwners \cap R!SYSTEM_ROLES[r] = {}
Shape ==
  /\ role \in [People -> R!ROLE_KEYS \cup Customs \cup {None}]
  /\ custom = [c \in Customs |-> custom[c]]
  /\ token = [p \in People |-> token[p]]
  /\ key = [k \in ApiKeys |-> key[k]]
  /\ req \in [Handlers -> {None} \cup [to : People, role : R!ROLE_KEYS \cup Customs, member : BOOLEAN]]
  /\ handed \in BOOLEAN
Clean ==
  /\ \A p \in People \ {Founder} : CleanRole(role[p]) /\ CleanRights(token[p])
  /\ \A c \in Customs : CleanRights(custom[c])
  /\ \A k \in ApiKeys : CleanRights(key[k])
  /\ \A h \in Handlers : req[h] # None /\ req[h].to # Founder => CleanRole(req[h].role)
KeptInv == Shape /\ (handed \/ Clean)

LEMMA CleanIsKept == KeptInv => R!OwnersKeepTheirs
<1> SUFFICES ASSUME Clean PROVE R!OnlyOwners \cap R!Held = {}
  BY DEF KeptInv, R!OwnersKeepTheirs
<1>1. SUFFICES ASSUME NEW x \in R!Held PROVE x \notin R!OnlyOwners
  OBVIOUS
<1>2. CASE \E p \in People \ {Founder} : token[p] # None /\ x \in token[p]
  BY <1>2 DEF Clean, CleanRights
<1>3. CASE \E k \in ApiKeys : key[k] # None /\ x \in key[k]
  BY <1>3 DEF Clean, CleanRights
<1>4. CASE \E c \in Customs : custom[c] # None /\ x \in custom[c]
  BY <1>4 DEF Clean, CleanRights
<1>. QED BY <1>1, <1>2, <1>3, <1>4 DEF R!Held, R!Carried

LEMMA KeptInit == R!Init => KeptInv
<1> SUFFICES ASSUME R!Init PROVE Shape /\ Clean
  BY DEF KeptInv
<1>1. Shape
  BY DEF R!Init, Shape, R!ROLE_KEYS
<1>2. Clean
  BY DEF R!Init, Clean, CleanRole, CleanRights
<1>. QED BY <1>1, <1>2

\* Who may grant rights may grant those of owners among them: granting them shows.
LEMMA GrantsShow ==
  ASSUME NEW STATE by, NEW STATE rights, R!MayGrant(by, rights), R!Hands(by, rights), ~handed'
  PROVE  ~handed /\ R!OnlyOwners \cap rights = {}
<1>1. R!MayGrant(by, R!OnlyOwners \cap rights)
  BY DEF R!MayGrant, R!HasAllPermissions
<1>. QED BY <1>1 DEF R!Hands

\* The rights of a role that exists, if they are clean, are those of a clean role.
LEMMA RightsOfCleanRole ==
  ASSUME NEW r, R!OnlyOwners \cap R!RightsOf(r) = {}
  PROVE  CleanRole(r)
  BY DEF CleanRole, R!RightsOf

LEMMA KeptBySessions ==
  ASSUME KeptInv, NEW p \in People, R!SignsIn(p) \/ R!Revokes(p)
  PROVE  KeptInv'
<1> USE DEF KeptInv
<1>1. /\ UNCHANGED <<role, custom, key, req, handed>>
      /\ \E x : /\ token' = [token EXCEPT ![p] = x]
                /\ x = None \/ (role[p] # None /\ x = R!RightsOf(role[p]))
  BY DEF R!SignsIn, R!Revokes
<1>2. PICK x : /\ token' = [token EXCEPT ![p] = x]
               /\ x = None \/ (role[p] # None /\ x = R!RightsOf(role[p]))
  BY <1>1
<1>3. Shape'
  BY <1>1, <1>2 DEF Shape
<1>4. ASSUME Clean PROVE Clean'
  <2>1. p # Founder => CleanRights(x)
    BY <1>2, <1>4 DEF Clean, Shape, CleanRights, CleanRole, R!RightsOf
  <2>2. \A q \in People \ {Founder} : CleanRights(token'[q])
    BY <1>2, <1>4, <2>1 DEF Clean, Shape
  <2>. QED BY <1>1, <1>4, <2>2 DEF Clean, CleanRole, CleanRights
<1>. QED BY <1>1, <1>3, <1>4

LEMMA KeptByGiving ==
  ASSUME KeptInv, NEW STATE by, NEW h \in Handlers, NEW p \in People, NEW r, R!GivesRole(h, by, p, r)
  PROVE  KeptInv'
<1> USE DEF KeptInv
<1>1. /\ R!Exists(r) /\ R!MayGrant(by, R!RightsOf(r)) /\ R!Hands(by, R!RightsOf(r))
      /\ req' = [req EXCEPT ![h] = [to |-> p, role |-> r, member |-> role[p] # None]]
      /\ UNCHANGED <<role, custom, token, key>>
  BY DEF R!GivesRole
<1>2. r \in R!ROLE_KEYS \cup Customs
  BY <1>1 DEF R!Exists
<1>3. Shape'
  BY <1>1, <1>2 DEF Shape, R!Hands
<1>4. ASSUME ~handed' PROVE Clean'
  <2>1. ~handed /\ R!OnlyOwners \cap R!RightsOf(r) = {}
    BY <1>1, <1>4, GrantsShow
  <2>2. CleanRole(r)
    BY <2>1, RightsOfCleanRole
  <2>3. \A g \in Handlers : req'[g] # None /\ req'[g].to # Founder => CleanRole(req'[g].role)
    BY <1>1, <2>1, <2>2 DEF Clean, Shape
  <2>. QED BY <1>1, <2>1, <2>3 DEF Clean, CleanRole, CleanRights
<1>. QED BY <1>3, <1>4

LEMMA KeptByWriting ==
  ASSUME KeptInv, NEW h \in Handlers, R!WritesRole(h)
  PROVE  KeptInv'
<1> USE DEF KeptInv
<1>1. /\ req[h] # None
      /\ req' = [req EXCEPT ![h] = None]
      /\ role' = role \/ role' = [role EXCEPT ![req[h].to] = req[h].role]
      /\ UNCHANGED <<custom, token, key, handed>>
  BY DEF R!WritesRole
<1>2. req[h].to \in People /\ req[h].role \in R!ROLE_KEYS \cup Customs
  BY <1>1 DEF Shape
<1>3. Shape'
  BY <1>1, <1>2 DEF Shape
<1>4. ASSUME Clean PROVE Clean'
  <2>1. \A p \in People \ {Founder} : CleanRole(role'[p])
    BY <1>1, <1>2, <1>4 DEF Clean, Shape
  <2>2. \A g \in Handlers : req'[g] # None /\ req'[g].to # Founder => CleanRole(req'[g].role)
    BY <1>1, <1>4 DEF Clean, Shape
  <2>. QED BY <1>1, <1>4, <2>1, <2>2 DEF Clean, CleanRole, CleanRights
<1>. QED BY <1>1, <1>3, <1>4

LEMMA KeptByTaking ==
  ASSUME KeptInv, NEW STATE by, NEW p \in People, R!Removes(by, p)
  PROVE  KeptInv'
<1> USE DEF KeptInv
<1>1. role' = [role EXCEPT ![p] = None] /\ UNCHANGED <<custom, token, key, req, handed>>
  BY DEF R!Removes
<1>2. Shape'
  BY <1>1 DEF Shape
<1>3. ASSUME Clean PROVE Clean'
  BY <1>1, <1>3 DEF Clean, Shape, CleanRole, CleanRights
<1>. QED BY <1>1, <1>2, <1>3

LEMMA KeptByRoles ==
  ASSUME KeptInv, NEW STATE by, NEW c \in Customs,
         NEW rights, R!SetsRights(by, c, rights) \/ R!DeletesRole(by, c)
  PROVE  KeptInv'
<1> USE DEF KeptInv
<1>1. CASE R!SetsRights(by, c, rights)
  <2>1. /\ R!MayGrant(by, rights) /\ R!Hands(by, rights)
        /\ custom' = [custom EXCEPT ![c] = rights]
        /\ UNCHANGED <<role, token, key, req>>
    BY <1>1 DEF R!SetsRights
  <2>2. Shape'
    BY <2>1 DEF Shape, R!Hands
  <2>3. ASSUME ~handed' PROVE Clean'
    <3>1. ~handed /\ R!OnlyOwners \cap rights = {}
      BY <2>1, <2>3, GrantsShow
    <3>2. \A d \in Customs : CleanRights(custom'[d])
      BY <2>1, <3>1 DEF Clean, Shape, CleanRights
    <3>. QED BY <2>1, <3>1, <3>2 DEF Clean, CleanRole, CleanRights
  <2>. QED BY <2>2, <2>3
<1>2. CASE R!DeletesRole(by, c)
  <2>1. custom' = [custom EXCEPT ![c] = None] /\ UNCHANGED <<role, token, key, req, handed>>
    BY <1>2 DEF R!DeletesRole
  <2>2. Shape'
    BY <2>1 DEF Shape
  <2>3. ASSUME Clean PROVE Clean'
    <3>1. \A d \in Customs : CleanRights(custom'[d])
      BY <2>1, <2>3 DEF Clean, Shape, CleanRights
    <3>. QED BY <2>1, <2>3, <3>1 DEF Clean, CleanRole, CleanRights
  <2>. QED BY <2>1, <2>2, <2>3
<1>. QED BY <1>1, <1>2

LEMMA KeptByKeys ==
  ASSUME KeptInv, NEW STATE by, NEW k \in ApiKeys,
         NEW rights, R!MakesKey(by, k, rights) \/ R!RevokesKey(k)
  PROVE  KeptInv'
<1> USE DEF KeptInv
<1>1. CASE R!MakesKey(by, k, rights)
  <2>1. /\ R!MayGrant(by, rights) /\ R!Hands(by, rights)
        /\ key' = [key EXCEPT ![k] = rights]
        /\ UNCHANGED <<role, token, custom, req>>
    BY <1>1 DEF R!MakesKey
  <2>2. Shape'
    BY <2>1 DEF Shape, R!Hands
  <2>3. ASSUME ~handed' PROVE Clean'
    <3>1. ~handed /\ R!OnlyOwners \cap rights = {}
      BY <2>1, <2>3, GrantsShow
    <3>2. \A d \in ApiKeys : CleanRights(key'[d])
      BY <2>1, <3>1 DEF Clean, Shape, CleanRights
    <3>. QED BY <2>1, <3>1, <3>2 DEF Clean, CleanRole, CleanRights
  <2>. QED BY <2>2, <2>3
<1>2. CASE R!RevokesKey(k)
  <2>1. key' = [key EXCEPT ![k] = None] /\ UNCHANGED <<role, token, custom, req, handed>>
    BY <1>2 DEF R!RevokesKey
  <2>2. Shape'
    BY <2>1 DEF Shape
  <2>3. ASSUME Clean PROVE Clean'
    <3>1. \A d \in ApiKeys : CleanRights(key'[d])
      BY <2>1, <2>3 DEF Clean, Shape, CleanRights
    <3>. QED BY <2>1, <2>3, <3>1 DEF Clean, CleanRole, CleanRights
  <2>. QED BY <2>1, <2>2, <2>3
<1>. QED BY <1>1, <1>2

LEMMA KeptByDirectory ==
  ASSUME KeptInv, NEW p \in People, NEW r, R!DirectoryGives(p, r)
  PROVE  KeptInv'
<1> USE DEF KeptInv
<1>1. /\ p # Founder /\ R!Exists(r)
      /\ role' = [role EXCEPT ![p] = r]
      /\ handed' = (handed \/ R!OnlyOwners \cap R!RightsOf(r) # {})
      /\ UNCHANGED <<custom, token, key, req>>
  BY DEF R!DirectoryGives
<1>2. Shape'
  BY <1>1 DEF Shape, R!Exists
<1>3. ASSUME ~handed' PROVE Clean'
  <2>1. ~handed /\ CleanRole(r)
    BY <1>1, <1>3, RightsOfCleanRole
  <2>2. \A q \in People \ {Founder} : CleanRole(role'[q])
    BY <1>1, <2>1 DEF Clean, Shape
  <2>. QED BY <1>1, <2>1, <2>2 DEF Clean, CleanRole, CleanRights
<1>. QED BY <1>2, <1>3

\* What gives and takes no right.
LEMMA KeptElsewhere ==
  ASSUME KeptInv, UNCHANGED <<role, custom, token, key, req, handed>>
  PROVE  KeptInv'
  BY DEF KeptInv, Shape, Clean, CleanRole, CleanRights

LEMMA KeptNext == KeptInv /\ (R!Next \/ UNCHANGED rightVars) => KeptInv'
<1> SUFFICES ASSUME KeptInv, R!Next \/ UNCHANGED rightVars PROVE KeptInv'
  OBVIOUS
<1>1. CASE UNCHANGED rightVars
  BY <1>1, KeptElsewhere DEF rightVars
<1>2. ASSUME NEW p \in People, R!SignsIn(p) \/ R!Revokes(p) PROVE KeptInv'
  BY <1>2, KeptBySessions
<1>3. ASSUME NEW p \in People, NEW r \in Mapped, R!DirectoryGives(p, r) PROVE KeptInv'
  BY <1>3, KeptByDirectory
<1>4. ASSUME NEW c \in Customs, R!FindsHolders(c) PROVE KeptInv'
  BY <1>4, KeptElsewhere DEF R!FindsHolders
<1>5. ASSUME NEW k \in ApiKeys, R!RevokesKey(k) PROVE KeptInv'
  BY <1>5, KeptByKeys
<1>6. ASSUME NEW h \in Handlers, R!WritesRole(h) PROVE KeptInv'
  BY <1>6, KeptByWriting
<1>7. ASSUME NEW by \in R!Principals, R!Calls(by) PROVE KeptInv'
  BY <1>7, KeptElsewhere DEF R!Calls
<1>8. ASSUME NEW by \in R!Principals, NEW p \in People, R!Removes(by, p) PROVE KeptInv'
  BY <1>8, KeptByTaking
<1>9. ASSUME NEW by \in R!Principals, NEW p \in People, NEW h \in Handlers, NEW r \in Given \cup Customs,
             R!GivesRole(h, by, p, r)
      PROVE  KeptInv'
  BY <1>9, KeptByGiving
<1>10. ASSUME NEW by \in R!Principals, NEW c \in Customs, NEW o \in Offers,
              R!DeletesRole(by, c) \/ R!SetsRights(by, c, o)
       PROVE  KeptInv'
  BY <1>10, KeptByRoles
<1>11. ASSUME NEW by \in R!Principals, NEW c \in Customs, R!DeletesRole(by, c) PROVE KeptInv'
  BY <1>11, KeptByRoles
<1>12. ASSUME NEW by \in R!Principals, NEW k \in ApiKeys, NEW o \in Offers, R!MakesKey(by, k, o)
       PROVE  KeptInv'
  BY <1>12, KeptByKeys
<1>13. CASE \E by \in R!Principals :
       \/ R!Calls(by)
       \/ \E p \in People : R!Removes(by, p)
                         \/ \E h \in Handlers, r \in Given \cup Customs : R!GivesRole(h, by, p, r)
       \/ \E c \in Customs : R!DeletesRole(by, c) \/ \E o \in Offers : R!SetsRights(by, c, o)
       \/ \E k \in ApiKeys, o \in Offers : R!MakesKey(by, k, o)
  BY <1>13, <1>7, <1>8, <1>9, <1>10, <1>11, <1>12
<1>. QED BY <1>1, <1>2, <1>3, <1>4, <1>5, <1>6, <1>13 DEF R!Next

\* For any number of users, roles, keys and requests that overlap, and whatever the roles
\* and the routes: a right that owners alone are given is carried by nobody else until
\* one who has it, or the directory, hands it on (iam.service.ts:128-132, 272-281).
THEOREM RightsStayWithOwners == AllSpec => []OwnersKeepTheirs
<1>1. AllInit => KeptInv
  BY StartsEveryPart, KeptInit
<1>2. KeptInv /\ [AllNext]_AllVars => KeptInv'
  BY StepsOnePart, KeptNext
<1>3. KeptInv => OwnersKeepTheirs
  BY CleanIsKept DEF OwnersKeepTheirs
<1>. QED BY <1>1, <1>2, <1>3, PTL DEF AllSpec

-----------------------------------------------------------------------------
\* The invariant behind it: while people own the conversation, every turn that may still
\* write is excused; a turn among the writes of its own hand-off is not, until one fails.
May == {"node", "model", "suspended"}
Excused(t) == t \in beside \cup broken \/ turn[t].byStaff
OnlyExcused == owner # "agent" => \A t \in Requests : turn[t].exec \in May => Excused(t)
SilentInv == T!TypeOK /\ OnlyExcused /\ T!HandedOverMeansSilent

LEMMA SilentInit == T!Init => SilentInv
  BY DEF T!Init, SilentInv, T!TypeOK, OnlyExcused, T!HandedOverMeansSilent, May, T!NoTurn, T!Running

\* One turn goes from exec to exec: nothing else that the invariant reads changes, and it
\* comes to where it may write only from there, by staff, or while the agent owns the conversation.
GoesTo(t, exec) ==
  /\ turn' = [turn EXCEPT ![t].exec = exec]
  /\ exec \in {"none", "accepted", "over"} \cup T!Running
  /\ exec \in May => turn[t].exec \in May \/ owner = "agent"
LEMMA AStepIsHarmless ==
  ASSUME SilentInv, NEW t \in Requests, NEW exec, GoesTo(t, exec),
         UNCHANGED <<owner, beside, broken, late>>
  PROVE  SilentInv'
<1> USE DEF SilentInv, GoesTo
<1>1. \A u \in Requests : turn'[u].byStaff = turn[u].byStaff
  BY DEF T!TypeOK
<1>2. T!TypeOK'
  BY DEF T!TypeOK
<1>3. OnlyExcused'
  <2>1. SUFFICES ASSUME owner # "agent", NEW u \in Requests, turn'[u].exec \in May PROVE Excused(u)'
    BY DEF OnlyExcused
  <2>2. turn[u].exec \in May
    BY <2>1 DEF T!TypeOK
  <2>. QED BY <1>1, <2>1, <2>2 DEF OnlyExcused, Excused
<1>4. T!HandedOverMeansSilent'
  BY <1>1 DEF T!HandedOverMeansSilent, T!TypeOK
<1>. QED BY <1>2, <1>3, <1>4

\* What most nodes do: the turn was at a node, or waiting for the model or a resume.
LEMMA ANodeIsHarmless ==
  ASSUME SilentInv, NEW t \in Requests, turn[t].exec \in May,
         NEW exec \in {"node", "model", "suspended", "over"},
         turn' = T!Then(t, exec), UNCHANGED <<owner, beside, broken, late>>
  PROVE  SilentInv'
<1>1. GoesTo(t, exec)
  BY DEF GoesTo, T!Then, May, T!Running
<1>. QED BY <1>1, AStepIsHarmless

LEMMA OutsideTurns ==
  ASSUME SilentInv, UNCHANGED <<owner, turn, beside, broken, late>>
  PROVE  SilentInv'
  BY DEF SilentInv, T!TypeOK, OnlyExcused, Excused, T!HandedOverMeansSilent

LEMMA SilentAtTheWidget ==
  ASSUME SilentInv, NEW t \in Requests, T!Receives(t) \/ T!Starts(t) \/ T!StaffRuns(t)
  PROVE  SilentInv'
<1>1. CASE T!Receives(t)
  <2>1. GoesTo(t, "accepted") /\ UNCHANGED <<owner, beside, broken, late>>
    BY <1>1 DEF T!Receives, GoesTo, May, T!RestStays, T!OthersStay
  <2>. QED BY <2>1, AStepIsHarmless
<1>2. CASE T!Starts(t)
  <2>1. GoesTo(t, IF owner = "agent" THEN "node" ELSE "over") /\ UNCHANGED <<owner, beside, broken, late>>
    BY <1>2 DEF T!Starts, GoesTo, May, T!Running, T!RestStays, T!OthersStay
  <2>. QED BY <2>1, AStepIsHarmless
<1>3. CASE T!StaffRuns(t)
  <2>1. /\ turn[t].exec = "none"
        /\ turn' = [turn EXCEPT ![t].exec = "node", ![t].byStaff = TRUE]
        /\ UNCHANGED <<owner, beside, broken, late>>
    BY <1>3 DEF T!StaffRuns, T!RestStays, T!OthersStay
  <2>2. /\ turn'[t].byStaff
        /\ \A u \in Requests \ {t} : turn'[u] = turn[u]
    BY <2>1 DEF SilentInv, T!TypeOK
  <2>3. T!TypeOK'
    BY <2>1 DEF SilentInv, T!TypeOK, T!Running
  <2>4. OnlyExcused'
    BY <2>1, <2>2 DEF SilentInv, OnlyExcused, Excused
  <2>5. T!HandedOverMeansSilent'
    BY <2>1, <2>2 DEF SilentInv, T!TypeOK, T!HandedOverMeansSilent
  <2>. QED BY <2>3, <2>4, <2>5 DEF SilentInv
<1>. QED BY <1>1, <1>2, <1>3

LEMMA SilentAtANode ==
  ASSUME SilentInv, NEW t \in Requests,
         \/ \E q \in Questions : T!Asks(t, q)
         \/ \E text \in SUBSET {"pii", "breach"}, g, c \in BOOLEAN : T!Answers(t, text, g, c)
         \/ \E allowed, approval \in BOOLEAN : T!CallsTool(t, allowed, approval)
         \/ T!Sets(t) \/ T!Passes(t) \/ T!Suspends(t) \/ T!Resumes(t) \/ T!Errs(t) \/ T!Ends(t)
  PROVE  SilentInv'
<1> USE DEF T!AtNode, T!Then, May, T!RestStays, T!OthersStay
<1>1. turn[t].exec \in May /\ UNCHANGED <<owner, beside, broken, late>>
  BY DEF T!Asks, T!Answers, T!CallsTool, T!Sets, T!Passes, T!Suspends, T!Resumes, T!Errs, T!Ends
<1>2. \E exec \in {"node", "model", "suspended", "over"} : turn' = T!Then(t, exec)
  BY DEF T!Asks, T!Answers, T!CallsTool, T!Sets, T!Passes, T!Suspends, T!Resumes, T!Errs, T!Ends
<1>. QED BY <1>1, <1>2, ANodeIsHarmless

\* A message: the sender is at a node, so it is excused unless the agent owns the conversation.
LEMMA SilentWhenSending ==
  ASSUME SilentInv, NEW t \in Requests, T!Sends(t)
  PROVE  SilentInv'
<1>1. /\ turn[t].exec = "node"
      /\ turn' = [turn EXCEPT ![t].exec = "node"]
      /\ late' = IF owner = "agent" THEN late ELSE late \cup {t}
      /\ UNCHANGED <<owner, beside, broken>>
  BY DEF T!Sends, T!AtNode, T!Then
<1>2. turn' = turn
  BY <1>1 DEF SilentInv, T!TypeOK
<1>3. T!TypeOK' /\ OnlyExcused'
  BY <1>1, <1>2 DEF SilentInv, T!TypeOK, OnlyExcused, Excused
<1>4. T!HandedOverMeansSilent'
  BY <1>1, <1>2 DEF SilentInv, OnlyExcused, Excused, May, T!HandedOverMeansSilent
<1>. QED BY <1>3, <1>4 DEF SilentInv

\* The conversation leaves the agent: who was running is excused from then on.
LEMMA SilentWhenMoving ==
  ASSUME SilentInv, NEW o \in {"agent", "person", "nobody"}, NEW by \in SUBSET Requests, T!Moves(o, by),
         turn' \in [Requests -> [exec : {"none", "accepted", "over"} \cup T!Running, byStaff : BOOLEAN]],
         \A t \in Requests : turn'[t].byStaff = turn[t].byStaff,
         \A t \in Requests \ by : turn'[t] = turn[t],
         \A t \in by : turn'[t].exec = "handing",
         UNCHANGED <<broken, late>>
  PROVE  SilentInv'
<1> USE DEF SilentInv, T!Moves
<1>1. T!TypeOK'
  BY DEF T!TypeOK
<1>2. OnlyExcused'
  <2>1. SUFFICES ASSUME o # "agent", NEW t \in Requests, turn'[t].exec \in May PROVE t \in beside'
    BY DEF OnlyExcused, Excused
  <2>2. t \notin by /\ turn'[t] = turn[t]
    BY <2>1 DEF May
  <2>. QED BY <2>1, <2>2 DEF May, T!Running
<1>3. T!HandedOverMeansSilent'
  BY DEF T!HandedOverMeansSilent, T!TypeOK
<1>. QED BY <1>1, <1>2, <1>3

LEMMA SilentInHandOffs ==
  ASSUME SilentInv, NEW t \in Requests,
         (\E o \in {"person", "nobody"} : T!HandsOff(t, o)) \/ T!Hands(t) \/ T!Breaks(t)
  PROVE  SilentInv'
<1>1. CASE \E o \in {"person", "nobody"} : T!HandsOff(t, o)
  <2>1. PICK o \in {"person", "nobody"} : T!HandsOff(t, o)
    BY <1>1
  <2>2. T!Moves(o, {t}) /\ turn' = [turn EXCEPT ![t].exec = "handing"] /\ UNCHANGED <<broken, late>>
    BY <2>1 DEF T!HandsOff, T!Then
  <2>3. /\ turn' \in [Requests -> [exec : {"none", "accepted", "over"} \cup T!Running, byStaff : BOOLEAN]]
        /\ \A u \in Requests : turn'[u].byStaff = turn[u].byStaff
        /\ \A u \in Requests \ {t} : turn'[u] = turn[u]
        /\ turn'[t].exec = "handing"
    BY <2>2 DEF SilentInv, T!TypeOK, T!Running
  <2>. QED BY <2>2, <2>3, SilentWhenMoving
<1>2. CASE T!Hands(t)
  <2>1. GoesTo(t, "over") /\ UNCHANGED <<owner, beside, broken, late>>
    BY <1>2 DEF T!Hands, T!Terminal, GoesTo, May, T!RestStays, T!OthersStay
  <2>. QED BY <2>1, AStepIsHarmless
<1>3. CASE T!Breaks(t)
  <2>1. PICK exec \in {"node", "over"} : turn' = [turn EXCEPT ![t].exec = exec]
    BY <1>3 DEF T!Breaks
  <2>2. broken' = broken \cup {t} /\ UNCHANGED <<owner, beside, late>>
    BY <1>3 DEF T!Breaks
  <2>3. \A u \in Requests : turn'[u].byStaff = turn[u].byStaff /\ (u # t => turn'[u] = turn[u])
    BY <2>1 DEF SilentInv, T!TypeOK
  <2>4. T!TypeOK'
    BY <2>1, <2>2 DEF SilentInv, T!TypeOK, T!Running
  <2>5. OnlyExcused'
    BY <2>2, <2>3 DEF SilentInv, OnlyExcused, Excused
  <2>6. T!HandedOverMeansSilent'
    BY <2>2, <2>3 DEF SilentInv, T!TypeOK, T!HandedOverMeansSilent
  <2>. QED BY <2>4, <2>5, <2>6 DEF SilentInv
<1>. QED BY <1>1, <1>2, <1>3

LEMMA SilentWhenAssigned ==
  ASSUME SilentInv, NEW o \in {"agent", "person", "nobody"}, T!Assigns(o)
  PROVE  SilentInv'
<1>1. T!Moves(o, {}) /\ UNCHANGED <<turn, broken, late>>
  BY DEF T!Assigns
<1>. QED BY <1>1, SilentWhenMoving DEF SilentInv, T!TypeOK

LEMMA SilentNext == SilentInv /\ (T!Next \/ UNCHANGED turnVars) => SilentInv'
<1> SUFFICES ASSUME SilentInv, T!Next \/ UNCHANGED turnVars PROVE SilentInv'
  OBVIOUS
<1>1. CASE UNCHANGED turnVars
  BY <1>1, OutsideTurns DEF turnVars
<1>2. CASE \E p \in Guardrails : T!Clears(p)
  BY <1>2, OutsideTurns DEF T!Clears
<1>3. CASE T!Saves \/ T!Dies
  BY <1>3, OutsideTurns DEF T!Saves, T!Dies
<1>4. CASE \E o \in {"agent", "person", "nobody"} : T!Assigns(o)
  BY <1>4, SilentWhenAssigned
<1>5. ASSUME NEW t \in Requests, T!Receives(t) \/ T!Starts(t) \/ T!StaffRuns(t) PROVE SilentInv'
  BY <1>5, SilentAtTheWidget
<1>6. ASSUME NEW t \in Requests, T!Classifies(t) \/ T!Decides(t) \/ T!Acts(t) PROVE SilentInv'
  BY <1>6, SilentAtANode DEF T!Classifies, T!Decides, T!Acts
<1>7. ASSUME NEW t \in Requests,
             \/ \E q \in Questions : T!Asks(t, q)
             \/ \E text \in SUBSET {"pii", "breach"}, g, c \in BOOLEAN : T!Answers(t, text, g, c)
             \/ \E allowed, approval \in BOOLEAN : T!CallsTool(t, allowed, approval)
             \/ T!Sets(t) \/ T!Suspends(t) \/ T!Resumes(t) \/ T!Errs(t) \/ T!Ends(t)
      PROVE  SilentInv'
  BY <1>7, SilentAtANode
<1>8. ASSUME NEW t \in Requests, T!Sends(t) PROVE SilentInv'
  BY <1>8, SilentWhenSending
<1>9. ASSUME NEW t \in Requests,
             (\E o \in {"person", "nobody"} : T!HandsOff(t, o)) \/ T!Hands(t) \/ T!Breaks(t)
      PROVE  SilentInv'
  BY <1>9, SilentInHandOffs
<1>. QED BY <1>1, <1>2, <1>3, <1>4, <1>5, <1>6, <1>7, <1>8, <1>9 DEF T!Next

\* Whatever the workflow, the policies and the number of turns and of nodes: nobody but an
\* excused turn writes to a customer whom people have taken over (node-executors.ts:731-734).
THEOREM SilenceHolds == AllSpec => []HandedOverMeansSilent
<1>1. AllInit => SilentInv
  BY StartsEveryPart, SilentInit
<1>2. SilentInv /\ [AllNext]_AllVars => SilentInv'
  BY StepsOnePart, SilentNext
<1>3. SilentInv => HandedOverMeansSilent
  BY DEF SilentInv, HandedOverMeansSilent
<1>. QED BY <1>1, <1>2, <1>3, PTL DEF AllSpec

-----------------------------------------------------------------------------
(* Who only reads. Every route that writes asks for a permission no right to    *)
(* read is worth, and who was given more than rights to read is known by it.    *)

Guarded(S) == \A r \in S : r.does = "writes" => \E p \in r.asks : p[2] \notin R!ToRead
\* The actions that routes which write ask for.
Acting == {"create", "execute", "update", "publish", "manage", "assign", "delete", "merge",
           "template_manage", "evaluate", "dispute", "calibrate", "control"}

LEMMA UnionIsGuarded == \A S, U : Guarded(S) /\ Guarded(U) => Guarded(S \cup U)
  BY DEF Guarded

LEMMA OthersAreGuarded ==
  /\ \A resource, actions : Guarded(R!Reads(resource, actions)) /\ Guarded(R!Notes(resource, actions))
  /\ Guarded(R!Open) /\ Guarded(R!Own)
  BY DEF Guarded, R!Reads, R!Notes, R!Open, R!Own, R!Each, R!Route

LEMMA WritesAreGuarded ==
  \A resource : \A actions \in SUBSET Acting : Guarded(R!Writes(resource, actions))
<1> SUFFICES ASSUME NEW resource, NEW actions \in SUBSET Acting, NEW p \in R!Of(resource, actions)
             PROVE  p[2] \notin R!ToRead
  BY DEF Guarded, R!Writes, R!Each, R!Route
<1>1. p[2] \in actions
  BY DEF R!Of
<1>. QED BY <1>1 DEF R!ToRead, Acting

LEMMA RoutesAreGuarded == Guarded(R!Routes)
<1> USE UnionIsGuarded, OthersAreGuarded, WritesAreGuarded
<1>0. \A actions \in {{"create", "execute", "update", "publish"}, {"manage"}, {"execute"}, {"create"},
        {"create", "update", "assign"}, {"create", "update", "delete", "merge"}, {"delete"},
        {"create", "update", "delete"}, {"create", "update", "publish", "delete"}, {"update"},
        {"template_manage", "evaluate", "dispute", "calibrate"}, {"assign"}, {"manage", "execute"},
        {"control"}} : actions \in SUBSET Acting
  BY DEF Acting
<1>1. /\ Guarded(R!AgentRoutes) /\ Guarded(R!ModelRoutes) /\ Guarded(R!AnalyticsRoutes)
      /\ Guarded(R!AuditRoutes) /\ Guarded(R!AuthRoutes) /\ Guarded(R!AutomationRoutes)
  BY <1>0 DEF R!AgentRoutes, R!ModelRoutes, R!AnalyticsRoutes, R!AuditRoutes, R!AuthRoutes,
              R!AutomationRoutes
<1>2. /\ Guarded(R!BillingRoutes) /\ Guarded(R!ChannelsRoutes) /\ Guarded(R!ConversationsRoutes)
      /\ Guarded(R!CopilotRoutes) /\ Guarded(R!CustomersRoutes) /\ Guarded(R!DirectoryRoutes)
  BY <1>0 DEF R!BillingRoutes, R!ChannelsRoutes, R!ConversationsRoutes, R!CopilotRoutes,
              R!CustomersRoutes, R!DirectoryRoutes
<1>3. /\ Guarded(R!CalendarRoutes) /\ Guarded(R!TaxonomyRoutes) /\ Guarded(R!BackupRoutes)
      /\ Guarded(R!EvaluationRoutes) /\ Guarded(R!GovernanceRoutes) /\ Guarded(R!GuardrailsRoutes)
  BY <1>0 DEF R!CalendarRoutes, R!TaxonomyRoutes, R!BackupRoutes, R!EvaluationRoutes,
              R!GovernanceRoutes, R!GuardrailsRoutes
<1>4. /\ Guarded(R!HybridRoutes) /\ Guarded(R!MemberRoutes) /\ Guarded(R!IntegrationsRoutes)
      /\ Guarded(R!KnowledgeBaseRoutes) /\ Guarded(R!ArticleRoutes) /\ Guarded(R!DocumentRoutes)
  BY <1>0 DEF R!HybridRoutes, R!MemberRoutes, R!IntegrationsRoutes, R!KnowledgeBaseRoutes,
              R!ArticleRoutes, R!DocumentRoutes
<1>5. /\ Guarded(R!MemoryRoutes) /\ Guarded(R!NotificationsRoutes) /\ Guarded(R!QualityRoutes)
      /\ Guarded(R!ReportsRoutes) /\ Guarded(R!DeadLetterRoutes) /\ Guarded(R!RoutingRoutes)
  BY <1>0 DEF R!MemoryRoutes, R!NotificationsRoutes, R!QualityRoutes, R!ReportsRoutes,
              R!DeadLetterRoutes, R!RoutingRoutes
<1>6. /\ Guarded(R!SlaRoutes) /\ Guarded(R!ScimRoutes) /\ Guarded(R!SsoRoutes)
      /\ Guarded(R!TenancyRoutes) /\ Guarded(R!TicketsRoutes) /\ Guarded(R!ToolRoutes)
  BY <1>0 DEF R!SlaRoutes, R!ScimRoutes, R!SsoRoutes, R!TenancyRoutes, R!TicketsRoutes, R!ToolRoutes
<1>7. /\ Guarded(R!CallRoutes) /\ Guarded(R!LineRoutes) /\ Guarded(R!WebhooksRoutes)
      /\ Guarded(R!ForecastRoutes) /\ Guarded(R!RosterRoutes) /\ Guarded(R!WidgetRoutes)
      /\ Guarded(R!WorkflowsRoutes)
  BY <1>0 DEF R!CallRoutes, R!LineRoutes, R!WebhooksRoutes, R!ForecastRoutes, R!RosterRoutes,
              R!WidgetRoutes, R!WorkflowsRoutes
<1>. QED BY <1>1, <1>2, <1>3, <1>4, <1>5, <1>6, <1>7 DEF R!Routes, Guarded

\* The invariant behind ReadersOnlyRead.
OnlyToRead(x) == x # None => \A p \in x : p[2] \in R!ToRead
ReadersInv ==
  /\ token = [p \in People |-> token[p]] /\ key = [k \in ApiKeys |-> key[k]]
  /\ \A p \in People \ more : OnlyToRead(token[p])
  /\ \A k \in ApiKeys \ more : OnlyToRead(key[k])
  /\ wrote = {}

\* Rights to read pass no route that writes: a permission is had as it is, or by managing.
LEMMA ReadingPassesNoWriting ==
  ASSUME NEW STATE by, \A p \in by.rights : p[2] \in R!ToRead, NEW r \in R!WritingRoutes
  PROVE  ~R!Passes(by, r)
<1>1. PICK p \in r.asks : p[2] \notin R!ToRead
  BY RoutesAreGuarded DEF Guarded, R!WritingRoutes
<1>2. "manage" \notin R!ToRead /\ <<p[1], "manage">>[2] = "manage"
  BY DEF R!ToRead
<1>3. ~R!HasPermission(by.rights, p)
  BY <1>1, <1>2 DEF R!HasPermission
<1>. QED BY <1>3 DEF R!Passes, R!HasAllPermissions

LEMMA ReadersByCalls ==
  ASSUME ReadersInv, NEW by \in R!Principals, R!Calls(by)
  PROVE  ReadersInv'
<1>1. by.who # None /\ UNCHANGED <<token, key, more>>
  BY DEF R!Calls
<1>2. by.who \notin more => \A p \in by.rights : p[2] \in R!ToRead
  <2>1. \/ \E p \in People : by = [who |-> p, rights |-> token[p]] /\ token[p] # None
        \/ \E k \in ApiKeys : by = [who |-> k, rights |-> key[k]] /\ key[k] # None
    BY <1>1 DEF R!Principals, R!ScimToken
  <2>. QED BY <2>1 DEF ReadersInv, OnlyToRead
<1>3. wrote' = wrote
  BY <1>2, ReadingPassesNoWriting DEF R!Calls
<1>. QED BY <1>1, <1>3 DEF ReadersInv, OnlyToRead

LEMMA ReadersByTokens ==
  ASSUME ReadersInv, NEW p \in People, R!SignsIn(p) \/ R!Revokes(p)
  PROVE  ReadersInv'
<1>1. CASE R!SignsIn(p)
  <2>1. /\ token' = [token EXCEPT ![p] = R!RightsOf(role[p])]
        /\ R!Carries(p, R!RightsOf(role[p]))
        /\ UNCHANGED <<key, wrote>>
    BY <1>1 DEF R!SignsIn
  <2>2. more \subseteq more' /\ (p \notin more' => \A q \in R!RightsOf(role[p]) : q[2] \in R!ToRead)
    BY <2>1 DEF R!Carries
  <2>. QED BY <2>1, <2>2 DEF ReadersInv, OnlyToRead
<1>2. CASE R!Revokes(p)
  BY <1>2 DEF R!Revokes, ReadersInv, OnlyToRead
<1>. QED BY <1>1, <1>2

LEMMA ReadersByKeys ==
  ASSUME ReadersInv, NEW k \in ApiKeys, NEW STATE by, NEW rights,
         R!MakesKey(by, k, rights) \/ R!RevokesKey(k)
  PROVE  ReadersInv'
<1>1. CASE R!MakesKey(by, k, rights)
  <2>1. /\ key' = [key EXCEPT ![k] = rights]
        /\ R!Carries(k, rights)
        /\ UNCHANGED <<token, wrote>>
    BY <1>1 DEF R!MakesKey
  <2>2. more \subseteq more' /\ (k \notin more' => \A q \in rights : q[2] \in R!ToRead)
    BY <2>1 DEF R!Carries
  <2>. QED BY <2>1, <2>2 DEF ReadersInv, OnlyToRead
<1>2. CASE R!RevokesKey(k)
  BY <1>2 DEF R!RevokesKey, ReadersInv, OnlyToRead
<1>. QED BY <1>1, <1>2

LEMMA ReadersElsewhere ==
  ASSUME ReadersInv, UNCHANGED <<token, key, more, wrote>>
  PROVE  ReadersInv'
  BY DEF ReadersInv, OnlyToRead

LEMMA ReadersNext == ReadersInv /\ (R!Next \/ UNCHANGED rightVars) => ReadersInv'
<1> SUFFICES ASSUME ReadersInv, R!Next \/ UNCHANGED rightVars PROVE ReadersInv'
  OBVIOUS
<1>1. CASE UNCHANGED rightVars
  BY <1>1, ReadersElsewhere DEF rightVars
<1>2. ASSUME NEW p \in People, R!SignsIn(p) \/ R!Revokes(p) PROVE ReadersInv'
  BY <1>2, ReadersByTokens
<1>3. ASSUME NEW p \in People, NEW r, R!DirectoryGives(p, r) PROVE ReadersInv'
  BY <1>3, ReadersElsewhere DEF R!DirectoryGives
<1>4. ASSUME NEW c \in Customs, R!FindsHolders(c) PROVE ReadersInv'
  BY <1>4, ReadersElsewhere DEF R!FindsHolders
<1>5. ASSUME NEW k \in ApiKeys, R!RevokesKey(k) PROVE ReadersInv'
  BY <1>5, ReadersByKeys
<1>6. ASSUME NEW h \in Handlers, R!WritesRole(h) PROVE ReadersInv'
  BY <1>6, ReadersElsewhere DEF R!WritesRole
<1>7. ASSUME NEW by \in R!Principals, R!Calls(by) PROVE ReadersInv'
  BY <1>7, ReadersByCalls
<1>8. ASSUME NEW by \in R!Principals, NEW p \in People, R!Removes(by, p) PROVE ReadersInv'
  BY <1>8, ReadersElsewhere DEF R!Removes
<1>9. ASSUME NEW by \in R!Principals, NEW p \in People, NEW h \in Handlers, NEW r, R!GivesRole(h, by, p, r)
      PROVE  ReadersInv'
  BY <1>9, ReadersElsewhere DEF R!GivesRole
<1>10. ASSUME NEW by \in R!Principals, NEW c \in Customs, NEW o,
              R!DeletesRole(by, c) \/ R!SetsRights(by, c, o)
       PROVE  ReadersInv'
  BY <1>10, ReadersElsewhere DEF R!DeletesRole, R!SetsRights
<1>11. ASSUME NEW by \in R!Principals, NEW c \in Customs, R!DeletesRole(by, c) PROVE ReadersInv'
  BY <1>11, ReadersElsewhere DEF R!DeletesRole
<1>12. ASSUME NEW by \in R!Principals, NEW k \in ApiKeys, NEW o, R!MakesKey(by, k, o)
       PROVE  ReadersInv'
  BY <1>12, ReadersByKeys
<1>13. CASE \E by \in R!Principals :
       \/ R!Calls(by)
       \/ \E p \in People : R!Removes(by, p)
                         \/ \E h \in Handlers, r \in Given \cup Customs : R!GivesRole(h, by, p, r)
       \/ \E c \in Customs : R!DeletesRole(by, c) \/ \E o \in Offers : R!SetsRights(by, c, o)
       \/ \E k \in ApiKeys, o \in Offers : R!MakesKey(by, k, o)
  BY <1>13, <1>7, <1>8, <1>9, <1>10, <1>11, <1>12
<1>. QED BY <1>1, <1>2, <1>3, <1>4, <1>5, <1>6, <1>13 DEF R!Next

\* For any number of users, keys and requests: who never carried more than rights to read
\* has never passed a route that writes, whatever the controller
\* (permissions.guard.ts:18-40, permissions.ts:315-320, the routes of the controllers).
THEOREM ReadersOnlyReadTheorem == AllSpec => []ReadersOnlyRead
<1>1. R!Init => ReadersInv
  BY DEF R!Init, ReadersInv, OnlyToRead
<1>2. AllInit => ReadersInv
  BY <1>1, StartsEveryPart
<1>3. ReadersInv /\ [AllNext]_AllVars => ReadersInv'
  BY StepsOnePart, ReadersNext
<1>4. ReadersInv => ReadersOnlyRead
  BY DEF ReadersInv, ReadersOnlyRead, R!ReadersOnlyRead
<1>. QED BY <1>2, <1>3, <1>4, PTL DEF AllSpec

-----------------------------------------------------------------------------
(* The policy that models are called under. A set of naturals has a least       *)
(* element, so who is asked next is one of those that are left.                 *)

LEMMA LessIsWellFounded ==
  \E less : IsWellFoundedOn(less, Nat) /\ \A i, j \in Nat : j < i => <<j, i>> \in less
<1> DEFINE Less == OpToRel(<, Nat)
<1>1. IsWellFoundedOn(Less, Nat)
  BY NatLessThanWellFounded
<1>2. \A i, j \in Nat : j < i => <<j, i>> \in Less
  BY DEF OpToRel
<1> HIDE DEF Less
<1> QED BY <1>1, <1>2

LEMMA LeastNatural ==
  \A S \in SUBSET Nat : S # {} => \E i \in S : \A j \in S : i <= j
<1>1. SUFFICES ASSUME NEW S \in SUBSET Nat, S # {} PROVE \E i \in S : \A j \in S : i <= j
  OBVIOUS
<1>2. PICK less : IsWellFoundedOn(less, Nat) /\ \A i, j \in Nat : j < i => <<j, i>> \in less
  BY LessIsWellFounded
<1>3. PICK i \in S : \A j \in S : ~ (<<j, i>> \in less)
  BY <1>1, <1>2, WFMin
<1>4. \A j \in S : i <= j
  <2> TAKE j \in S
  <2>1. i \in Nat /\ j \in Nat
    OBVIOUS
  <2>2. ~(j < i)
    BY <1>2, <1>3, <2>1
  <2> QED BY <2>1, <2>2
<1> QED BY <1>4

LEMMA LeastIsLeft ==
  ASSUME NEW STATE S, S \in SUBSET Nat, S # {}
  PROVE  G!Min(S) \in S
  BY LeastNatural DEF G!Min

IsCall(r) == r \in [pc : {r.pc}, kind : {r.kind}, hand : {r.hand}, chain : {r.chain}, left : {r.left},
                    attempt : {r.attempt}, window : {r.window}]
IsUpdate(r) == r \in [pc : {"idle", "write", "drop"}, policy : {r.policy}, before : {r.before}]
\* Whoever a call may still be served by was permitted by one policy it has seen in force.
Serves(r) ==
  /\ r.left # {} /\ r.left \subseteq Nat
  /\ \E q \in r.window : \A i \in r.left : G!Permits(q, r.kind, r.chain[i])
\* A call sees the policy that is, and those whose writers have not dropped the cache.
Sees(r) ==
  /\ policy \in r.window
  /\ \A u \in Updaters : update[u].pc = "drop" => update[u].before \in r.window
\* The cached row is the row, or one whose writer is about to drop the cache.
CacheIsFresh ==
  cached = None \/ cached = policy \/ \E u \in Updaters : update[u].pc = "drop" /\ update[u].before = cached
CallsAreFresh ==
  \A c \in Requests :
    /\ calling[c].hand \in {None, policy}
    /\ calling[c].pc \in {"try", "record"} => Serves(calling[c])
GovInv ==
  /\ calling = [c \in Requests |-> calling[c]] /\ \A c \in Requests : IsCall(calling[c])
  /\ update = [u \in Updaters |-> update[u]] /\ \A u \in Updaters : IsUpdate(update[u])
  /\ slack \in BOOLEAN
  /\ \A c \in Requests : calling[c].pc # "idle" => Sees(calling[c])
  /\ ~slack => CacheIsFresh /\ CallsAreFresh

LEMMA GovInit == G!Init => GovInv
<1> SUFFICES ASSUME G!Init PROVE GovInv
  OBVIOUS
<1>1. \A c \in Requests : calling[c] = G!NoCall
  BY DEF G!Init
<1>2. \A u \in Updaters : update[u] = G!NoUpdate
  BY DEF G!Init
<1>3. IsCall(G!NoCall) /\ G!NoCall.pc = "idle" /\ G!NoCall.hand = None
  BY DEF IsCall, G!NoCall
<1>4. IsUpdate(G!NoUpdate)
  BY DEF IsUpdate, G!NoUpdate
<1>5. calling = [c \in Requests |-> calling[c]] /\ update = [u \in Updaters |-> update[u]]
  BY DEF G!Init
<1>6. slack = FALSE /\ cached = None
  BY DEF G!Init
<1> QED BY <1>1, <1>2, <1>3, <1>4, <1>5, <1>6 DEF GovInv, CacheIsFresh, CallsAreFresh

\* One call goes on, and no policy changes.
LEMMA ACallGoesOn ==
  ASSUME GovInv, NEW c \in Requests, NEW r, IsCall(r), G!Goes(c, r),
         UNCHANGED <<policy, update, slack>>,
         cached' = cached \/ cached' = None \/ (~slack => cached' = policy),
         r.pc # "idle" => Sees(r),
         ~slack => r.hand \in {None, policy} /\ (r.pc \in {"try", "record"} => Serves(r))
  PROVE  GovInv'
<1>1. calling' = [calling EXCEPT ![c] = r]
  BY DEF G!Goes
<1>2. \A d \in Requests : calling'[d] = IF d = c THEN r ELSE calling[d]
  BY <1>1 DEF GovInv
<1>3. calling' = [d \in Requests |-> calling'[d]] /\ \A d \in Requests : IsCall(calling'[d])
  BY <1>1, <1>2 DEF GovInv
<1>4. \A d \in Requests : calling'[d].pc # "idle" => Sees(calling'[d])
  BY <1>2 DEF GovInv
<1>6. \A d \in Requests : (calling'[d].pc # "idle" => Sees(calling[d])')
  BY <1>4 DEF Sees
<1>7. ~slack => CacheIsFresh'
  BY DEF GovInv, CacheIsFresh
<1>8. ~slack => CallsAreFresh'
  BY <1>2 DEF GovInv, CallsAreFresh, Serves
<1> QED BY <1>3, <1>6, <1>7, <1>8 DEF GovInv, IsUpdate

\* What a call does with a policy it has seen in force and that is in force, or lingers.
LEMMA ObeyingIsFresh ==
  ASSUME GovInv, NEW c \in Requests, NEW STATE q, G!Obeys(c, q),
         calling[c].pc \in {"budget", "chain"}, UNCHANGED <<policy, update, slack>>,
         cached' = cached \/ (~slack => cached' = policy),
         ~slack => q \in calling[c].window
  PROVE  GovInv'
<1> DEFINE r == calling[c]
           k == calling[c].kind
<1>1. IsCall(r) /\ Sees(r) /\ r.pc # "idle"
  BY DEF GovInv
<1>2. CASE G!At(c, "budget")
  <2> DEFINE s == [r EXCEPT !.pc = IF q.limited THEN "total" ELSE "chain", !.hand = None]
  <2>1. /\ G!Goes(c, s) /\ IsCall(s) /\ s.window = r.window /\ s.hand = None
        /\ s.pc \in {"total", "chain"}
    BY <1>1, <1>2 DEF G!Obeys, G!At, IsCall
  <2>2. Sees(s)
    BY <1>1, <2>1 DEF Sees
  <2> HIDE DEF s, r
  <2> QED BY <2>1, <2>2, ACallGoesOn
<1>3. CASE ~G!At(c, "budget") /\ G!Permitted(q, k) = {}
  <2>1. G!Goes(c, G!NoCall)
    BY <1>3 DEF G!Obeys, G!Ends
  <2>2. IsCall(G!NoCall) /\ G!NoCall.pc = "idle" /\ G!NoCall.hand = None
    BY DEF IsCall, G!NoCall
  <2> QED BY <2>1, <2>2, ACallGoesOn
<1>4. CASE ~G!At(c, "budget") /\ G!Permitted(q, k) # {}
  <2> DEFINE s == [r EXCEPT !.pc = "try", !.chain = G!Order(k), !.left = G!Permitted(q, k),
                            !.attempt = 1, !.hand = None]
  <2>1. G!Goes(c, s)
    BY <1>4 DEF G!Obeys
  <2>2. /\ IsCall(s) /\ s.window = r.window /\ s.hand = None /\ s.pc = "try" /\ s.kind = k
        /\ s.chain = G!Order(k) /\ s.left = G!Permitted(q, k)
    BY <1>1 DEF IsCall
  <2>3. Sees(s)
    BY <1>1, <2>2 DEF Sees
  <2>4. ~slack => Serves(s)
    BY <1>4, <2>2 DEF Serves, G!Permitted
  <2> HIDE DEF s, r
  <2> QED BY <2>1, <2>2, <2>3, <2>4, ACallGoesOn
<1> QED BY <1>2, <1>3, <1>4

LEMMA GovByReading ==
  ASSUME GovInv, NEW c \in Requests, G!FindsPolicy(c) \/ G!ReadsPolicy(c) \/ G!StoresPolicy(c)
  PROVE  GovInv'
<1>1. CASE G!FindsPolicy(c)
  <2>1. /\ calling[c].pc \in {"budget", "chain"} /\ cached # None /\ G!Obeys(c, cached)
        /\ UNCHANGED <<policy, update, slack, cached>>
    BY <1>1 DEF G!FindsPolicy
  <2>2. ~slack => cached \in calling[c].window
    BY <2>1 DEF GovInv, CacheIsFresh, Sees
  <2> QED BY <2>1, <2>2, ObeyingIsFresh
<1>2. CASE G!ReadsPolicy(c)
  <2> DEFINE s == [calling[c] EXCEPT !.hand = policy]
  <2>1. /\ G!Goes(c, s) /\ UNCHANGED <<policy, update, slack, cached>>
        /\ calling[c].pc \in {"budget", "chain"} /\ IsCall(calling[c]) /\ Sees(calling[c])
    BY <1>2 DEF G!ReadsPolicy, GovInv
  <2>2. IsCall(s) /\ s.pc = calling[c].pc /\ s.hand = policy /\ s.window = calling[c].window
    BY <2>1 DEF IsCall
  <2>3. Sees(s)
    BY <2>1, <2>2 DEF Sees
  <2> HIDE DEF s
  <2> QED BY <2>1, <2>2, <2>3, ACallGoesOn
<1>3. CASE G!StoresPolicy(c)
  <2>1. /\ calling[c].pc \in {"budget", "chain"} /\ calling[c].hand # None
        /\ cached' = calling[c].hand /\ G!Obeys(c, calling[c].hand)
        /\ UNCHANGED <<policy, update, slack>>
    BY <1>3 DEF G!StoresPolicy
  <2>2. ~slack => calling[c].hand = policy
    BY <2>1 DEF GovInv, CallsAreFresh
  <2>3. policy \in calling[c].window
    BY <2>1 DEF GovInv, Sees
  <2> QED BY <2>1, <2>2, <2>3, ObeyingIsFresh
<1> QED BY <1>1, <1>2, <1>3

\* What leaves the policy, the cache and the window alone.
LEMMA GovByCalling ==
  ASSUME GovInv, NEW c \in Requests,
         \/ \E k \in Asked : G!Asks(c, k)
         \/ G!ReadsTotal(c) \/ G!StoresTotal(c)
         \/ G!Answers(c) \/ G!TriesAgain(c) \/ G!PassesOver(c) \/ G!Records(c)
  PROVE  GovInv'
<1> DEFINE r == calling[c]
<1>0. IsCall(r) /\ (r.pc # "idle" => Sees(r)) /\ slack \in BOOLEAN
  BY DEF GovInv
<1>e. ASSUME G!Goes(c, G!NoCall), UNCHANGED <<policy, update, slack, cached>> PROVE GovInv'
  <2>1. IsCall(G!NoCall) /\ G!NoCall.pc = "idle" /\ G!NoCall.hand = None
    BY DEF IsCall, G!NoCall
  <2> QED BY <1>e, <2>1, ACallGoesOn
<1>l. Serves(r) => G!Others(c) \subseteq r.left /\ (G!Others(c) # {} => G!Others(c) \subseteq Nat)
  BY DEF Serves, G!Others
\* One more attempt, the next provider, or another thing to wait for.
<1>g. ASSUME NEW s, G!Goes(c, s), UNCHANGED <<policy, update, slack, cached>>,
             IsCall(s), r.pc # "idle", s.pc # "idle", s.window = r.window, s.kind = r.kind,
             s.hand \in {None, r.hand}, 
             s.pc \in {"try", "record"} =>
               /\ r.pc \in {"try", "record"} /\ s.chain = r.chain
               /\ s.left = r.left \/ (s.left = G!Others(c) /\ s.left # {})
      PROVE  GovInv'
  <2>1. Sees(s)
    BY <1>0, <1>g DEF Sees
  <2>2. ~slack => s.hand \in {None, policy} /\ (s.pc \in {"try", "record"} => Serves(s))
    BY <1>0, <1>l, <1>g DEF GovInv, CallsAreFresh, Serves
  <2> QED BY <1>0, <1>g, <2>1, <2>2, ACallGoesOn
<1>1. ASSUME NEW k \in Asked, G!Asks(c, k) PROVE GovInv'
  <2> DEFINE s == [G!NoCall EXCEPT !.pc = IF G!Budgeted(k) THEN "budget" ELSE "chain", !.kind = k,
                                   !.window = {policy} \cup G!Lingering]
  <2>1. G!Goes(c, s) /\ UNCHANGED <<policy, update, slack, cached>>
    BY <1>1 DEF G!Asks
  <2>2. IsCall(s) /\ s.hand = None /\ s.pc \in {"budget", "chain"} /\ s.window = {policy} \cup G!Lingering
    BY DEF IsCall, G!NoCall
  <2>3. Sees(s)
    BY <2>2 DEF Sees, G!Lingering
  <2> HIDE DEF s
  <2> QED BY <2>1, <2>2, <2>3, ACallGoesOn
<1>2. ASSUME NEW sum, G!Admits(c, sum), r.pc # "idle", UNCHANGED <<policy, update, slack, cached>>
      PROVE  GovInv'
  <2> DEFINE s == [r EXCEPT !.pc = "chain", !.hand = None]
  <2>1. G!Goes(c, G!NoCall) \/ G!Goes(c, s)
    BY <1>2 DEF G!Admits, G!Ends
  <2>2. IsCall(s) /\ s.pc = "chain" /\ s.hand = None /\ s.window = r.window /\ s.kind = r.kind
    BY <1>0 DEF IsCall
  <2> HIDE DEF s, r
  <2> QED BY <1>2, <1>e, <1>g, <2>1, <2>2
<1>3. CASE G!ReadsTotal(c)
  <2> DEFINE s == [r EXCEPT !.pc = "sum", !.attempt = spend]
  <2>1. /\ G!Admits(c, total) \/ G!Goes(c, s)
        /\ UNCHANGED <<policy, update, slack, cached>>
    BY <1>3 DEF G!ReadsTotal, G!At
  <2>2. IsCall(s) /\ s.pc = "sum" /\ s.hand = r.hand /\ s.window = r.window /\ s.kind = r.kind
    BY <1>0 DEF IsCall
  <2>3. r.pc # "idle"
    BY <1>3 DEF G!ReadsTotal, G!At
  <2> HIDE DEF s, r
  <2> QED BY <1>2, <1>g, <2>1, <2>2, <2>3
<1>4. CASE G!StoresTotal(c)
  <2>1. G!Admits(c, r.attempt) /\ r.pc # "idle" /\ UNCHANGED <<policy, update, slack, cached>>
    BY <1>4 DEF G!StoresTotal, G!At
  <2> QED BY <1>2, <2>1
<1>5. CASE G!Answers(c)
  <2> DEFINE s == [r EXCEPT !.pc = "record"]
  <2>1. /\ G!Goes(c, G!NoCall) \/ G!Goes(c, s)
        /\ r.pc = "try" /\ UNCHANGED <<policy, update, slack, cached>>
    BY <1>5 DEF G!Answers, G!At, G!Ends
  <2>2. /\ IsCall(s) /\ s.pc = "record" /\ s.hand = r.hand /\ s.window = r.window /\ s.kind = r.kind
        /\ s.chain = r.chain /\ s.left = r.left
    BY <1>0 DEF IsCall
  <2> HIDE DEF s, r
  <2> QED BY <1>e, <1>g, <2>1, <2>2
<1>6. CASE G!TriesAgain(c)
  <2> DEFINE s == [r EXCEPT !.attempt = @ + 1]
  <2>1. G!Goes(c, s) /\ r.pc = "try" /\ UNCHANGED <<policy, update, slack, cached>>
    BY <1>6 DEF G!TriesAgain, G!At
  <2>2. /\ IsCall(s) /\ s.pc = r.pc /\ s.hand = r.hand /\ s.window = r.window /\ s.kind = r.kind
        /\ s.chain = r.chain /\ s.left = r.left
    BY <1>0 DEF IsCall
  <2> HIDE DEF s, r
  <2> QED BY <1>g, <2>1, <2>2
<1> DEFINE next == [r EXCEPT !.pc = "try", !.left = G!Others(c), !.attempt = 1]
<1>n. /\ IsCall(next) /\ next.pc = "try" /\ next.hand = r.hand /\ next.window = r.window
      /\ next.kind = r.kind /\ next.chain = r.chain /\ next.left = G!Others(c)
  BY <1>0 DEF IsCall
<1>7. CASE G!PassesOver(c)
  <2>1. /\ r.pc = "try" /\ UNCHANGED <<policy, update, slack, cached>>
        /\ \/ G!Goes(c, G!NoCall)
           \/ G!Others(c) # {} /\ G!Goes(c, [r EXCEPT !.left = G!Others(c), !.attempt = 1])
    BY <1>7 DEF G!PassesOver, G!At, G!Ends
  <2>2. [r EXCEPT !.left = G!Others(c), !.attempt = 1] = next
    BY <1>0, <2>1 DEF IsCall
  <2> HIDE DEF next, r
  <2> QED BY <1>e, <1>g, <1>n, <2>1, <2>2
<1>8. CASE G!Records(c)
  <2>1. /\ r.pc = "record" /\ UNCHANGED <<policy, update, slack, cached>>
        /\ G!Goes(c, G!NoCall) \/ (G!Others(c) # {} /\ G!Goes(c, next))
    BY <1>8 DEF G!Records, G!At, G!Ends
  <2> HIDE DEF next, r
  <2> QED BY <1>e, <1>g, <1>n, <2>1
<1> QED BY <1>1, <1>3, <1>4, <1>5, <1>6, <1>7, <1>8

LEMMA GovByUpdates ==
  ASSUME GovInv, NEW u \in Updaters,
         (\E q \in AiPolicies : G!UpdateReads(u, q)) \/ G!UpdateStops(u) \/ G!UpdateWrites(u)
  PROVE  GovInv'
\* No policy comes into force and no call goes on: what lingers may only become less, and
\* the slack may only become more.
<1>a. ASSUME NEW s, IsUpdate(s), update' = [update EXCEPT ![u] = s], s.pc # "drop",
             UNCHANGED <<policy, calling>>, slack' \in BOOLEAN, ~slack' => ~slack,
             ~slack' => cached' = None \/ (cached' = cached /\ update[u].pc # "drop")
      PROVE  GovInv'
  <2>1. \A v \in Updaters : update'[v] = IF v = u THEN s ELSE update[v]
    BY <1>a DEF GovInv
  <2>2. update' = [v \in Updaters |-> update'[v]] /\ \A v \in Updaters : IsUpdate(update'[v])
    BY <1>a, <2>1 DEF GovInv
  <2>3. \A c \in Requests : calling[c].pc # "idle" => Sees(calling[c])'
    BY <1>a, <2>1 DEF GovInv, Sees
  <2>4. ~slack' => CacheIsFresh'
    BY <1>a, <2>1 DEF GovInv, CacheIsFresh
  <2>5. ~slack' => CallsAreFresh'
    BY <1>a DEF GovInv, CallsAreFresh, Serves
  <2>6. /\ calling' = [c \in Requests |-> calling'[c]]
        /\ \A c \in Requests : IsCall(calling'[c]) /\ calling'[c] = calling[c]
    BY <1>a DEF GovInv, IsCall
  <2>7. \A c \in Requests : calling'[c].pc # "idle" => Sees(calling[c])'
    BY <2>3, <2>6
  <2> QED BY <1>a, <2>2, <2>4, <2>5, <2>6, <2>7 DEF GovInv
<1>0. IsUpdate(update[u]) /\ slack \in BOOLEAN
  BY DEF GovInv
<1>n. IsUpdate(G!NoUpdate) /\ G!NoUpdate.pc = "idle"
  BY DEF IsUpdate, G!NoUpdate
<1>1. ASSUME NEW q \in AiPolicies, G!UpdateReads(u, q) PROVE GovInv'
  <2> DEFINE s == [pc |-> "write", policy |-> q, before |-> None]
  <2>1. /\ update[u] = G!NoUpdate /\ update' = [update EXCEPT ![u] = s]
        /\ UNCHANGED <<policy, cached, calling, slack>>
    BY <1>1 DEF G!UpdateReads
  <2>2. IsUpdate(s) /\ s.pc = "write"
    BY DEF IsUpdate
  <2> HIDE DEF s
  <2> QED BY <1>0, <1>a, <1>n, <2>1, <2>2
<1>2. CASE G!UpdateStops(u)
  <2>1. /\ slack' = (slack \/ update[u].pc = "drop") /\ update' = [update EXCEPT ![u] = G!NoUpdate]
        /\ UNCHANGED <<policy, cached, calling>>
    BY <1>2 DEF G!UpdateStops
  <2>2. slack' \in BOOLEAN /\ (~slack' => ~slack /\ update[u].pc # "drop")
    BY <1>0, <2>1
  <2> QED BY <1>a, <1>n, <2>1, <2>2
<1>3. CASE G!UpdateWrites(u) /\ update[u].pc = "drop"
  <2>1. /\ cached' = None /\ update' = [update EXCEPT ![u] = G!NoUpdate]
        /\ UNCHANGED <<policy, calling, slack>>
    BY <1>3 DEF G!UpdateWrites
  <2> QED BY <1>0, <1>a, <1>n, <2>1
\* The row is written: every call sees the new policy, and the old one lingers.
<1>4. CASE G!UpdateWrites(u) /\ update[u].pc = "write"
  <2> DEFINE s == [update[u] EXCEPT !.pc = "drop", !.before = policy]
  <2>1. /\ G!Seen(policy') /\ cached' = cached
        /\ slack' = (slack \/ \E c \in Requests : calling[c].hand # None)
        /\ update' = [update EXCEPT ![u].pc = "drop", ![u].before = policy]
    BY <1>4 DEF G!UpdateWrites
  <2>2. IsUpdate(s) /\ s.pc = "drop" /\ s.before = policy
    BY <1>0 DEF IsUpdate
  <2>3. update' = [update EXCEPT ![u] = s]
    BY <2>1 DEF GovInv
  <2> HIDE DEF s
  <2>4. \A v \in Updaters : update'[v] = IF v = u THEN s ELSE update[v]
    BY <2>3 DEF GovInv
  <2>5. update' = [v \in Updaters |-> update'[v]] /\ \A v \in Updaters : IsUpdate(update'[v])
    BY <2>2, <2>3, <2>4 DEF GovInv
  <2>6. calling' = [c \in Requests |-> calling'[c]]
    BY <2>1 DEF G!Seen
  <2>7. ASSUME NEW c \in Requests
        PROVE  IF calling[c].pc = "idle" THEN calling'[c] = G!NoCall
               ELSE /\ calling'[c].window = calling[c].window \cup {policy'} /\ IsCall(calling'[c])
                    /\ calling'[c].pc = calling[c].pc /\ calling'[c].hand = calling[c].hand
                    /\ calling'[c].kind = calling[c].kind /\ calling'[c].chain = calling[c].chain
                    /\ calling'[c].left = calling[c].left
    <3>1. calling'[c] = IF calling[c].pc = "idle" THEN G!NoCall
                        ELSE [calling[c] EXCEPT !.window = @ \cup {policy'}]
      BY <2>1, <2>7 DEF G!Seen
    <3>2. IsCall(calling[c])
      BY DEF GovInv
    <3> QED BY <3>1, <3>2 DEF IsCall
  <2>8. IsCall(G!NoCall) /\ G!NoCall.pc = "idle" /\ G!NoCall.hand = None
    BY DEF IsCall, G!NoCall
  <2>9. \A c \in Requests : IsCall(calling'[c])
    BY <2>7, <2>8
  <2>10. ASSUME NEW c \in Requests, calling'[c].pc # "idle" PROVE Sees(calling[c])'
    <3>1. Sees(calling[c]) /\ calling'[c].window = calling[c].window \cup {policy'}
      BY <2>7, <2>8, <2>10 DEF GovInv
    <3> QED BY <2>2, <2>4, <3>1 DEF Sees
  <2>11. slack' \in BOOLEAN /\ (~slack' => ~slack)
    BY <1>0, <2>1
  <2>12. ~slack' => CacheIsFresh'
    <3>1. SUFFICES ASSUME ~slack', cached # None PROVE CacheIsFresh'
      BY <2>1 DEF CacheIsFresh
    <3>2. CASE cached = policy
      BY <2>1, <2>2, <2>4, <3>2 DEF CacheIsFresh
    <3>3. CASE \E v \in Updaters : update[v].pc = "drop" /\ update[v].before = cached
      BY <1>4, <2>1, <2>4, <3>3 DEF CacheIsFresh
    <3> QED BY <2>11, <3>1, <3>2, <3>3 DEF GovInv, CacheIsFresh
  <2>13. ASSUME ~slack', NEW c \in Requests
         PROVE  /\ calling'[c].hand = None
                /\ calling'[c].pc \in {"try", "record"} => Serves(calling[c])'
    <3>1. ~slack /\ calling[c].hand = None
      BY <2>1, <2>11, <2>13
    <3>2. calling[c].pc \in {"try", "record"} => Serves(calling[c])
      BY <3>1 DEF GovInv, CallsAreFresh
    <3> QED BY <2>7, <2>8, <3>1, <3>2 DEF Serves
  <2>14. ~slack' => CallsAreFresh'
    BY <2>13 DEF CallsAreFresh
  <2> QED BY <2>5, <2>6, <2>9, <2>10, <2>11, <2>12, <2>14 DEF GovInv
<1> QED BY <1>1, <1>2, <1>3, <1>4 DEF G!UpdateWrites

\* The cache expires; once no call is in flight there is no slack any more.
LEMMA GovByExpiry ==
  ASSUME GovInv, G!PolicyExpires
  PROVE  GovInv'
<1>1. /\ cached' = None /\ slack' = (slack /\ \E c \in Requests : calling[c] # G!NoCall)
      /\ UNCHANGED <<policy, update, calling>>
  BY DEF G!PolicyExpires
<1>2. slack' \in BOOLEAN /\ (~slack' /\ slack => \A c \in Requests : calling[c] = G!NoCall)
  BY <1>1 DEF GovInv
<1>3. G!NoCall.pc = "idle" /\ G!NoCall.hand = None
  BY DEF G!NoCall
<1>4. ~slack' => CallsAreFresh'
  BY <1>1, <1>2, <1>3 DEF GovInv, CallsAreFresh, Serves
<1>5. CacheIsFresh'
  BY <1>1 DEF CacheIsFresh
<1>6. \A c \in Requests : calling[c].pc # "idle" => Sees(calling[c])'
  BY <1>1 DEF GovInv, Sees
<1> QED BY <1>1, <1>2, <1>4, <1>5, <1>6 DEF GovInv, IsCall, IsUpdate, Sees

LEMMA GovElsewhere ==
  ASSUME GovInv, UNCHANGED <<policy, cached, calling, update, slack>>
  PROVE  GovInv'
<1>1. \A c \in Requests : calling[c].pc # "idle" => Sees(calling[c])'
  BY DEF GovInv, Sees
<1> QED BY <1>1 DEF GovInv, IsCall, IsUpdate, Sees, CacheIsFresh, CallsAreFresh, Serves

LEMMA GovNext == GovInv /\ (G!Next \/ UNCHANGED modelVars) => GovInv'
<1> SUFFICES ASSUME GovInv, G!Next \/ UNCHANGED modelVars PROVE GovInv'
  OBVIOUS
<1>1. CASE UNCHANGED modelVars
  BY <1>1, GovElsewhere DEF modelVars
<1>2. ASSUME NEW u \in Updaters,
             (\E q \in AiPolicies : G!UpdateReads(u, q)) \/ G!UpdateStops(u) \/ G!UpdateWrites(u)
      PROVE  GovInv'
  BY <1>2, GovByUpdates
<1>3. ASSUME NEW p, G!SetsRoute(p) PROVE GovInv'
  BY <1>3, GovElsewhere DEF G!SetsRoute
<1>4. CASE G!PolicyExpires
  BY <1>4, GovByExpiry
<1>5. CASE G!TotalExpires
  BY <1>5, GovElsewhere DEF G!TotalExpires
<1>6. ASSUME NEW c \in Requests, G!FindsPolicy(c) \/ G!ReadsPolicy(c) \/ G!StoresPolicy(c) PROVE GovInv'
  BY <1>6, GovByReading
<1>7. ASSUME NEW c \in Requests,
         \/ \E k \in Asked : G!Asks(c, k)
         \/ G!ReadsTotal(c) \/ G!StoresTotal(c)
         \/ G!Answers(c) \/ G!TriesAgain(c) \/ G!PassesOver(c) \/ G!Records(c)
      PROVE  GovInv'
  BY <1>7, GovByCalling
<1> QED BY <1>1, <1>2, <1>3, <1>4, <1>5, <1>6, <1>7 DEF G!Next

\* For any number of calls and updates, any policies and any providers: whoever is asked
\* was permitted by a policy in force since the call began, but for the overlaps that
\* slack names (governance.service.ts:134-138, gateway.service.ts:168-204).
THEOREM ChangesBindTheorem == AllSpec => []ChangesBind
<1>1. AllInit => GovInv
  BY StartsEveryPart, GovInit
<1>2. GovInv /\ [AllNext]_AllVars => GovInv'
  BY StepsOnePart, GovNext
<1>3. GovInv => ChangesBind
  <2> SUFFICES ASSUME GovInv, ~slack, NEW c \in Requests, G!At(c, "try")
               PROVE  \E q \in calling[c].window : G!Permits(q, calling[c].kind, G!Serving(c))
    BY DEF ChangesBind, G!ChangesBind
  <2>1. Serves(calling[c])
    BY DEF GovInv, CallsAreFresh, G!At
  <2>2. G!Min(calling[c].left) \in calling[c].left
    BY <2>1, LeastIsLeft DEF Serves
  <2> QED BY <2>1, <2>2 DEF Serves, G!Serving
<1> QED BY <1>1, <1>2, <1>3, PTL DEF AllSpec

-----------------------------------------------------------------------------
(* A caller in a menu. Hops is a recursive function; that it exists, and where  *)
(* it leads, is shown by induction, which is that a set of naturals without a   *)
(* least element is empty.                                                      *)

LEMMA SetInduction ==
  ASSUME NEW S, 0 \in S, \A k \in Nat : k \in S => k + 1 \in S
  PROVE  Nat \subseteq S
<1> SUFFICES ASSUME Nat \ S # {} PROVE FALSE
  OBVIOUS
<1>1. PICK i \in Nat \ S : \A j \in Nat \ S : i <= j
  BY LeastNatural
<1>2. i # 0 /\ i - 1 \in Nat /\ ~(i <= i - 1)
  BY <1>1
<1>3. i - 1 \in S
  BY <1>1, <1>2
<1> QED BY <1>1, <1>2, <1>3

\* A path of k hops from n.
IsPath(f, n, k) == f = [j \in 0 .. k |-> IF j = 0 THEN n ELSE M!Hop(f[j - 1])]

LEMMA PathsExist ==
  ASSUME NEW n, MaxHops \in Nat
  PROVE  \E f : IsPath(f, n, MaxHops)
<1> DEFINE S == {k \in Nat : \E f : IsPath(f, n, k)}
<1>1. 0 \in S
  <2> DEFINE f == [j \in 0 .. 0 |-> n]
  <2>1. f = [j \in 0 .. 0 |-> IF j = 0 THEN n ELSE M!Hop(f[j - 1])]
    OBVIOUS
  <2> QED BY <2>1 DEF IsPath
<1>2. ASSUME NEW k \in Nat, k \in S PROVE k + 1 \in S
  <2>1. PICK f : IsPath(f, n, k)
    BY <1>2
  <2> DEFINE g == [j \in 0 .. k + 1 |-> IF j = k + 1 THEN M!Hop(f[k]) ELSE f[j]]
  <2>2. /\ \A j \in 0 .. k : f[j] = IF j = 0 THEN n ELSE M!Hop(f[j - 1])
    BY <2>1, Zenon DEF IsPath
  <2>3. ASSUME NEW j \in 0 .. k + 1 PROVE g[j] = IF j = 0 THEN n ELSE M!Hop(g[j - 1])
    <3>1. CASE j = k + 1
      <4>1. j # 0 /\ j - 1 = k /\ k \in 0 .. k + 1 /\ k # k + 1
        BY <3>1
      <4> QED BY <3>1, <4>1
    <3>2. CASE j # k + 1 /\ j # 0
      <4>1. j \in 0 .. k /\ j - 1 \in 0 .. k + 1 /\ j - 1 # k + 1
        BY <3>2
      <4> QED BY <2>2, <3>2, <4>1
    <3>3. CASE j = 0
      <4>1. 0 # k + 1 /\ 0 \in 0 .. k
        OBVIOUS
      <4> QED BY <2>2, <3>3, <4>1
    <3> QED BY <3>1, <3>2, <3>3
  <2>4. g = [j \in 0 .. k + 1 |-> IF j = 0 THEN n ELSE M!Hop(g[j - 1])]
    <3> HIDE DEF g
    <3>1. g = [j \in 0 .. k + 1 |-> g[j]]
      BY DEF g
    <3> QED BY <2>3, <3>1
  <2>5. k + 1 \in Nat
    OBVIOUS
  <2> QED BY <2>4, <2>5 DEF IsPath
<1> HIDE DEF S
<1>3. MaxHops \in S
  BY <1>1, <1>2, SetInduction
<1> QED BY <1>3 DEF S

LEMMA HopsIsAPath ==
  ASSUME NEW n, MaxHops \in Nat
  PROVE  IsPath(M!Hops(n), n, MaxHops)
<1> DEFINE at == CHOOSE f : IsPath(f, n, MaxHops)
<1>1. M!Hops(n) = at
  BY DEF M!Hops, IsPath
<1>2. IsPath(at, n, MaxHops)
  BY PathsExist
<1> QED BY <1>1, <1>2

\* In a flow that may be saved every hop leads to a node, or off the end.
There == MenuNodes \cup {None}
LEMMA HopsStayThere ==
  ASSUME M!Valid, NEW n \in There
  PROVE  \A k \in 0 .. MaxHops : M!Hops(n)[k] \in There
<1>0. MaxHops \in Nat
  BY LimitsAreNatural
<1> DEFINE at == M!Hops(n)
           S == {k \in Nat : k \in 0 .. MaxHops => at[k] \in There}
<1>1. \A k \in 0 .. MaxHops : at[k] = IF k = 0 THEN n ELSE M!Hop(at[k - 1])
  <2>1. at = [j \in 0 .. MaxHops |-> IF j = 0 THEN n ELSE M!Hop(at[j - 1])]
    BY <1>0, HopsIsAPath DEF IsPath
  <2> HIDE DEF at
  <2> QED BY <2>1, Zenon
<1> HIDE DEF at
<1>2. 0 \in S
  BY <1>0, <1>1
<1>3. ASSUME NEW k \in Nat, k \in S PROVE k + 1 \in S
  <2> SUFFICES ASSUME k + 1 \in 0 .. MaxHops PROVE at[k + 1] \in There
    BY <1>3
  <2>1. at[k] \in There
    BY <1>0, <1>3
  <2>2. at[k + 1] = M!Hop(at[k])
    BY <1>0, <1>1, k + 1 # 0 /\ (k + 1) - 1 = k
  <2>3. at[k] \in MenuNodes => menu[at[k]].next \in There
    BY DEF M!Valid, M!LinksAreThere, M!LinksOf, M!There, There
  <2> QED BY <2>1, <2>2, <2>3 DEF M!Hop, There
<1> HIDE DEF S
<1>4. Nat \subseteq S
  BY <1>2, <1>3, SetInduction
<1> QED BY <1>0, <1>4 DEF S, at

\* A walk ends the call as it may end, or waits at a node of the flow that was not tried yet.
LEMMA WalkLeads ==
  ASSUME M!Valid, NEW n \in There
  PROVE  \/ \E why \in {"exhausted", "hangup", "outcome"} : M!Walk(n) = M!Left(why)
         \/ \E m \in MenuNodes : M!Walk(n) = M!Waits(m, 0)
<1> DEFINE at == M!Hops(n)
           stops == {k \in 0 .. MaxHops - 1 : at[k] \notin MenuNodes \/ menu[at[k]].type # "say"}
           first == at[CHOOSE k \in stops : \A j \in stops : k <= j]
<1>1. stops # {} => first \in There
  <2> SUFFICES ASSUME stops # {} PROVE first \in There
    OBVIOUS
  <2>1. stops \in SUBSET Nat /\ stops \subseteq 0 .. MaxHops
    BY LimitsAreNatural
  <2>2. \E k \in stops : \A j \in stops : k <= j
    BY <2>1, LeastNatural
  <2>3. (CHOOSE k \in stops : \A j \in stops : k <= j) \in stops
    BY <2>2
  <2> QED BY <2>1, <2>3, HopsStayThere
<1>2. M!Walk(n) = IF stops = {} THEN M!Left("exhausted")
                  ELSE IF first = None THEN M!Left("hangup")
                  ELSE IF first \notin MenuNodes THEN M!Left("broken")
                  ELSE IF menu[first].type \in M!Terminals THEN M!Left("outcome")
                  ELSE M!Waits(first, 0)
  BY DEF M!Walk
<1> HIDE DEF stops, first
<1> QED BY <1>1, <1>2 DEF There

\* The invariant behind it: what was saved is valid, a caller waits at a node of it, and
\* has heard it once more than it was tried again.
MenuInv ==
  /\ place = M!Left("before") \/ M!Valid
  /\ place.left # "broken"
  /\ IF place.left = "no"
     THEN place.node \in MenuNodes /\ place.retries \in 0 .. MaxRetries /\ heard = place.retries + 1
     ELSE heard \in {0, 1}

LEMMA MenuInit == M!Init => MenuInv
  BY DEF M!Init, MenuInv, M!Left

\* The flow does not change while a caller is in it.
LEMMA ValidStays == M!Valid /\ menu' = menu => M!Valid'
  BY DEF M!Valid, M!LinksAreThere, M!LinksOf

LEMMA MenuNext == MenuInv /\ (M!Next \/ UNCHANGED menuVars) => MenuInv'
<1> SUFFICES ASSUME MenuInv, M!Next \/ UNCHANGED menuVars PROVE MenuInv'
  OBVIOUS
<1>0. MaxRetries \in Nat
  BY LimitsAreNatural
\* A walk from a node of the flow, or from nowhere.
<1>w. ASSUME NEW n \in There, M!Valid, place' = M!Walk(n), heard' = 1, menu' = menu PROVE MenuInv'
  <2>1. \/ \E why \in {"exhausted", "hangup", "outcome"} : place' = M!Left(why)
        \/ \E m \in MenuNodes : place' = M!Waits(m, 0)
    BY <1>w, WalkLeads
  <2> QED BY <1>0, <1>w, <2>1, ValidStays DEF MenuInv, M!Left, M!Waits
<1>1. CASE UNCHANGED menuVars
  BY <1>1, ValidStays DEF menuVars, MenuInv
<1>2. CASE M!Saves
  <2>1. M!Valid' /\ place' = M!Left("saved") /\ heard' = heard /\ place = M!Left("before")
    BY <1>2 DEF M!Saves
  <2> QED BY <2>1 DEF MenuInv, M!Left
<1>3. CASE M!Enters
  <2>1. place = M!Left("saved") /\ place' = M!Walk(MenuEntry) /\ heard' = 1 /\ menu' = menu
    BY <1>3 DEF M!Enters
  <2>2. M!Valid /\ MenuEntry \in There
    BY <2>1 DEF MenuInv, M!Left, M!Valid, There
  <2> QED BY <1>w, <2>1, <2>2
<1>4. ASSUME NEW input \in {"known", "unknown", "silence"}, M!Input(input) PROVE MenuInv'
  <2>1. /\ place.left = "no" /\ place' = M!Resolve(input) /\ menu' = menu
        /\ heard' = IF M!Unlinked(input) /\ place'.left = "no" THEN heard + 1 ELSE 1
    BY <1>4 DEF M!Input
  <2>2. /\ M!Valid /\ place.node \in MenuNodes /\ place.retries \in 0 .. MaxRetries
        /\ heard = place.retries + 1
    BY <2>1 DEF MenuInv, M!Left
  <2>3. CASE M!Unlinked(input)
    <3>1. place' = IF place.retries >= MaxRetries THEN M!Left("exhausted")
                   ELSE M!Waits(place.node, place.retries + 1)
      BY <2>1, <2>3 DEF M!Resolve, M!RetryOrGiveUp, M!Counted
    <3> QED BY <1>0, <2>1, <2>2, <2>3, <3>1, ValidStays DEF MenuInv, M!Left, M!Waits
  <2>4. CASE ~M!Unlinked(input)
    <3>1. M!LinkFor(input) \in There
      BY <2>2 DEF M!LinkFor, M!Valid, M!LinksAreThere, M!LinksOf, M!There, There
    <3>2. place' = M!Left("exhausted") \/ place' = M!Walk(M!LinkFor(input))
      BY <2>1, <2>4 DEF M!Resolve
    <3>3. heard' = 1
      BY <2>1, <2>4
    <3>4. CASE place' = M!Left("exhausted")
      BY <2>1, <2>2, <3>3, <3>4, ValidStays DEF MenuInv, M!Left
    <3> QED BY <1>w, <2>1, <2>2, <3>1, <3>2, <3>3, <3>4
  <2> QED BY <2>3, <2>4
<1> QED BY <1>1, <1>2, <1>3, <1>4 DEF M!Next

-----------------------------------------------------------------------------
(* Numbers, and the flows they route to.                                        *)

LEMMA CardinalityThere == \A S : P!Cardinality(S) = Cardinality(S)
  BY Zenon DEF P!Cardinality, Cardinality

IsTask(t) == t \in [pc : {t.pc}, of : {t.of}, to : {t.to}]
\* A route that was checked and is about to be written leads to a flow, or is excused.
WillLead ==
  \A r \in Requests :
    task[r].pc = "route" => task[r].to \in flow.there \cup {None} \/ task[r].of \in excuse
\* While one activation is under way no flow is active; otherwise one is at most.
OneIsActive ==
  "active" \in excuse \/
    /\ \A f, g \in flow.active : f = g
    /\ \A r \in Requests : task[r].pc = "activate" => flow.active = {}
RouteInv ==
  /\ flow \in [there : {flow.there}, active : {flow.active}]
  /\ task = [r \in Requests |-> task[r]] /\ \A r \in Requests : IsTask(task[r])
  /\ route = [n \in Numbers |-> route[n]]
  /\ P!RoutesLead /\ WillLead /\ OneIsActive

LEMMA RouteInit == P!Init => RouteInv
<1> SUFFICES ASSUME P!Init PROVE RouteInv
  OBVIOUS
<1>1. IsTask(P!NoTask) /\ P!NoTask.pc = "idle"
  BY DEF IsTask, P!NoTask
<1>2. \A r \in Requests : task[r] = P!NoTask
  BY DEF P!Init
<1>3. flow = [there |-> {}, active |-> {}]
  BY DEF P!Init
<1>4. task = [r \in Requests |-> task[r]] /\ route = [n \in Numbers |-> route[n]]
  BY DEF P!Init
<1>5. P!RoutesLead
  BY DEF P!Init, P!RoutesLead
<1> QED BY <1>1, <1>2, <1>3, <1>4, <1>5 DEF RouteInv, WillLead, OneIsActive

\* A request begins or ends.
LEMMA ATaskMoves ==
  ASSUME RouteInv, NEW r \in Requests, NEW t, IsTask(t), task' = [task EXCEPT ![r] = t]
  PROVE  /\ task' = [q \in Requests |-> task'[q]] /\ \A q \in Requests : IsTask(task'[q])
         /\ \A q \in Requests : task'[q] = IF q = r THEN t ELSE task[q]
BY DEF RouteInv

LEMMA NoTaskIs == IsTask(P!NoTask) /\ P!NoTask.pc = "idle"
  BY DEF IsTask, P!NoTask

LEMMA RouteByTargets ==
  ASSUME RouteInv, NEW r \in Requests, NEW n \in Numbers, NEW f, P!Targets(r, n, f) \/ P!Patches(r, n, f)
  PROVE  RouteInv'
<1>1. CASE P!Targets(r, n, f)
  <2> DEFINE t == [pc |-> "route", of |-> n, to |-> f]
  <2>1. /\ f \in flow.there \cup {None} /\ task' = [task EXCEPT ![r] = t]
        /\ UNCHANGED <<flow, route, excuse>>
    BY <1>1 DEF P!Targets, P!TargetThere, P!Begins
  <2>2. IsTask(t) /\ t.pc = "route" /\ t.to = f
    BY DEF IsTask
  <2> HIDE DEF t
  <2>3. /\ task' = [q \in Requests |-> task'[q]] /\ \A q \in Requests : IsTask(task'[q])
        /\ \A q \in Requests : task'[q] = IF q = r THEN t ELSE task[q]
    BY <2>1, <2>2, ATaskMoves
  <2> QED BY <2>1, <2>2, <2>3 DEF RouteInv, P!RoutesLead, WillLead, OneIsActive
<1>2. CASE P!Patches(r, n, f)
  <2>1. /\ route' = [route EXCEPT ![n] = f]
        /\ excuse' = IF f \in flow.there THEN excuse ELSE excuse \cup {n}
        /\ UNCHANGED <<flow, task>>
    BY <1>2 DEF P!Patches
  <2> QED BY <2>1 DEF RouteInv, P!RoutesLead, WillLead, OneIsActive
<1> QED BY <1>1, <1>2

LEMMA RouteByRoutes ==
  ASSUME RouteInv, NEW r \in Requests, P!Routes(r)
  PROVE  RouteInv'
<1>1. /\ task[r].pc = "route" /\ route' = [route EXCEPT ![task[r].of] = task[r].to]
      /\ excuse \subseteq excuse' /\ ("active" \in excuse' => "active" \in excuse \/ task[r].of = "active")
      /\ task' = [task EXCEPT ![r] = P!NoTask] /\ flow' = flow
  BY DEF P!Routes, P!At, P!Over
<1>2. /\ task' = [q \in Requests |-> task'[q]] /\ \A q \in Requests : IsTask(task'[q])
      /\ \A q \in Requests : task'[q] = IF q = r THEN P!NoTask ELSE task[q]
  BY <1>1, NoTaskIs, ATaskMoves
<1>3. P!RoutesLead'
  BY <1>1 DEF RouteInv, P!RoutesLead, WillLead
<1>4. WillLead'
  BY <1>1, <1>2, NoTaskIs DEF RouteInv, WillLead
<1>5. OneIsActive'
  BY <1>1, <1>2, NoTaskIs DEF RouteInv, OneIsActive
<1> QED BY <1>1, <1>2, <1>3, <1>4, <1>5 DEF RouteInv

LEMMA RouteByFlows ==
  ASSUME RouteInv, NEW f, P!Creates(f) \/ P!Deactivates(f)
  PROVE  RouteInv'
<1>1. /\ flow' = [flow EXCEPT !.there = @ \cup {f}] \/ flow' = [flow EXCEPT !.active = @ \ {f}]
      /\ UNCHANGED <<route, task, excuse>>
  BY DEF P!Creates, P!Deactivates
<1>2. /\ flow' \in [there : {flow'.there}, active : {flow'.active}]
      /\ flow.there \subseteq flow'.there /\ flow'.active \subseteq flow.active
  BY <1>1 DEF RouteInv
<1> QED BY <1>1, <1>2 DEF RouteInv, P!RoutesLead, WillLead, OneIsActive, IsTask

LEMMA RouteByActivating ==
  ASSUME RouteInv, NEW r \in Requests, (\E f \in Flows : P!Retires(r, f)) \/ P!Activates(r)
  PROVE  RouteInv'
<1>1. ASSUME NEW f \in Flows, P!Retires(r, f) PROVE RouteInv'
  <2> DEFINE t == [pc |-> "activate", of |-> f, to |-> None]
  <2>1. /\ task' = [task EXCEPT ![r] = t] /\ flow' = [flow EXCEPT !.active = {}]
        /\ UNCHANGED <<route, excuse>>
    BY <1>1 DEF P!Retires, P!Begins, P!Retired
  <2>2. IsTask(t) /\ t.pc = "activate"
    BY DEF IsTask
  <2> HIDE DEF t
  <2>3. /\ task' = [q \in Requests |-> task'[q]] /\ \A q \in Requests : IsTask(task'[q])
        /\ \A q \in Requests : task'[q] = IF q = r THEN t ELSE task[q]
    BY <2>1, <2>2, ATaskMoves
  <2>4. /\ flow' \in [there : {flow'.there}, active : {flow'.active}]
        /\ flow'.there = flow.there /\ flow'.active = {}
    BY <2>1 DEF RouteInv
  <2> QED BY <2>1, <2>2, <2>3, <2>4 DEF RouteInv, P!RoutesLead, WillLead, OneIsActive
<1>2. CASE P!Activates(r)
  <2>1. /\ task[r].pc = "activate" /\ task' = [task EXCEPT ![r] = P!NoTask]
        /\ flow' = flow \/ flow' = [flow EXCEPT !.active = @ \cup {task[r].of}]
        /\ excuse' = IF \E q \in Requests \ {r} : task[q].pc = "activate"
                     THEN excuse \cup {"active"} ELSE excuse
        /\ UNCHANGED route
    BY <1>2 DEF P!Activates, P!At, P!Over
  <2>2. /\ task' = [q \in Requests |-> task'[q]] /\ \A q \in Requests : IsTask(task'[q])
        /\ \A q \in Requests : task'[q] = IF q = r THEN P!NoTask ELSE task[q]
    BY <2>1, NoTaskIs, ATaskMoves
  <2>3. /\ flow' \in [there : {flow'.there}, active : {flow'.active}]
        /\ flow'.there = flow.there /\ flow'.active \subseteq flow.active \cup {task[r].of}
    BY <2>1 DEF RouteInv
  <2>4. excuse \subseteq excuse'
    BY <2>1
  <2>5. P!RoutesLead' /\ WillLead'
    BY <2>1, <2>2, <2>3, <2>4, NoTaskIs DEF RouteInv, P!RoutesLead, WillLead
  <2>6. OneIsActive'
    <3> SUFFICES ASSUME "active" \notin excuse' PROVE OneIsActive'
      BY DEF OneIsActive
    <3>1. /\ "active" \notin excuse /\ flow.active = {}
          /\ \A q \in Requests \ {r} : task[q].pc # "activate"
      BY <2>1 DEF RouteInv, OneIsActive
    <3> QED BY <2>2, <2>3, <3>1, NoTaskIs DEF OneIsActive
  <2> QED BY <2>1, <2>2, <2>3, <2>5, <2>6 DEF RouteInv
<1> QED BY <1>1, <1>2

LEMMA RouteByDeleting ==
  ASSUME RouteInv, NEW r \in Requests, (\E f \in Flows : P!ReadsToDelete(r, f)) \/ P!Deletes(r)
  PROVE  RouteInv'
<1>1. ASSUME NEW f \in Flows, P!ReadsToDelete(r, f) PROVE RouteInv'
  <2> DEFINE t == [pc |-> "delete", of |-> f, to |-> None]
  <2>1. task' = [task EXCEPT ![r] = t] /\ UNCHANGED <<flow, route, excuse>>
    BY <1>1 DEF P!ReadsToDelete, P!Begins
  <2>2. IsTask(t) /\ t.pc = "delete"
    BY DEF IsTask
  <2> HIDE DEF t
  <2>3. /\ task' = [q \in Requests |-> task'[q]] /\ \A q \in Requests : IsTask(task'[q])
        /\ \A q \in Requests : task'[q] = IF q = r THEN t ELSE task[q]
    BY <2>1, <2>2, ATaskMoves
  <2> QED BY <2>1, <2>2, <2>3 DEF RouteInv, P!RoutesLead, WillLead, OneIsActive
<1>2. CASE P!Deletes(r)
  <2> DEFINE f == task[r].of
  <2>1. /\ flow' = [there |-> flow.there \ {f}, active |-> flow.active \ {f}]
        /\ excuse' = excuse \cup {n \in Numbers : route[n] = f}
                       \cup {task[q].of : q \in {q \in Requests : P!At(q, "route") /\ task[q].to = f}}
        /\ task' = [task EXCEPT ![r] = P!NoTask] /\ task[r].pc = "delete"
        /\ UNCHANGED route
    BY <1>2 DEF P!Deletes, P!Over, P!At
  <2>2. /\ task' = [q \in Requests |-> task'[q]] /\ \A q \in Requests : IsTask(task'[q])
        /\ \A q \in Requests : task'[q] = IF q = r THEN P!NoTask ELSE task[q]
    BY <2>1, NoTaskIs, ATaskMoves
  <2>3. /\ flow' \in [there : {flow'.there}, active : {flow'.active}]
        /\ flow'.there = flow.there \ {f} /\ flow'.active \subseteq flow.active
    BY <2>1
  <2>4. /\ excuse \subseteq excuse' /\ \A n \in Numbers : route[n] = f => n \in excuse'
        /\ \A q \in Requests : task[q].pc = "route" /\ task[q].to = f => task[q].of \in excuse'
    BY <2>1 DEF P!At
  <2> HIDE DEF f
  <2>5. P!RoutesLead'
    BY <2>1, <2>3, <2>4 DEF RouteInv, P!RoutesLead
  <2>6. WillLead'
    BY <2>2, <2>3, <2>4, NoTaskIs DEF RouteInv, WillLead
  <2>7. OneIsActive'
    BY <2>2, <2>3, <2>4, NoTaskIs DEF RouteInv, OneIsActive
  <2> QED BY <2>1, <2>2, <2>3, <2>5, <2>6, <2>7 DEF RouteInv
<1> QED BY <1>1, <1>2

LEMMA RouteElsewhere ==
  ASSUME RouteInv, UNCHANGED <<flow, task, excuse>>, 
         route' = route \/ \E n \in Numbers : route' = [route EXCEPT ![n] = P!Unset]
  PROVE  RouteInv'
  BY DEF RouteInv, P!RoutesLead, WillLead, OneIsActive, IsTask

LEMMA RouteNext == RouteInv /\ (P!Next \/ UNCHANGED routeVars) => RouteInv'
<1> SUFFICES ASSUME RouteInv, P!Next \/ UNCHANGED routeVars PROVE RouteInv'
  OBVIOUS
<1>1. CASE UNCHANGED routeVars
  BY <1>1, RouteElsewhere DEF routeVars
<1>2. ASSUME NEW n \in Numbers, P!Unroutes(n) PROVE RouteInv'
  BY <1>2, RouteElsewhere DEF P!Unroutes
<1> QED BY <1>1, <1>2, RouteByTargets, RouteByRoutes, RouteByFlows, RouteByActivating, RouteByDeleting
        DEF P!Next

\* For any menus, callers' keys, numbers, flows and overlapping requests: a caller hears a
\* node no more than its retries allow and is led to no node that is not there; a number
\* routes to a flow that is there and one flow is active, but for the overlaps each names
\* (ivr.ts:96-104, 235-273, ivr.service.ts:46-146, 204-237).
THEOREM CallersAreLedTheorem == AllSpec => []CallersAreLed
<1>1. AllInit => MenuInv /\ RouteInv
  BY StartsEveryPart, MenuInit, RouteInit
<1>2. MenuInv /\ [AllNext]_AllVars => MenuInv'
  BY StepsOnePart, MenuNext
<1>3. RouteInv /\ [AllNext]_AllVars => RouteInv'
  BY StepsOnePart, RouteNext
<1>4. MenuInv => M!PromptsBounded /\ M!NeverBroken
  BY LimitsAreNatural DEF MenuInv, M!PromptsBounded, M!NeverBroken
<1>5. RouteInv => P!OneActive
  <2> SUFFICES ASSUME \A f, g \in flow.active : f = g PROVE P!Cardinality(flow.active) <= 1
    BY DEF RouteInv, OneIsActive, P!OneActive
  <2>1. CASE flow.active = {}
    <3>1. Cardinality(flow.active) = 0
      BY <2>1, FS_EmptySet
    <3>2. P!Cardinality(flow.active) = Cardinality(flow.active)
      BY CardinalityThere
    <3> QED BY <3>1, <3>2
  <2>2. CASE flow.active # {}
    <3>1. PICK f : flow.active = {f}
      BY <2>2
    <3>2. Cardinality(flow.active) = 1
      BY <3>1, FS_Singleton
    <3>3. P!Cardinality(flow.active) = Cardinality(flow.active)
      BY CardinalityThere
    <3> QED BY <3>2, <3>3
  <2> QED BY <2>1, <2>2
<1>6. MenuInv /\ RouteInv => CallersAreLed
  BY <1>4, <1>5 DEF CallersAreLed, RouteInv
<1> QED BY <1>1, <1>2, <1>3, <1>6, PTL DEF AllSpec

-----------------------------------------------------------------------------
(* A telephone call. What a request has left to do is one of a few lists, and   *)
(* what it is doing the head of it.                                             *)

Doing(s) == IF s = <<>> THEN "none" ELSE Head(s)
Tells(x) == {<<"number", "note", x>>, <<"note", x>>, <<x>>}
SavesAnd(x) == {<<"number", "note", "loadControl", "saveControl", x>>, <<"note", "loadControl", "saveControl", x>>,
                <<"loadControl", "saveControl", x>>, <<"saveControl", x>>, <<x>>}
EndingLists == {<<"number", "note", "loadControl", "saveControl">>, <<"note", "loadControl", "saveControl">>,
                <<"loadControl", "saveControl">>, <<"saveControl">>}
OpeningLists == {<<"open", "insert", "number", "note", "isAnswered">>, <<"insert", "number", "note", "isAnswered">>}
CountingLists == {<<"answerTurn", "loadState", "saveState">>, <<"loadState", "saveState">>, <<"saveState">>}
NotingLists == {<<"number", "note">>, <<"note">>}
LoneLists == {<<"hear">>, <<"answer">>}
BeforeLists == {<<"join", "loadControl", "saveControl">>,
                <<"end", "number", "note", "loadControl", "saveControl">>}
Telling == {"isAnswered", "digits", "isEnded", "on_hold", "answered", "queue", "bridge", "external"}
Saved   == {"setAgent", "external", "decide"}
TellingLists == UNION {Tells(x) : x \in Telling}
SavingLists == UNION {SavesAnd(x) : x \in Saved}
Todos == {<<>>} \cup OpeningLists \cup EndingLists \cup CountingLists \cup NotingLists \cup LoneLists
         \cup BeforeLists \cup TellingLists \cup SavingLists

LEMMA TellsFollow ==
  ASSUME NEW x, NEW s \in Tells(x)
  PROVE  s # <<>> /\
    \/ Head(s) = "number" /\ Doing(Tail(s)) = "note" /\ Tail(s) \in Tells(x)
    \/ Head(s) = "note" /\ Doing(Tail(s)) = x /\ Tail(s) \in Tells(x)
    \/ Head(s) = x /\ Doing(Tail(s)) = "none" /\ Tail(s) = <<>>
<1>1. CASE s = <<"number", "note", x>>
  <2>1. s # <<>> /\ Head(s) = "number" /\ Tail(s) = <<"note", x>>
    BY <1>1
  <2>2. Doing(<<"note", x>>) = "note"
    BY DEF Doing
  <2> QED BY <2>1, <2>2 DEF Tells
<1>2. CASE s = <<"note", x>>
  <2>1. s # <<>> /\ Head(s) = "note" /\ Tail(s) = <<x>>
    BY <1>2
  <2>2. Doing(<<x>>) = x
    BY DEF Doing
  <2> QED BY <2>1, <2>2 DEF Tells
<1>3. CASE s = <<x>>
  <2>1. s # <<>> /\ Head(s) = x /\ Tail(s) = <<>>
    BY <1>3
  <2>2. Doing(<<>>) = "none"
    BY DEF Doing
  <2> QED BY <2>1, <2>2 DEF Tells
<1> QED BY <1>1, <1>2, <1>3 DEF Tells

LEMMA SavesFollow ==
  ASSUME NEW x, NEW s \in SavesAnd(x)
  PROVE  s # <<>> /\
    \/ Head(s) = "number" /\ Doing(Tail(s)) = "note" /\ Tail(s) \in SavesAnd(x)
    \/ Head(s) = "note" /\ Doing(Tail(s)) = "loadControl" /\ Tail(s) \in SavesAnd(x)
    \/ Head(s) = "loadControl" /\ Doing(Tail(s)) = "saveControl" /\ Tail(s) \in SavesAnd(x)
    \/ Head(s) = "saveControl" /\ Doing(Tail(s)) = x /\ Tail(s) \in SavesAnd(x)
    \/ Head(s) = x /\ Doing(Tail(s)) = "none" /\ Tail(s) = <<>>
<1>1. CASE s = <<"number", "note", "loadControl", "saveControl", x>>
  <2>1. s # <<>> /\ Head(s) = "number" /\ Tail(s) = <<"note", "loadControl", "saveControl", x>>
    BY <1>1
  <2>2. Doing(<<"note", "loadControl", "saveControl", x>>) = "note"
    BY DEF Doing
  <2> QED BY <2>1, <2>2 DEF SavesAnd
<1>2. CASE s = <<"note", "loadControl", "saveControl", x>>
  <2>1. s # <<>> /\ Head(s) = "note" /\ Tail(s) = <<"loadControl", "saveControl", x>>
    BY <1>2
  <2>2. Doing(<<"loadControl", "saveControl", x>>) = "loadControl"
    BY DEF Doing
  <2> QED BY <2>1, <2>2 DEF SavesAnd
<1>3. CASE s = <<"loadControl", "saveControl", x>>
  <2>1. s # <<>> /\ Head(s) = "loadControl" /\ Tail(s) = <<"saveControl", x>>
    BY <1>3
  <2>2. Doing(<<"saveControl", x>>) = "saveControl"
    BY DEF Doing
  <2> QED BY <2>1, <2>2 DEF SavesAnd
<1>4. CASE s = <<"saveControl", x>>
  <2>1. s # <<>> /\ Head(s) = "saveControl" /\ Tail(s) = <<x>>
    BY <1>4
  <2>2. Doing(<<x>>) = x
    BY DEF Doing
  <2> QED BY <2>1, <2>2 DEF SavesAnd
<1>5. CASE s = <<x>>
  <2>1. s # <<>> /\ Head(s) = x /\ Tail(s) = <<>>
    BY <1>5
  <2>2. Doing(<<>>) = "none"
    BY DEF Doing
  <2> QED BY <2>1, <2>2 DEF SavesAnd
<1> QED BY <1>1, <1>2, <1>3, <1>4, <1>5 DEF SavesAnd

LEMMA EndingsFollow ==
  ASSUME NEW s \in EndingLists
  PROVE  s # <<>> /\
    \/ Head(s) = "number" /\ Doing(Tail(s)) = "note" /\ Tail(s) \in EndingLists
    \/ Head(s) = "note" /\ Doing(Tail(s)) = "loadControl" /\ Tail(s) \in EndingLists
    \/ Head(s) = "loadControl" /\ Doing(Tail(s)) = "saveControl" /\ Tail(s) \in EndingLists
    \/ Head(s) = "saveControl" /\ Doing(Tail(s)) = "none" /\ Tail(s) = <<>>
<1>1. CASE s = <<"number", "note", "loadControl", "saveControl">>
  <2>1. s # <<>> /\ Head(s) = "number" /\ Tail(s) = <<"note", "loadControl", "saveControl">>
    BY <1>1
  <2>2. Doing(<<"note", "loadControl", "saveControl">>) = "note"
    BY DEF Doing
  <2> QED BY <2>1, <2>2 DEF EndingLists
<1>2. CASE s = <<"note", "loadControl", "saveControl">>
  <2>1. s # <<>> /\ Head(s) = "note" /\ Tail(s) = <<"loadControl", "saveControl">>
    BY <1>2
  <2>2. Doing(<<"loadControl", "saveControl">>) = "loadControl"
    BY DEF Doing
  <2> QED BY <2>1, <2>2 DEF EndingLists
<1>3. CASE s = <<"loadControl", "saveControl">>
  <2>1. s # <<>> /\ Head(s) = "loadControl" /\ Tail(s) = <<"saveControl">>
    BY <1>3
  <2>2. Doing(<<"saveControl">>) = "saveControl"
    BY DEF Doing
  <2> QED BY <2>1, <2>2 DEF EndingLists
<1>4. CASE s = <<"saveControl">>
  <2>1. s # <<>> /\ Head(s) = "saveControl" /\ Tail(s) = <<>>
    BY <1>4
  <2>2. Doing(<<>>) = "none"
    BY DEF Doing
  <2> QED BY <2>1, <2>2 DEF EndingLists
<1> QED BY <1>1, <1>2, <1>3, <1>4 DEF EndingLists

LEMMA OpeningsFollow ==
  ASSUME NEW s \in OpeningLists
  PROVE  s # <<>> /\
    \/ Head(s) = "open" /\ Doing(Tail(s)) = "insert" /\ Tail(s) \in OpeningLists
    \/ Head(s) = "insert" /\ Doing(Tail(s)) = "number" /\ Tail(s) \in Tells("isAnswered")
<1>1. CASE s = <<"open", "insert", "number", "note", "isAnswered">>
  <2>1. s # <<>> /\ Head(s) = "open" /\ Tail(s) = <<"insert", "number", "note", "isAnswered">>
    BY <1>1
  <2>2. Doing(<<"insert", "number", "note", "isAnswered">>) = "insert"
    BY DEF Doing
  <2> QED BY <2>1, <2>2 DEF OpeningLists, Tells
<1>2. CASE s = <<"insert", "number", "note", "isAnswered">>
  <2>1. s # <<>> /\ Head(s) = "insert" /\ Tail(s) = <<"number", "note", "isAnswered">>
    BY <1>2
  <2>2. Doing(<<"number", "note", "isAnswered">>) = "number"
    BY DEF Doing
  <2> QED BY <2>1, <2>2 DEF OpeningLists, Tells
<1> QED BY <1>1, <1>2 DEF OpeningLists

LEMMA CountingsFollow ==
  ASSUME NEW s \in CountingLists
  PROVE  s # <<>> /\
    \/ Head(s) = "answerTurn" /\ Doing(Tail(s)) = "loadState" /\ Tail(s) \in CountingLists
    \/ Head(s) = "loadState" /\ Doing(Tail(s)) = "saveState" /\ Tail(s) \in CountingLists
    \/ Head(s) = "saveState" /\ Doing(Tail(s)) = "none" /\ Tail(s) = <<>>
<1>1. CASE s = <<"answerTurn", "loadState", "saveState">>
  <2>1. s # <<>> /\ Head(s) = "answerTurn" /\ Tail(s) = <<"loadState", "saveState">>
    BY <1>1
  <2>2. Doing(<<"loadState", "saveState">>) = "loadState"
    BY DEF Doing
  <2> QED BY <2>1, <2>2 DEF CountingLists
<1>2. CASE s = <<"loadState", "saveState">>
  <2>1. s # <<>> /\ Head(s) = "loadState" /\ Tail(s) = <<"saveState">>
    BY <1>2
  <2>2. Doing(<<"saveState">>) = "saveState"
    BY DEF Doing
  <2> QED BY <2>1, <2>2 DEF CountingLists
<1>3. CASE s = <<"saveState">>
  <2>1. s # <<>> /\ Head(s) = "saveState" /\ Tail(s) = <<>>
    BY <1>3
  <2>2. Doing(<<>>) = "none"
    BY DEF Doing
  <2> QED BY <2>1, <2>2 DEF CountingLists
<1> QED BY <1>1, <1>2, <1>3 DEF CountingLists

LEMMA NotingsFollow ==
  ASSUME NEW s \in NotingLists
  PROVE  s # <<>> /\
    \/ Head(s) = "number" /\ Doing(Tail(s)) = "note" /\ Tail(s) \in NotingLists
    \/ Head(s) = "note" /\ Doing(Tail(s)) = "none" /\ Tail(s) = <<>>
<1>1. CASE s = <<"number", "note">>
  <2>1. s # <<>> /\ Head(s) = "number" /\ Tail(s) = <<"note">>
    BY <1>1
  <2>2. Doing(<<"note">>) = "note"
    BY DEF Doing
  <2> QED BY <2>1, <2>2 DEF NotingLists
<1>2. CASE s = <<"note">>
  <2>1. s # <<>> /\ Head(s) = "note" /\ Tail(s) = <<>>
    BY <1>2
  <2>2. Doing(<<>>) = "none"
    BY DEF Doing
  <2> QED BY <2>1, <2>2 DEF NotingLists
<1> QED BY <1>1, <1>2 DEF NotingLists

LEMMA AlonesFollow ==
  ASSUME NEW s \in LoneLists
  PROVE  s # <<>> /\
    \/ Head(s) = "hear" /\ Doing(Tail(s)) = "none" /\ Tail(s) = <<>>
    \/ Head(s) = "answer" /\ Doing(Tail(s)) = "none" /\ Tail(s) = <<>>
<1>1. CASE s = <<"hear">>
  <2>1. s # <<>> /\ Head(s) = "hear" /\ Tail(s) = <<>>
    BY <1>1
  <2>2. Doing(<<>>) = "none"
    BY DEF Doing
  <2> QED BY <2>1, <2>2 DEF LoneLists
<1>2. CASE s = <<"answer">>
  <2>1. s # <<>> /\ Head(s) = "answer" /\ Tail(s) = <<>>
    BY <1>2
  <2>2. Doing(<<>>) = "none"
    BY DEF Doing
  <2> QED BY <2>1, <2>2 DEF LoneLists
<1> QED BY <1>1, <1>2 DEF LoneLists

LEMMA BeforesFollow ==
  ASSUME NEW s \in BeforeLists
  PROVE  s # <<>> /\
    \/ Head(s) = "join" /\ Doing(Tail(s)) = "loadControl" /\ Tail(s) \in EndingLists
    \/ Head(s) = "end" /\ Doing(Tail(s)) = "number" /\ Tail(s) \in EndingLists
<1>1. CASE s = <<"join", "loadControl", "saveControl">>
  <2>1. s # <<>> /\ Head(s) = "join" /\ Tail(s) = <<"loadControl", "saveControl">>
    BY <1>1
  <2>2. Doing(<<"loadControl", "saveControl">>) = "loadControl"
    BY DEF Doing
  <2> QED BY <2>1, <2>2 DEF BeforeLists, EndingLists
<1>2. CASE s = <<"end", "number", "note", "loadControl", "saveControl">>
  <2>1. s # <<>> /\ Head(s) = "end" /\ Tail(s) = <<"number", "note", "loadControl", "saveControl">>
    BY <1>2
  <2>2. Doing(<<"number", "note", "loadControl", "saveControl">>) = "number"
    BY DEF Doing
  <2> QED BY <2>1, <2>2 DEF BeforeLists, EndingLists
<1> QED BY <1>1, <1>2 DEF BeforeLists

\* What a request does after what.
DoneNext(h, d) ==
  \/ h = "open" /\ d = "insert"
  \/ h \in {"insert", "end"} /\ d = "number"
  \/ h = "number" /\ d = "note"
  \/ h = "note" /\ d \in Telling \cup {"none", "loadControl"}
  \/ h \in Telling \cup Saved \cup {"hear", "answer", "saveState"} /\ d = "none"
  \/ h = "join" /\ d = "loadControl"
  \/ h = "loadControl" /\ d = "saveControl"
  \/ h = "saveControl" /\ d \in Saved \cup {"none"}
  \/ h = "answerTurn" /\ d = "loadState"
  \/ h = "loadState" /\ d = "saveState"

LEMMA ListsFollow ==
  ASSUME NEW s \in Todos, s # <<>>
  PROVE  Tail(s) \in Todos /\ Doing(s) = Head(s) /\ DoneNext(Head(s), Doing(Tail(s)))
<1> USE DEF DoneNext
<1>1. Doing(s) = Head(s)
  BY DEF Doing
<1>2. CASE s \in OpeningLists
  <2>1. Tells("isAnswered") \subseteq TellingLists
    BY Zenon DEF TellingLists, Telling
  <2> QED BY <1>1, <1>2, <2>1, OpeningsFollow DEF Todos
<1>3. CASE s \in EndingLists
  BY <1>1, <1>3, EndingsFollow DEF Todos
<1>4. CASE s \in CountingLists
  BY <1>1, <1>4, CountingsFollow DEF Todos
<1>5. CASE s \in NotingLists
  BY <1>1, <1>5, NotingsFollow DEF Todos
<1>6. CASE s \in LoneLists
  BY <1>1, <1>6, AlonesFollow DEF Todos
<1>7. CASE s \in BeforeLists
  BY <1>1, <1>7, BeforesFollow DEF Todos
<1>8. ASSUME NEW x \in Telling, s \in Tells(x) PROVE Tail(s) \in Todos /\ DoneNext(Head(s), Doing(Tail(s)))
  <2>1. Tells(x) \subseteq TellingLists
    BY Zenon DEF TellingLists
  <2> QED BY <1>8, <2>1, TellsFollow DEF Todos
<1>9. ASSUME NEW x \in Saved, s \in SavesAnd(x) PROVE Tail(s) \in Todos /\ DoneNext(Head(s), Doing(Tail(s)))
  <2>1. Tail(s) \in SavesAnd(x) \cup {<<>>}
    BY <1>9, SavesFollow
  <2>2. Tail(s) \in Todos
    <3>1. SavesAnd(x) \subseteq SavingLists
      BY Zenon DEF SavingLists
    <3> QED BY <2>1, <3>1 DEF Todos
  <2>3. x \in Telling \cup Saved \cup {"hear", "answer", "saveState"}
    OBVIOUS
  <2>4. DoneNext(Head(s), Doing(Tail(s)))
    BY <1>9, <2>3, SavesFollow
  <2> QED BY <2>2, <2>4
<1>10. CASE s \in TellingLists
  BY <1>1, <1>8, <1>10 DEF TellingLists
<1>11. CASE s \in SavingLists
  BY <1>1, <1>9, <1>11 DEF SavingLists
<1> QED BY <1>1, <1>2, <1>3, <1>4, <1>5, <1>6, <1>7, <1>10, <1>11 DEF Todos


\* The lists a request sets out with.
LEMMA Join21 ==
  ASSUME NEW a, NEW b, NEW c
  PROVE  <<a, b>> \o <<c>> = <<a, b, c>>
<1> DEFINE S == {a, b, c}
           r == <<a, b>> \o <<c>>
<1>1. <<a, b>> \in Seq(S) /\ <<c>> \in Seq(S) /\ <<a, b, c>> \in Seq(S)
  OBVIOUS
<1>2. Len(<<a, b>>) = 2 /\ Len(<<c>>) = 1 /\ Len(<<a, b, c>>) = 3
  OBVIOUS
<1>3. r \in Seq(S) /\ Len(r) = 3
      /\ \A i \in 1 .. 3 : r[i] = IF i <= 2 THEN <<a, b>>[i] ELSE <<c>>[i - 2]
  <2> HIDE DEF S
  <2> QED BY <1>1, <1>2, ConcatProperties
<1>4. \A i \in 1 .. 3 : r[i] = <<a, b, c>>[i]
  <2> HIDE DEF r
  <2> QED BY <1>3
<1> HIDE DEF S, r
<1>5. r = <<a, b, c>>
  BY <1>1, <1>2, <1>3, <1>4, SeqEqual
<1> QED BY <1>5 DEF r

LEMMA Join22 ==
  ASSUME NEW a, NEW b, NEW c, NEW d
  PROVE  <<a, b>> \o <<c, d>> = <<a, b, c, d>>
<1> DEFINE S == {a, b, c, d}
           r == <<a, b>> \o <<c, d>>
<1>1. <<a, b>> \in Seq(S) /\ <<c, d>> \in Seq(S) /\ <<a, b, c, d>> \in Seq(S)
  OBVIOUS
<1>2. Len(<<a, b>>) = 2 /\ Len(<<c, d>>) = 2 /\ Len(<<a, b, c, d>>) = 4
  OBVIOUS
<1>3. r \in Seq(S) /\ Len(r) = 4
      /\ \A i \in 1 .. 4 : r[i] = IF i <= 2 THEN <<a, b>>[i] ELSE <<c, d>>[i - 2]
  <2> HIDE DEF S
  <2> QED BY <1>1, <1>2, ConcatProperties
<1>4. \A i \in 1 .. 4 : r[i] = <<a, b, c, d>>[i]
  <2> HIDE DEF r
  <2> QED BY <1>3
<1> HIDE DEF S, r
<1>5. r = <<a, b, c, d>>
  BY <1>1, <1>2, <1>3, <1>4, SeqEqual
<1> QED BY <1>5 DEF r

LEMMA Join41 ==
  ASSUME NEW a, NEW b, NEW c, NEW d, NEW e
  PROVE  <<a, b, c, d>> \o <<e>> = <<a, b, c, d, e>>
<1> DEFINE S == {a, b, c, d, e}
           r == <<a, b, c, d>> \o <<e>>
<1>1. <<a, b, c, d>> \in Seq(S) /\ <<e>> \in Seq(S) /\ <<a, b, c, d, e>> \in Seq(S)
  OBVIOUS
<1>2. Len(<<a, b, c, d>>) = 4 /\ Len(<<e>>) = 1 /\ Len(<<a, b, c, d, e>>) = 5
  OBVIOUS
<1>3. r \in Seq(S) /\ Len(r) = 5
      /\ \A i \in 1 .. 5 : r[i] = IF i <= 4 THEN <<a, b, c, d>>[i] ELSE <<e>>[i - 4]
  <2> HIDE DEF S
  <2> QED BY <1>1, <1>2, ConcatProperties
<1>4. \A i \in 1 .. 5 : r[i] = <<a, b, c, d, e>>[i]
  <2> HIDE DEF r
  <2> QED BY <1>3
<1> HIDE DEF S, r
<1>5. r = <<a, b, c, d, e>>
  BY <1>1, <1>2, <1>3, <1>4, SeqEqual
<1> QED BY <1>5 DEF r

LEMMA Join32 ==
  ASSUME NEW a, NEW b, NEW c, NEW d, NEW e
  PROVE  <<a, b, c>> \o <<d, e>> = <<a, b, c, d, e>>
<1> DEFINE S == {a, b, c, d, e}
           r == <<a, b, c>> \o <<d, e>>
<1>1. <<a, b, c>> \in Seq(S) /\ <<d, e>> \in Seq(S) /\ <<a, b, c, d, e>> \in Seq(S)
  OBVIOUS
<1>2. Len(<<a, b, c>>) = 3 /\ Len(<<d, e>>) = 2 /\ Len(<<a, b, c, d, e>>) = 5
  OBVIOUS
<1>3. r \in Seq(S) /\ Len(r) = 5
      /\ \A i \in 1 .. 5 : r[i] = IF i <= 3 THEN <<a, b, c>>[i] ELSE <<d, e>>[i - 3]
  <2> HIDE DEF S
  <2> QED BY <1>1, <1>2, ConcatProperties
<1>4. \A i \in 1 .. 5 : r[i] = <<a, b, c, d, e>>[i]
  <2> HIDE DEF r
  <2> QED BY <1>3
<1> HIDE DEF S, r
<1>5. r = <<a, b, c, d, e>>
  BY <1>1, <1>2, <1>3, <1>4, SeqEqual
<1> QED BY <1>5 DEF r

LEMMA Join12 ==
  ASSUME NEW a, NEW b, NEW c
  PROVE  <<a>> \o <<b, c>> = <<a, b, c>>
<1> DEFINE S == {a, b, c}
           r == <<a>> \o <<b, c>>
<1>1. <<a>> \in Seq(S) /\ <<b, c>> \in Seq(S) /\ <<a, b, c>> \in Seq(S)
  OBVIOUS
<1>2. Len(<<a>>) = 1 /\ Len(<<b, c>>) = 2 /\ Len(<<a, b, c>>) = 3
  OBVIOUS
<1>3. r \in Seq(S) /\ Len(r) = 3
      /\ \A i \in 1 .. 3 : r[i] = IF i <= 1 THEN <<a>>[i] ELSE <<b, c>>[i - 1]
  <2> HIDE DEF S
  <2> QED BY <1>1, <1>2, ConcatProperties
<1>4. \A i \in 1 .. 3 : r[i] = <<a, b, c>>[i]
  <2> HIDE DEF r
  <2> QED BY <1>3
<1> HIDE DEF S, r
<1>5. r = <<a, b, c>>
  BY <1>1, <1>2, <1>3, <1>4, SeqEqual
<1> QED BY <1>5 DEF r

LEMMA Join23 ==
  ASSUME NEW a, NEW b, NEW c, NEW d, NEW e
  PROVE  <<a, b>> \o <<c, d, e>> = <<a, b, c, d, e>>
<1> DEFINE S == {a, b, c, d, e}
           r == <<a, b>> \o <<c, d, e>>
<1>1. <<a, b>> \in Seq(S) /\ <<c, d, e>> \in Seq(S) /\ <<a, b, c, d, e>> \in Seq(S)
  OBVIOUS
<1>2. Len(<<a, b>>) = 2 /\ Len(<<c, d, e>>) = 3 /\ Len(<<a, b, c, d, e>>) = 5
  OBVIOUS
<1>3. r \in Seq(S) /\ Len(r) = 5
      /\ \A i \in 1 .. 5 : r[i] = IF i <= 2 THEN <<a, b>>[i] ELSE <<c, d, e>>[i - 2]
  <2> HIDE DEF S
  <2> QED BY <1>1, <1>2, ConcatProperties
<1>4. \A i \in 1 .. 5 : r[i] = <<a, b, c, d, e>>[i]
  <2> HIDE DEF r
  <2> QED BY <1>3
<1> HIDE DEF S, r
<1>5. r = <<a, b, c, d, e>>
  BY <1>1, <1>2, <1>3, <1>4, SeqEqual
<1> QED BY <1>5 DEF r

\* What may be left, its end apart, of a call that is over.
NeutralLists == CountingLists \cup NotingLists \cup {<<"hear">>} \cup Tells("digits") \cup Tells("isEnded")

IsCallTask(t) ==
  t \in [todo : Todos, mode : {t.mode}, fresh : {t.fresh}, saw : [mode : {t.saw.mode}, turns : Nat], turns : Nat]
CallTyped ==
  /\ call \in [made : BOOLEAN, status : {call.status}, answered : BOOLEAN, queued : {call.queued},
               connected : {call.connected}, assigned : {call.assigned}, ai : BOOLEAN, ended : BOOLEAN,
               abandoned : {call.abandoned}]
  /\ control \in [mode : {control.mode}, turns : Nat]
  /\ callTask = [r \in Requests |-> callTask[r]] /\ \A r \in Requests : IsCallTask(callTask[r])
  /\ conversations \in Nat /\ spoken \in Nat
Does(r) == Doing(callTask[r].todo)

\* Who is past the opening is at work on a call that has its row. While it has none, one
\* conversation is open if somebody is about to insert the row, and none otherwise.
HasItsRow ==
  /\ call.ended \/ call.ai => call.made
  /\ \A r \in Requests : Does(r) \in {"none", "open", "insert"} \/ call.made
OpenedOnce ==
  "open" \notin callExcuse =>
    IF call.made THEN conversations = 1 /\ \A r \in Requests : Does(r) \notin {"open", "insert"}
    ELSE /\ \A q, r \in Requests : Does(q) = "insert" /\ Does(r) = "insert" => q = r
         /\ conversations = IF \E r \in Requests : Does(r) = "insert" THEN 1 ELSE 0

\* One turn at a time is counted, by who holds the next number; what was spoken is
\* counted or about to be. Who is about to write the metadata has read what it is.
Counting == {"answerTurn", "loadState", "saveState"}
TurnsCounted ==
  /\ \A q, r \in Requests : Does(q) \in Counting /\ Does(r) \in Counting => q = r
  /\ \A r \in Requests : Does(r) \in Counting => callTask[r].turns = control.turns + 1
  /\ \A r \in Requests : Does(r) = "answerTurn" => control.turns + 1 <= MaxTurns
  /\ spoken <= control.turns
     \/ (spoken <= control.turns + 1 /\ \E r \in Requests : Does(r) \in {"loadState", "saveState"})
  /\ spoken <= MaxTurns
Unwritten ==
  "metadata" \notin callExcuse =>
    /\ \A r \in Requests : Does(r) \in {"saveControl", "saveState"} => callTask[r].saw = control
    /\ TurnsCounted

\* Once the call is over whoever ended it is still to write the control, or has; the rest
\* change neither row nor control.
Ender(r) == callTask[r].mode = "ended" /\ callTask[r].todo \in EndingLists
Mild(r) ==
  /\ callTask[r].mode # "ended"
  /\ callTask[r].todo \in NeutralLists \/ (callTask[r].todo \in Tells("isAnswered") /\ call.answered)
Disturbed == callExcuse \cap {"overlap", "control", "late answer", "collision", "metadata"} # {}
OverStaysOver ==
  call.ended /\ ~Disturbed =>
    /\ call.status \in {"completed", "failed"}
    /\ control.mode = "ended" \/ \E r \in Requests : Ender(r)
    /\ \A r \in Requests : callTask[r].todo = <<>> \/ Ender(r) \/ Mild(r)
CallInv == CallTyped /\ HasItsRow /\ OpenedOnce /\ Unwritten /\ OverStaysOver

LEMMA ListsThere ==
  /\ <<>> \in Todos /\ <<"hear">> \in Todos /\ <<"answer">> \in Todos
  /\ \A x \in Telling : <<x>> \in Todos /\ <<"number", "note", x>> \in Todos
  /\ \A x \in Saved : <<"loadControl", "saveControl", x>> \in Todos
                      /\ <<"number", "note", "loadControl", "saveControl", x>> \in Todos
  /\ EndingLists \subseteq Todos /\ OpeningLists \subseteq Todos /\ CountingLists \subseteq Todos
  /\ BeforeLists \subseteq Todos /\ NotingLists \subseteq Todos
<1>1. \A x \in Telling : Tells(x) \subseteq TellingLists
  BY Zenon DEF TellingLists
<1>2. \A x \in Saved : SavesAnd(x) \subseteq SavingLists
  BY Zenon DEF SavingLists
<1>3. ASSUME NEW x \in Telling PROVE <<x>> \in Todos /\ <<"number", "note", x>> \in Todos
  <2>1. <<x>> \in Tells(x) /\ <<"number", "note", x>> \in Tells(x)
    BY DEF Tells
  <2> QED BY <1>1, <2>1 DEF Todos
<1>4. ASSUME NEW x \in Saved
      PROVE  <<"loadControl", "saveControl", x>> \in Todos
             /\ <<"number", "note", "loadControl", "saveControl", x>> \in Todos
  <2>1. <<"loadControl", "saveControl", x>> \in SavesAnd(x)
        /\ <<"number", "note", "loadControl", "saveControl", x>> \in SavesAnd(x)
    BY DEF SavesAnd
  <2> QED BY <1>2, <2>1 DEF Todos
<1>5. <<"hear">> \in LoneLists /\ <<"answer">> \in LoneLists
  BY DEF LoneLists
<1> QED BY <1>3, <1>4, <1>5 DEF Todos

LEMMA RoutesAre ==
  /\ C!Route("ivr") = <<"loadControl", "saveControl">> /\ C!Route("voicemail") = <<"loadControl", "saveControl">>
  /\ C!Route("ended") = <<"loadControl", "saveControl">> /\ C!Route("queue") = <<"queue">>
  /\ C!Route("agent") = <<"bridge">> /\ C!Route("external") = <<"external">> /\ C!Route("nowhere") = <<>>
  /\ C!Route("ai_agent") = <<"loadControl", "saveControl", "setAgent">>
  /\ C!Route("transfer") = <<"loadControl", "saveControl", "external">>
<1>1. /\ <<"loadControl", "saveControl">> \o <<"setAgent">> = <<"loadControl", "saveControl", "setAgent">>
      /\ <<"loadControl", "saveControl">> \o <<"external">> = <<"loadControl", "saveControl", "external">>
  BY Join21
<1> QED BY <1>1 DEF C!Route, C!SaveControl

Targets == {"ivr", "voicemail", "ai_agent", "queue", "agent", "external", "transfer", "ended", "nowhere"}
LEMMA RoutesFollow ==
  ASSUME NEW to \in Targets
  PROVE  /\ C!Route(to) \in Todos
         /\ Doing(C!Route(to)) \in {"none", "loadControl", "queue", "bridge", "external"}
<1>1. /\ <<"loadControl", "saveControl">> \in Todos /\ <<"queue">> \in Todos /\ <<"bridge">> \in Todos
      /\ <<"external">> \in Todos /\ <<>> \in Todos /\ <<"loadControl", "saveControl", "setAgent">> \in Todos
      /\ <<"loadControl", "saveControl", "external">> \in Todos
  BY ListsThere DEF EndingLists, Telling, Saved
<1>2. /\ Doing(<<"loadControl", "saveControl">>) = "loadControl" /\ Doing(<<"queue">>) = "queue"
      /\ Doing(<<"bridge">>) = "bridge" /\ Doing(<<"external">>) = "external" /\ Doing(<<>>) = "none"
      /\ Doing(<<"loadControl", "saveControl", "setAgent">>) = "loadControl"
      /\ Doing(<<"loadControl", "saveControl", "external">>) = "loadControl"
  BY DEF Doing
<1> QED BY <1>1, <1>2, RoutesAre DEF Targets

LEMMA RecordedAre ==
  /\ C!Record \o <<>> = <<"number", "note">> /\ \A x : C!Record \o <<x>> = <<"number", "note", x>>
  /\ C!Record \o <<"loadControl", "saveControl">> = <<"number", "note", "loadControl", "saveControl">>
  /\ \A x : C!Record \o <<"loadControl", "saveControl", x>> = <<"number", "note", "loadControl", "saveControl", x>>
  /\ <<"open", "insert">> \o C!Record \o <<"isAnswered">> = <<"open", "insert", "number", "note", "isAnswered">>
  /\ <<"end">> \o C!Record \o C!SaveControl = <<"end", "number", "note", "loadControl", "saveControl">>
  /\ <<"join">> \o C!SaveControl = <<"join", "loadControl", "saveControl">>
  /\ C!SaveControl \o <<"decide">> = <<"loadControl", "saveControl", "decide">>
<1>1. <<"number", "note">> \o <<>> = <<"number", "note">>
  <2>1. <<"number", "note">> \in Seq({"number", "note"})
    OBVIOUS
  <2> QED BY <2>1, ConcatEmptySeq
<1>2. <<"open", "insert">> \o <<"number", "note">> = <<"open", "insert", "number", "note">>
      /\ <<"number", "note">> \o <<"loadControl", "saveControl">> = <<"number", "note", "loadControl", "saveControl">>
  BY Join22
<1>3. <<"end">> \o <<"number", "note">> = <<"end", "number", "note">>
      /\ <<"join">> \o <<"loadControl", "saveControl">> = <<"join", "loadControl", "saveControl">>
  BY Join12
<1>4. <<"open", "insert", "number", "note">> \o <<"isAnswered">> = <<"open", "insert", "number", "note", "isAnswered">>
  BY Join41
<1>5. <<"end", "number", "note">> \o <<"loadControl", "saveControl">>
        = <<"end", "number", "note", "loadControl", "saveControl">>
  BY Join32
<1>6. <<"loadControl", "saveControl">> \o <<"decide">> = <<"loadControl", "saveControl", "decide">>
  BY Join21
<1>7. \A x : <<"number", "note">> \o <<x>> = <<"number", "note", x>>
  BY Join21
<1>8. \A x : <<"number", "note">> \o <<"loadControl", "saveControl", x>>
               = <<"number", "note", "loadControl", "saveControl", x>>
  BY Join23
<1> QED BY <1>1, <1>2, <1>3, <1>4, <1>5, <1>6, <1>7, <1>8 DEF C!Record, C!SaveControl

LEMMA RecordedFollow ==
  ASSUME NEW to \in Targets
  PROVE  C!Record \o C!Route(to) \in Todos /\ Doing(C!Record \o C!Route(to)) = "number"
<1>1. /\ <<"number", "note", "loadControl", "saveControl">> \in Todos /\ <<"number", "note">> \in Todos
      /\ \A x \in Telling : <<"number", "note", x>> \in Todos
      /\ \A x \in Saved : <<"number", "note", "loadControl", "saveControl", x>> \in Todos
  BY ListsThere DEF EndingLists, NotingLists
<1>2. /\ Doing(<<"number", "note", "loadControl", "saveControl">>) = "number" /\ Doing(<<"number", "note">>) = "number"
      /\ \A x : Doing(<<"number", "note", x>>) = "number"
      /\ \A x : Doing(<<"number", "note", "loadControl", "saveControl", x>>) = "number"
  BY DEF Doing
<1>3. {"queue", "bridge", "external"} \subseteq Telling /\ {"setAgent", "external"} \subseteq Saved
  BY DEF Telling, Saved
<1>4. \/ C!Record \o C!Route(to) = <<"number", "note", "loadControl", "saveControl">>
      \/ C!Record \o C!Route(to) = <<"number", "note">>
      \/ \E x \in {"queue", "bridge", "external"} : C!Record \o C!Route(to) = <<"number", "note", x>>
      \/ \E x \in {"setAgent", "external"} :
           C!Record \o C!Route(to) = <<"number", "note", "loadControl", "saveControl", x>>
  BY RoutesAre, RecordedAre DEF Targets
<1> QED BY <1>1, <1>2, <1>3, <1>4

-----------------------------------------------------------------------------
(* What a step does to the requests.                                            *)

\* Request r goes on to what todo says; the others may at most find their number taken.
Moved(r, todo) ==
  /\ callTask' = [q \in Requests |-> callTask'[q]] /\ \A q \in Requests : IsCallTask(callTask'[q])
  /\ \A q \in Requests \ {r} :
       /\ callTask'[q].todo = callTask[q].todo /\ callTask'[q].mode = callTask[q].mode
       /\ callTask'[q].saw = callTask[q].saw /\ callTask'[q].turns = callTask[q].turns
  /\ callTask'[r].todo = todo
Kept(r) ==
  /\ callTask'[r].saw = callTask[r].saw /\ callTask'[r].turns = callTask[r].turns
  /\ callTask'[r].mode = callTask[r].mode

LEMMA NoCallTaskIs ==
  IsCallTask(C!NoTask) /\ C!NoTask.todo = <<>> /\ C!NoTask.mode = "ivr"
BY DEF IsCallTask, C!NoTask, Todos

LEMMA LeftIs ==
  ASSUME NEW t, IsCallTask(t), NEW todo \in Todos
  PROVE  /\ IsCallTask(C!Left(t, todo)) /\ C!Left(t, todo).todo = todo
         /\ todo = <<>> => C!Left(t, todo).mode = "ivr"
         /\ todo # <<>> => /\ C!Left(t, todo).mode = t.mode /\ C!Left(t, todo).saw = t.saw
                           /\ C!Left(t, todo).turns = t.turns
<1>1. CASE todo = <<>>
  BY <1>1, NoCallTaskIs DEF C!Left
<1>2. CASE todo # <<>>
  BY <1>2 DEF C!Left, IsCallTask
<1> QED BY <1>1, <1>2

LEMMA GoesIs ==
  ASSUME CallTyped, NEW r \in Requests, NEW todo \in Todos, C!Goes(r, todo)
  PROVE  /\ Moved(r, todo)
         /\ todo # <<>> => Kept(r)
         /\ todo = <<>> => callTask'[r].mode = "ivr"
         /\ \A q \in Requests \ {r} : callTask'[q] = callTask[q]
<1>1. IsCallTask(callTask[r]) /\ r \in DOMAIN callTask
  BY DEF CallTyped
<1>2. callTask'[r] = C!Left(callTask[r], todo) /\ \A q \in Requests \ {r} : callTask'[q] = callTask[q]
  BY <1>1 DEF C!Goes, CallTyped
<1>3. callTask' = [q \in Requests |-> callTask'[q]]
  BY DEF C!Goes, CallTyped
<1>4. \A q \in Requests : IsCallTask(callTask'[q])
  BY <1>1, <1>2, LeftIs DEF CallTyped
<1> QED BY <1>1, <1>2, <1>3, <1>4, LeftIs DEF Moved, Kept

LEMMA GoesAsIs ==
  ASSUME CallTyped, NEW r \in Requests, NEW todo \in Todos, NEW to, C!GoesAs(r, todo, to)
  PROVE  /\ Moved(r, todo)
         /\ todo # <<>> => /\ callTask'[r].mode = IF to = "transfer" THEN "agent" ELSE to
                           /\ callTask'[r].saw = callTask[r].saw /\ callTask'[r].turns = callTask[r].turns
         /\ todo = <<>> => callTask'[r].mode = "ivr"
<1> DEFINE t == [callTask[r] EXCEPT !.mode = IF to = "transfer" THEN "agent" ELSE to]
<1>1. IsCallTask(callTask[r]) /\ r \in DOMAIN callTask
  BY DEF CallTyped
<1>2. callTask'[r] = C!Left(t, todo) /\ \A q \in Requests \ {r} : callTask'[q] = callTask[q]
  BY <1>1 DEF C!GoesAs, CallTyped
<1>3. callTask' = [q \in Requests |-> callTask'[q]]
  BY DEF C!GoesAs, CallTyped
<1>4. /\ IsCallTask(t) /\ t.mode = IF to = "transfer" THEN "agent" ELSE to
      /\ t.saw = callTask[r].saw /\ t.turns = callTask[r].turns
  BY <1>1 DEF IsCallTask
<1> HIDE DEF t
<1>5. \A q \in Requests : IsCallTask(callTask'[q])
  BY <1>1, <1>2, <1>4, LeftIs DEF CallTyped
<1> QED BY <1>1, <1>2, <1>3, <1>4, <1>5, LeftIs DEF Moved

\* What the request at a step is doing, and what it has left after it.
LEMMA AtIs ==
  ASSUME CallTyped, NEW r \in Requests, NEW step, C!At(r, step)
  PROVE  /\ callTask[r].todo \in Todos /\ callTask[r].todo # <<>> /\ Does(r) = step
         /\ C!Rest(r) = Tail(callTask[r].todo) /\ C!Rest(r) \in Todos /\ DoneNext(step, Doing(C!Rest(r)))
<1>1. callTask[r].todo \in Todos
  BY DEF CallTyped, IsCallTask
<1> QED BY <1>1, ListsFollow DEF C!At, C!Rest, Does

LEMMA IdleDoes ==
  ASSUME CallTyped, NEW r \in Requests
  PROVE  /\ callTask[r].todo \in Todos /\ (Does(r) = "none" <=> callTask[r].todo = <<>>)
         /\ callTask[r].todo # <<>> => callTask[r].todo[1] = Does(r)
<1>1. callTask[r].todo \in Todos
  BY DEF CallTyped, IsCallTask
<1>2. callTask[r].todo # <<>> => DoneNext(Does(r), Doing(Tail(callTask[r].todo)))
  BY <1>1, ListsFollow DEF Does
<1>3. Doing(<<>>) = "none" /\ "none" \notin Telling /\ "none" \notin Saved
  BY DEF Doing, Telling, Saved
<1>4. \A d : ~DoneNext("none", d)
  BY <1>3 DEF DoneNext
<1>5. callTask[r].todo # <<>> => callTask[r].todo[1] = Head(callTask[r].todo)
  OBVIOUS
<1> QED BY <1>1, <1>2, <1>3, <1>4, <1>5, ListsFollow DEF Does

-----------------------------------------------------------------------------
(* The steps that leave a part of the invariant alone.                          *)

RowTyped(c) ==
  c \in [made : BOOLEAN, status : {c.status}, answered : BOOLEAN, queued : {c.queued},
         connected : {c.connected}, assigned : {c.assigned}, ai : BOOLEAN, ended : BOOLEAN,
         abandoned : {c.abandoned}]

LEMMA MovedTyped ==
  ASSUME CallTyped, NEW r, NEW todo, Moved(r, todo), RowTyped(call)',
         control' \in [mode : {control'.mode}, turns : Nat], conversations' \in Nat, spoken' \in Nat
  PROVE  CallTyped'
BY DEF CallTyped, Moved, RowTyped

LEMMA MovedDoes ==
  ASSUME NEW r \in Requests, NEW todo, Moved(r, todo)
  PROVE  Does(r)' = Doing(todo) /\ \A q \in Requests \ {r} : Does(q)' = Does(q)
BY DEF Moved, Does

LEMMA KeepsItsRow ==
  ASSUME HasItsRow, NEW r \in Requests, NEW todo, Moved(r, todo),
         call.made => call'.made, call'.ended \/ call'.ai => call'.made,
         Doing(todo) \in {"none", "open", "insert"} \/ call'.made
  PROVE  HasItsRow'
BY MovedDoes DEF HasItsRow

LEMMA KeepsOpenedOnce ==
  ASSUME OpenedOnce, NEW r \in Requests, NEW todo, Moved(r, todo),
         Does(r) \notin {"open", "insert"}, Doing(todo) \notin {"open", "insert"},
         call'.made = call.made, conversations' = conversations, callExcuse \subseteq callExcuse'
  PROVE  OpenedOnce'
<1>1. \A q \in Requests : Does(q)' \in {"open", "insert"} \/ Does(q) \in {"open", "insert"} => Does(q)' = Does(q)
  BY MovedDoes
<1> QED BY <1>1 DEF OpenedOnce

LEMMA KeepsUnwritten ==
  ASSUME Unwritten, NEW r \in Requests, NEW todo, Moved(r, todo),
         Does(r) \notin Counting, Doing(todo) \notin Counting, Doing(todo) # "saveControl",
         control' = control, spoken' = spoken, callExcuse \subseteq callExcuse'
  PROVE  Unwritten'
<1>1. \A q \in Requests : Does(q)' \in Counting \cup {"saveControl"} =>
        /\ q # r /\ Does(q)' = Does(q) /\ callTask'[q].saw = callTask[q].saw
        /\ callTask'[q].turns = callTask[q].turns
  BY MovedDoes DEF Moved
<1>2. \A q \in Requests : Does(q) \in Counting => q # r /\ Does(q)' = Does(q)
  BY MovedDoes
<1>3. SUFFICES ASSUME "metadata" \notin callExcuse'
               PROVE  /\ \A q \in Requests : Does(q)' \in {"saveControl", "saveState"} => callTask'[q].saw = control'
                      /\ TurnsCounted'
  BY DEF Unwritten
<1>4. /\ \A q \in Requests : Does(q) \in {"saveControl", "saveState"} => callTask[q].saw = control
      /\ TurnsCounted
  BY <1>3 DEF Unwritten
<1>5. \A q \in Requests : Does(q)' \in {"saveControl", "saveState"} => callTask'[q].saw = control'
  BY <1>1, <1>4 DEF Counting
<1>6. /\ \A q, p \in Requests : Does(q)' \in Counting /\ Does(p)' \in Counting => q = p
      /\ \A q \in Requests : Does(q)' \in Counting => callTask'[q].turns = control'.turns + 1
      /\ \A q \in Requests : Does(q)' = "answerTurn" => control'.turns + 1 <= MaxTurns
      /\ spoken' <= MaxTurns
  BY <1>1, <1>4 DEF Counting, TurnsCounted
<1>7. spoken' <= control'.turns
      \/ (spoken' <= control'.turns + 1 /\ \E q \in Requests : Does(q)' \in {"loadState", "saveState"})
  BY <1>2, <1>4 DEF Counting, TurnsCounted
<1>8. TurnsCounted'
  BY <1>6, <1>7 DEF TurnsCounted
<1> QED BY <1>5, <1>8

\* Whoever is doing what changes the row works on a call that is not over, or is disturbed.
Mildly == {"number", "note", "digits", "isEnded", "isAnswered", "hear", "loadControl", "saveControl",
           "answerTurn", "loadState", "saveState"}

LEMMA NeutralsFollow ==
  ASSUME NEW s \in NeutralLists
  PROVE  /\ s # <<>> /\ Tail(s) \in NeutralLists \cup {<<>>}
         /\ Head(s) \in {"number", "note", "digits", "isEnded", "hear"} \cup Counting
<1>1. CASE s \in CountingLists
  BY <1>1, CountingsFollow DEF NeutralLists, Counting
<1>2. CASE s \in NotingLists
  BY <1>2, NotingsFollow DEF NeutralLists
<1>3. CASE s = <<"hear">>
  BY <1>3 DEF NeutralLists
<1>4. CASE s \in Tells("digits")
  BY <1>4, TellsFollow DEF NeutralLists
<1>5. CASE s \in Tells("isEnded")
  BY <1>5, TellsFollow DEF NeutralLists
<1> QED BY <1>1, <1>2, <1>3, <1>4, <1>5 DEF NeutralLists

LEMMA OverMeansMild ==
  ASSUME CallTyped, OverStaysOver, call.ended, ~Disturbed, NEW r \in Requests, callTask[r].todo # <<>>
  PROVE  Does(r) \in Mildly /\ (Ender(r) \/ Mild(r))
<1>1. Ender(r) \/ Mild(r)
  BY DEF OverStaysOver
<1>2. CASE Ender(r)
  BY <1>1, <1>2, EndingsFollow DEF Ender, Does, Doing, Mildly
<1>3. CASE callTask[r].todo \in NeutralLists
  BY <1>1, <1>3, NeutralsFollow DEF Does, Doing, Mildly, Counting
<1>4. CASE callTask[r].todo \in Tells("isAnswered")
  BY <1>1, <1>4, TellsFollow DEF Does, Doing, Mildly
<1> QED BY <1>1, <1>2, <1>3, <1>4 DEF Mild

\* The call stays over when the row and the control stay, and r goes on, or is done, with
\* what is its own.
LEMMA KeepsOver ==
  ASSUME OverStaysOver, NEW r \in Requests, NEW todo, Moved(r, todo),
         callExcuse \subseteq callExcuse', control'.mode = control.mode,
         call'.ended => call.ended /\ call'.status = call.status /\ (call.answered => call'.answered),
         call.ended /\ ~Disturbed /\ ~Disturbed' =>
           \/ todo = <<>> /\ ~Ender(r)
           \/ callTask'[r].mode = "ended" /\ todo \in EndingLists
           \/ callTask'[r].mode # "ended" /\ ~Ender(r)
              /\ (todo \in NeutralLists \/ (todo \in Tells("isAnswered") /\ call'.answered))
  PROVE  OverStaysOver'
<1>1. SUFFICES ASSUME call'.ended, ~Disturbed'
               PROVE  /\ call'.status \in {"completed", "failed"}
                      /\ control'.mode = "ended" \/ \E q \in Requests : Ender(q)'
                      /\ \A q \in Requests : callTask'[q].todo = <<>> \/ Ender(q)' \/ Mild(q)'
  BY DEF OverStaysOver
<1>2. ~Disturbed /\ call.ended
  BY <1>1 DEF Disturbed
<1>3. /\ call.status \in {"completed", "failed"}
      /\ control.mode = "ended" \/ \E q \in Requests : Ender(q)
      /\ \A q \in Requests : callTask[q].todo = <<>> \/ Ender(q) \/ Mild(q)
  BY <1>2 DEF OverStaysOver
<1>4. \A q \in Requests \ {r} :
        (Ender(q) => Ender(q)') /\ (Mild(q) => Mild(q)') /\ (callTask[q].todo = <<>> => callTask'[q].todo = <<>>)
  BY <1>1 DEF Moved, Ender, Mild
<1>5. (Ender(r) => Ender(r)') /\ (callTask'[r].todo = <<>> \/ Ender(r)' \/ Mild(r)')
  BY <1>1, <1>2 DEF Moved, Ender, Mild
<1> QED BY <1>1, <1>3, <1>4, <1>5

-----------------------------------------------------------------------------
(* The steps.                                                                   *)

RowSteps == Telling \cup Saved \cup {"answer", "join"}

\* A step that writes the row, or only goes on with it: the call it works on is not over.
LEMMA RowStep ==
  ASSUME CallInv, NEW r \in Requests, NEW todo \in Todos, Moved(r, todo), callTask[r].todo # <<>>,
         Does(r) \in RowSteps, Does(r) \notin Mildly, Doing(todo) \in RowSteps \cup {"none", "loadControl"},
         RowTyped(call)', call'.made = call.made, call'.ended = call.ended,
         UNCHANGED <<control, conversations, spoken, callExcuse>>
  PROVE  CallInv'
<1>1. CallTyped'
  BY MovedTyped DEF CallInv, CallTyped
<1>2. /\ \A x \in RowSteps : x \notin {"none", "open", "insert", "saveControl"} /\ x \notin Counting
      /\ "loadControl" \notin Counting /\ "none" \notin Counting
  BY DEF RowSteps, Telling, Saved, Counting
<1>3. call.made
  BY <1>2 DEF CallInv, HasItsRow
<1>4. HasItsRow'
  BY <1>3, KeepsItsRow DEF CallInv
<1>5. OpenedOnce'
  BY <1>2, KeepsOpenedOnce DEF CallInv
<1>6. Unwritten'
  BY <1>2, KeepsUnwritten DEF CallInv
<1>7. ~(call.ended /\ ~Disturbed)
  BY OverMeansMild DEF CallInv
<1>8. OverStaysOver'
  BY <1>7 DEF OverStaysOver, Disturbed
<1> QED BY <1>1, <1>4, <1>5, <1>6, <1>8 DEF CallInv

LEMMA RowStays ==
  ASSUME CallTyped, UNCHANGED call
  PROVE  RowTyped(call)'
BY DEF CallTyped, RowTyped

LEMMA CallAnswers ==
  ASSUME CallInv, NEW r \in Requests, NEW to \in Targets, C!Answers(r, to)
  PROVE  CallInv'
<1>1. CallTyped /\ C!At(r, "answer")
  BY DEF CallInv, C!Answers
<1>2. Does(r) = "answer" /\ callTask[r].todo # <<>>
  BY <1>1, AtIs
<1>3. Moved(r, C!Route(to)) /\ C!Route(to) \in Todos
  BY <1>1, RoutesFollow, GoesAsIs DEF C!Answers
<1>4. Doing(C!Route(to)) \in RowSteps \cup {"none", "loadControl"}
  BY RoutesFollow DEF RowSteps, Telling
<1>5. RowTyped(call)' /\ call'.made = call.made /\ call'.ended = call.ended
  BY <1>1 DEF C!Answers, CallTyped, RowTyped
<1>6. "answer" \in RowSteps /\ "answer" \notin Mildly
  BY DEF RowSteps, Mildly
<1> QED BY <1>2, <1>3, <1>4, <1>5, <1>6, RowStep DEF C!Answers

LEMMA CallQueues ==
  ASSUME CallInv, NEW r \in Requests, C!Queues(r)
  PROVE  CallInv'
<1>1. CallTyped /\ C!At(r, "queue")
  BY DEF CallInv, C!Queues
<1>2. Does(r) = "queue" /\ callTask[r].todo # <<>>
  BY <1>1, AtIs
<1>3. <<"loadControl", "saveControl", "decide">> \in Todos
  BY ListsThere DEF Saved
<1>4. Moved(r, <<"loadControl", "saveControl", "decide">>)
  BY <1>1, <1>3, RecordedAre, GoesAsIs DEF C!Queues
<1>5. Doing(<<"loadControl", "saveControl", "decide">>) = "loadControl"
  BY DEF Doing
<1>6. RowTyped(call)' /\ call'.made = call.made /\ call'.ended = call.ended
  BY <1>1 DEF C!Queues, CallTyped, RowTyped
<1>7. "queue" \in RowSteps /\ "queue" \notin Mildly
  BY DEF RowSteps, Mildly, Telling
<1> QED BY <1>2, <1>3, <1>4, <1>5, <1>6, <1>7, RowStep DEF C!Queues

LEMMA CallDecides ==
  ASSUME CallInv, NEW r \in Requests, C!Decides(r)
  PROVE  CallInv'
<1>1. CallTyped /\ C!At(r, "decide")
  BY DEF CallInv, C!Decides
<1>2. Does(r) = "decide" /\ callTask[r].todo # <<>>
  BY <1>1, AtIs
<1>3. PICK todo \in {<<"bridge">>, <<>>} : C!Goes(r, todo)
  BY DEF C!Decides
<1>4. todo \in Todos /\ Doing(todo) \in RowSteps \cup {"none", "loadControl"}
  <2>1. "bridge" \in Telling
    BY DEF Telling
  <2>2. Doing(<<"bridge">>) = "bridge" /\ Doing(<<>>) = "none"
    BY DEF Doing
  <2> QED BY <2>1, <2>2, ListsThere DEF RowSteps
<1>5. Moved(r, todo)
  BY <1>1, <1>3, <1>4, GoesIs
<1>6. RowTyped(call)' /\ call'.made = call.made /\ call'.ended = call.ended
  BY <1>1, RowStays DEF C!Decides
<1>7. "decide" \in RowSteps /\ "decide" \notin Mildly
  BY DEF RowSteps, Mildly, Saved
<1> QED BY <1>2, <1>4, <1>5, <1>6, <1>7, RowStep DEF C!Decides

LEMMA CallBridges ==
  ASSUME CallInv, NEW r \in Requests, C!Bridges(r)
  PROVE  CallInv'
<1>1. CallTyped /\ C!At(r, "bridge")
  BY DEF CallInv, C!Bridges
<1>2. Does(r) = "bridge" /\ callTask[r].todo # <<>>
  BY <1>1, AtIs
<1>3. <<"join", "loadControl", "saveControl">> \in Todos
  BY ListsThere DEF BeforeLists
<1>4. Moved(r, <<"join", "loadControl", "saveControl">>)
  BY <1>1, <1>3, RecordedAre, GoesAsIs DEF C!Bridges
<1>5. Doing(<<"join", "loadControl", "saveControl">>) = "join"
  BY DEF Doing
<1>6. RowTyped(call)' /\ call'.made = call.made /\ call'.ended = call.ended
  BY <1>1 DEF C!Bridges, CallTyped, RowTyped
<1>7. {"bridge", "join"} \subseteq RowSteps /\ "bridge" \notin Mildly
  BY DEF RowSteps, Mildly, Telling
<1> QED BY <1>2, <1>3, <1>4, <1>5, <1>6, <1>7, RowStep DEF C!Bridges

LEMMA CallRests ==
  ASSUME CallInv, NEW r \in Requests, NEW step \in {"join", "setAgent", "on_hold", "answered", "external"},
         C!At(r, step), C!Goes(r, C!Rest(r)), RowTyped(call)', call'.made = call.made, call'.ended = call.ended,
         UNCHANGED <<control, conversations, spoken, callExcuse>>
  PROVE  CallInv'
<1>1. CallTyped
  BY DEF CallInv
<1>2. /\ Does(r) = step /\ callTask[r].todo # <<>> /\ C!Rest(r) \in Todos
      /\ DoneNext(step, Doing(C!Rest(r)))
  BY <1>1, AtIs
<1>3. Doing(C!Rest(r)) \in {"none", "loadControl"}
  BY <1>2 DEF DoneNext, Telling, Saved
<1>4. Moved(r, C!Rest(r))
  BY <1>1, <1>2, GoesIs
<1>5. step \in RowSteps /\ step \notin Mildly
  BY DEF RowSteps, Mildly, Telling, Saved
<1> QED BY <1>2, <1>3, <1>4, <1>5, RowStep

LEMMA CallWrites ==
  ASSUME CallInv, NEW r \in Requests, C!Joins(r) \/ C!SetsAgent(r) \/ C!SetsStatus(r)
  PROVE  CallInv'
<1>1. CallTyped
  BY DEF CallInv
<1>2. RowTyped(call)' /\ call'.made = call.made /\ call'.ended = call.ended
  BY <1>1 DEF C!Joins, C!SetsAgent, C!SetsStatus, CallTyped, RowTyped
<1>3. CASE C!Joins(r)
  BY <1>2, <1>3, CallRests DEF C!Joins
<1>4. CASE C!SetsAgent(r)
  BY <1>2, <1>4, CallRests DEF C!SetsAgent
<1>5. CASE C!SetsStatus(r)
  BY <1>2, <1>5, CallRests DEF C!SetsStatus
<1> QED BY <1>3, <1>4, <1>5

LEMMA CallOpens ==
  ASSUME CallInv, NEW r \in Requests, C!Opens(r)
  PROVE  CallInv'
<1> DEFINE todo == C!Rest(r)
<1>1. CallTyped /\ HasItsRow /\ C!At(r, "open")
  BY DEF CallInv, C!Opens
<1>2. /\ Does(r) = "open" /\ callTask[r].todo # <<>> /\ todo \in Todos
      /\ DoneNext("open", Doing(todo))
  BY <1>1, AtIs
<1>3. Doing(todo) = "insert"
  BY <1>2 DEF DoneNext, Telling, Saved
<1>4. Moved(r, todo)
  BY <1>1, <1>2, GoesIs DEF C!Opens
<1>5. CallTyped'
  <2>1. RowTyped(call)' /\ control' \in [mode : {control'.mode}, turns : Nat] /\ spoken' \in Nat
    BY <1>1, RowStays DEF C!Opens, CallTyped
  <2>2. conversations' \in Nat
    BY <1>1 DEF C!Opens, CallTyped
  <2> QED BY <1>1, <1>4, <2>1, <2>2, MovedTyped
<1> HIDE DEF todo
<1>6. HasItsRow'
  BY <1>1, <1>3, <1>4, KeepsItsRow DEF C!Opens, HasItsRow
<1>7. OpenedOnce'
  <2>1. SUFFICES ASSUME "open" \notin callExcuse'
                 PROVE  IF call'.made THEN conversations' = 1 /\ \A q \in Requests : Does(q)' \notin {"open", "insert"}
                        ELSE /\ \A q, p \in Requests : Does(q)' = "insert" /\ Does(p)' = "insert" => q = p
                             /\ conversations' = IF \E q \in Requests : Does(q)' = "insert" THEN 1 ELSE 0
    BY DEF OpenedOnce
  <2>2. callExcuse' = callExcuse /\ ~C!Opening(r)
    BY <2>1 DEF C!Opens
  <2>3. ~call.made /\ conversations = IF \E q \in Requests : Does(q) = "insert" THEN 1 ELSE 0
    BY <1>2, <2>1, <2>2 DEF CallInv, OpenedOnce
  <2>4. \A q \in Requests \ {r} : Does(q) \notin {"open", "insert"}
    <3> SUFFICES ASSUME NEW q \in Requests \ {r}, Does(q) \in {"open", "insert"} PROVE C!Opening(r)
      BY <2>2
    <3>1. callTask[q].todo # <<>> /\ callTask[q].todo[1] = Does(q)
      BY <1>1, IdleDoes
    <3> QED BY <3>1 DEF C!Opening, C!Others
  <2>5. Does(r)' = "insert" /\ \A q \in Requests \ {r} : Does(q)' # "insert"
    BY <1>3, <1>4, <2>4, MovedDoes
  <2>6. ~call'.made /\ conversations' = 1
    <3>1. \A q \in Requests : Does(q) # "insert"
      BY <1>2, <2>4
    <3> QED BY <2>3, <3>1 DEF C!Opens
  <2> QED BY <2>5, <2>6
<1>8. Unwritten'
  BY <1>2, <1>3, <1>4, KeepsUnwritten DEF C!Opens, CallInv, Counting
<1>9. OverStaysOver'
  <2>1. ~(call.ended /\ ~Disturbed)
    BY <1>2, OverMeansMild DEF CallInv, Mildly
  <2> QED BY <2>1 DEF OverStaysOver, Disturbed, C!Opens
<1> QED BY <1>5, <1>6, <1>7, <1>8, <1>9 DEF CallInv

LEMMA CallInserts ==
  ASSUME CallInv, NEW r \in Requests, C!Inserts(r)
  PROVE  CallInv'
<1> DEFINE todo == IF call.made THEN <<>> ELSE C!Rest(r)
<1>1. CallTyped /\ HasItsRow /\ C!At(r, "insert")
  BY DEF CallInv, C!Inserts
<1>2. /\ Does(r) = "insert" /\ callTask[r].todo # <<>> /\ C!Rest(r) \in Todos
      /\ DoneNext("insert", Doing(C!Rest(r)))
  BY <1>1, AtIs
<1>3. Doing(C!Rest(r)) = "number" /\ Doing(<<>>) = "none"
  BY <1>2 DEF DoneNext, Telling, Saved, Doing
<1>4. todo \in Todos /\ Doing(todo) \in {"number", "none"} /\ (~call.made => Doing(todo) = "number")
  BY <1>2, <1>3, ListsThere
<1>5. C!Goes(r, todo) /\ call'.made /\ call'.ended = call.ended /\ call'.ai = call.ai
  BY <1>1 DEF C!Inserts, CallTyped
<1> HIDE DEF todo
<1>6. Moved(r, todo)
  BY <1>1, <1>4, <1>5, GoesIs
<1>7. RowTyped(call)'
  BY <1>1 DEF C!Inserts, CallTyped, RowTyped
<1>8. UNCHANGED <<control, conversations, spoken>> /\ callExcuse \subseteq callExcuse'
  BY DEF C!Inserts
<1>9. CallTyped'
  BY <1>1, <1>6, <1>7, <1>8, MovedTyped DEF CallTyped
<1>10. HasItsRow'
  BY <1>1, <1>5, <1>6, KeepsItsRow
<1>11. OpenedOnce'
  <2>1. SUFFICES ASSUME "open" \notin callExcuse'
                 PROVE  conversations' = 1 /\ \A q \in Requests : Does(q)' \notin {"open", "insert"}
    BY <1>5 DEF OpenedOnce
  <2>2. callExcuse' = callExcuse /\ ~C!Opening(r)
    BY <2>1 DEF C!Inserts
  <2>3. conversations = 1
    BY <1>2, <2>1, <2>2 DEF CallInv, OpenedOnce
  <2>4. \A q \in Requests \ {r} : Does(q) \notin {"open", "insert"}
    <3> SUFFICES ASSUME NEW q \in Requests \ {r}, Does(q) \in {"open", "insert"} PROVE C!Opening(r)
      BY <2>2
    <3>1. callTask[q].todo # <<>> /\ callTask[q].todo[1] = Does(q)
      BY <1>1, IdleDoes
    <3> QED BY <3>1 DEF C!Opening, C!Others
  <2> QED BY <1>4, <1>6, <1>8, <2>3, <2>4, MovedDoes
<1>12. Unwritten'
  BY <1>2, <1>4, <1>6, <1>8, KeepsUnwritten DEF CallInv, Counting
<1>13. OverStaysOver'
  <2>1. ~(call.ended /\ ~Disturbed)
    BY <1>2, OverMeansMild DEF CallInv, Mildly
  <2> QED BY <1>5, <1>8, <2>1 DEF OverStaysOver, Disturbed
<1> QED BY <1>9, <1>10, <1>11, <1>12, <1>13 DEF CallInv

\* Where r's own mode and excuse stay, what is left of a call that is over stays so.
LEMMA OwnGoesOn ==
  ASSUME CallInv, NEW r \in Requests, callTask[r].todo # <<>>, Does(r) \in {"number", "note", "loadControl", "loadState"},
         NEW todo, todo = Tail(callTask[r].todo), Moved(r, todo),
         todo # <<>> => callTask'[r].mode = callTask[r].mode,
         call.ended, ~Disturbed
  PROVE  \/ todo = <<>> /\ ~Ender(r)
         \/ callTask'[r].mode = "ended" /\ todo \in EndingLists
         \/ callTask'[r].mode # "ended" /\ ~Ender(r)
            /\ (todo \in NeutralLists \/ (todo \in Tells("isAnswered") /\ call.answered))
<1>1. Ender(r) \/ Mild(r)
  BY OverMeansMild DEF CallInv
<1>2. CASE Ender(r)
  <2>1. callTask[r].todo \in EndingLists /\ Head(callTask[r].todo) = Does(r)
    BY <1>2 DEF Ender, Does, Doing
  <2>2. Tail(callTask[r].todo) \in EndingLists /\ Tail(callTask[r].todo) # <<>>
    BY <2>1, EndingsFollow
  <2> QED BY <1>2, <2>2 DEF Ender
<1>3. CASE ~Ender(r) /\ callTask[r].todo \in NeutralLists
  BY <1>1, <1>3, NeutralsFollow DEF Mild
<1>4. CASE ~Ender(r) /\ callTask[r].todo \in Tells("isAnswered") /\ call.answered
  <2>1. Head(callTask[r].todo) # "isAnswered" /\ Doing(<<>>) = "none"
    BY DEF Does, Doing
  <2>2. todo \in Tells("isAnswered") /\ todo # <<>>
    BY <1>4, <2>1, TellsFollow
  <2> QED BY <1>1, <1>4, <2>2 DEF Mild
<1> QED BY <1>1, <1>2, <1>3, <1>4 DEF Mild

\* A step that takes a number or notes the event.
LEMMA CallRecords ==
  ASSUME CallInv, NEW r \in Requests, NEW step \in {"number", "note"}, C!At(r, step),
         NEW todo, todo = C!Rest(r), Moved(r, todo), todo # <<>> => callTask'[r].mode = callTask[r].mode,
         UNCHANGED <<call, control, conversations, spoken, callExcuse>>
  PROVE  CallInv'
<1>1. CallTyped
  BY DEF CallInv
<1>2. /\ Does(r) = step /\ callTask[r].todo # <<>> /\ todo = Tail(callTask[r].todo)
      /\ DoneNext(step, Doing(todo))
  BY <1>1, AtIs
<1>3. Doing(todo) \in Telling \cup {"none", "loadControl", "note"}
  BY <1>2 DEF DoneNext, Telling, Saved
<1>4. CallTyped'
  BY <1>1, MovedTyped, RowStays DEF CallTyped
<1>5. HasItsRow'
  <2>1. call.made
    BY <1>2 DEF CallInv, HasItsRow
  <2> QED BY <2>1, KeepsItsRow DEF CallInv
<1>6. OpenedOnce'
  BY <1>2, <1>3, KeepsOpenedOnce DEF CallInv, Telling
<1>7. Unwritten'
  BY <1>2, <1>3, KeepsUnwritten DEF CallInv, Telling, Counting
<1>8. OverStaysOver'
  BY <1>2, OwnGoesOn, KeepsOver DEF CallInv
<1> QED BY <1>4, <1>5, <1>6, <1>7, <1>8 DEF CallInv

LEMMA CallTakesNumber ==
  ASSUME CallInv, NEW r \in Requests, C!TakesNumber(r)
  PROVE  CallInv'
<1>1. CallTyped /\ C!At(r, "number")
  BY DEF CallInv, C!TakesNumber
<1>2. C!Rest(r) \in Todos
  BY <1>1, AtIs
<1>3. IsCallTask(callTask[r])
  BY <1>1 DEF CallTyped
<1>4. /\ callTask'[r] = [callTask[r] EXCEPT !.todo = C!Rest(r), !.fresh = TRUE]
      /\ \A q \in Requests \ {r} : callTask'[q] = callTask[q]
      /\ callTask' = [q \in Requests |-> callTask'[q]]
  BY <1>1 DEF C!TakesNumber, CallTyped
<1>5. /\ IsCallTask(callTask'[r]) /\ callTask'[r].todo = C!Rest(r) /\ callTask'[r].mode = callTask[r].mode
  BY <1>2, <1>3, <1>4 DEF IsCallTask
<1>6. Moved(r, C!Rest(r))
  BY <1>1, <1>4, <1>5 DEF Moved, CallTyped
<1> QED BY <1>1, <1>5, <1>6, CallRecords DEF C!TakesNumber

LEMMA CallNotes ==
  ASSUME CallInv, NEW r \in Requests, C!Notes(r)
  PROVE  CallInv'
<1>1. CallTyped /\ C!At(r, "note") /\ UNCHANGED <<call, control, conversations, spoken>>
  BY DEF CallInv, C!Notes
<1>2. C!Rest(r) \in Todos /\ IsCallTask(callTask[r]) /\ callTask[r].todo # <<>> /\ Does(r) = "note"
  BY <1>1, AtIs DEF CallTyped
<1>3. CASE callTask[r].fresh
  <2> DEFINE t == [callTask[r] EXCEPT !.fresh = TRUE]
  <2>1. IsCallTask(t) /\ t.mode = callTask[r].mode
    BY <1>2 DEF IsCallTask
  <2>2. /\ callTask' = [q \in Requests |-> IF q = r THEN C!Left(t, C!Rest(r))
                                           ELSE IF C!At(q, "note") THEN [callTask[q] EXCEPT !.fresh = FALSE]
                                           ELSE callTask[q]]
        /\ UNCHANGED callExcuse
    BY <1>3 DEF C!Notes
  <2> HIDE DEF t
  <2>3. callTask'[r] = C!Left(t, C!Rest(r)) /\ callTask' = [q \in Requests |-> callTask'[q]]
    BY <2>2
  <2>4. ASSUME NEW q \in Requests \ {r}
        PROVE  /\ IsCallTask(callTask'[q]) /\ callTask'[q].todo = callTask[q].todo
               /\ callTask'[q].mode = callTask[q].mode /\ callTask'[q].saw = callTask[q].saw
               /\ callTask'[q].turns = callTask[q].turns
    <3>1. IsCallTask(callTask[q])
      BY <1>1 DEF CallTyped
    <3>2. callTask'[q] = [callTask[q] EXCEPT !.fresh = FALSE] \/ callTask'[q] = callTask[q]
      BY <2>2
    <3> QED BY <3>1, <3>2 DEF IsCallTask
  <2>5. Moved(r, C!Rest(r))
    BY <1>2, <2>1, <2>3, <2>4, LeftIs DEF Moved
  <2>6. C!Rest(r) # <<>> => callTask'[r].mode = callTask[r].mode
    BY <1>2, <2>1, <2>3, LeftIs
  <2> QED BY <1>1, <2>2, <2>5, <2>6, CallRecords
<1>4. CASE ~callTask[r].fresh
  <2>1. C!Goes(r, <<>>) /\ callExcuse' = callExcuse \cup {"collision"}
    BY <1>4 DEF C!Notes
  <2>2. Moved(r, <<>>) /\ Doing(<<>>) = "none"
    BY <1>1, <2>1, ListsThere, GoesIs DEF Doing
  <2>3. CallTyped'
    BY <1>1, <2>2, MovedTyped, RowStays DEF CallTyped
  <2>4. HasItsRow'
    BY <1>1, <2>2, KeepsItsRow DEF CallInv, HasItsRow
  <2>5. OpenedOnce'
    BY <1>1, <1>2, <2>1, <2>2, KeepsOpenedOnce DEF CallInv
  <2>6. Unwritten'
    BY <1>1, <1>2, <2>1, <2>2, KeepsUnwritten DEF CallInv, Counting
  <2>7. OverStaysOver'
    BY <2>1 DEF OverStaysOver, Disturbed
  <2> QED BY <2>3, <2>4, <2>5, <2>6, <2>7 DEF CallInv
<1> QED BY <1>3, <1>4

\* A step that asks, and is then done or does something new.
LEMMA CallAsks ==
  ASSUME CallInv, NEW r \in Requests, callTask[r].todo # <<>>, Does(r) \in {"isAnswered", "isEnded", "digits"},
         NEW todo \in Todos, Moved(r, todo), Doing(todo) \in {"none", "answer", "end", "number"},
         UNCHANGED <<call, control, conversations, spoken>>, callExcuse \subseteq callExcuse',
         call.ended /\ ~Disturbed' => todo = <<>>
  PROVE  CallInv'
<1>1. CallTyped
  BY DEF CallInv
<1>2. CallTyped'
  BY <1>1, MovedTyped, RowStays DEF CallTyped
<1>3. HasItsRow'
  BY KeepsItsRow DEF CallInv, HasItsRow
<1>4. OpenedOnce'
  BY KeepsOpenedOnce DEF CallInv
<1>5. Unwritten'
  BY KeepsUnwritten DEF CallInv, Counting
<1>6. ~Ender(r)
  BY EndingsFollow DEF Ender, Does, Doing
<1>7. OverStaysOver'
  BY <1>6, KeepsOver DEF CallInv
<1> QED BY <1>2, <1>3, <1>4, <1>5, <1>7 DEF CallInv

LEMMA CallAsksAnswered ==
  ASSUME CallInv, NEW r \in Requests, C!AsksAnswered(r)
  PROVE  CallInv'
<1> DEFINE todo == IF call.answered THEN <<>> ELSE <<"answer">>
<1>1. CallTyped /\ C!At(r, "isAnswered") /\ C!Goes(r, todo)
  BY DEF CallInv, C!AsksAnswered
<1>2. Does(r) = "isAnswered" /\ callTask[r].todo # <<>>
  BY <1>1, AtIs
<1>3. todo \in Todos /\ Doing(todo) \in {"none", "answer"}
  BY ListsThere DEF Doing
<1>4. call.ended /\ ~Disturbed => call.answered
  <2> SUFFICES ASSUME call.ended, ~Disturbed PROVE call.answered
    OBVIOUS
  <2>1. Ender(r) \/ Mild(r)
    BY <1>2, OverMeansMild DEF CallInv
  <2>2. Head(callTask[r].todo) = "isAnswered"
    BY <1>2 DEF Does, Doing
  <2> QED BY <2>1, <2>2, EndingsFollow, NeutralsFollow DEF Ender, Mild, Counting
<1>5. call.ended /\ ~Disturbed' => todo = <<>>
  BY <1>4 DEF Disturbed, C!AsksAnswered
<1> HIDE DEF todo
<1>6. Moved(r, todo)
  BY <1>1, <1>3, GoesIs
<1> QED BY <1>2, <1>3, <1>5, <1>6, CallAsks DEF C!AsksAnswered

LEMMA CallAsksEnded ==
  ASSUME CallInv, NEW r \in Requests, C!AsksEnded(r)
  PROVE  CallInv'
<1> DEFINE todo == IF call.ended THEN <<>> ELSE <<"end", "number", "note", "loadControl", "saveControl">>
<1>1. CallTyped /\ C!At(r, "isEnded") /\ C!Goes(r, todo)
  BY RecordedAre DEF CallInv, C!AsksEnded
<1>2. Does(r) = "isEnded" /\ callTask[r].todo # <<>>
  BY <1>1, AtIs
<1>3. todo \in Todos /\ Doing(todo) \in {"none", "end"}
  <2>1. <<"end", "number", "note", "loadControl", "saveControl">> \in Todos
    BY ListsThere DEF BeforeLists
  <2>2. Doing(<<"end", "number", "note", "loadControl", "saveControl">>) = "end" /\ Doing(<<>>) = "none"
    BY DEF Doing
  <2> QED BY <2>1, <2>2, ListsThere
<1>4. call.ended => todo = <<>>
  OBVIOUS
<1> HIDE DEF todo
<1>5. Moved(r, todo)
  BY <1>1, <1>3, GoesIs
<1> QED BY <1>2, <1>3, <1>4, <1>5, CallAsks DEF C!AsksEnded

LEMMA CallPresses ==
  ASSUME CallInv, NEW r \in Requests, NEW to \in Targets, C!Presses(r, to)
  PROVE  CallInv'
<1> DEFINE todo == IF C!InMenu THEN C!Record \o C!Route(to) ELSE <<>>
<1>1. CallTyped /\ C!At(r, "digits")
  BY DEF CallInv, C!Presses
<1>2. Does(r) = "digits" /\ callTask[r].todo # <<>>
  BY <1>1, AtIs
<1>3. todo \in Todos /\ Doing(todo) \in {"none", "number"} /\ (~C!InMenu => todo = <<>>)
  BY RecordedFollow, ListsThere DEF Doing
<1>4. C!InMenu \/ C!Goes(r, <<>>)
  BY DEF C!Presses
<1>5. C!InMenu => C!GoesAs(r, todo, to)
  BY DEF C!Presses
<1> HIDE DEF todo
<1>6. Moved(r, todo)
  BY <1>1, <1>3, <1>4, <1>5, ListsThere, GoesIs, GoesAsIs
<1>7. callExcuse \subseteq callExcuse'
  BY DEF C!Presses
<1>8. ASSUME call.ended, ~Disturbed' PROVE ~C!InMenu
  <2>1. ~Disturbed /\ ~\E q \in C!Others(r) : callTask[q].mode = "ended"
    BY <1>8, <1>7 DEF Disturbed, C!Presses
  <2>2. control.mode = "ended" \/ \E q \in Requests : Ender(q)
    BY <1>8, <2>1 DEF CallInv, OverStaysOver
  <2>3. ~Ender(r)
    BY <1>2, EndingsFollow DEF Ender, Does, Doing
  <2>4. ASSUME NEW q \in Requests, Ender(q) PROVE FALSE
    <3>1. q # r /\ callTask[q].mode = "ended" /\ callTask[q].todo # <<>>
      BY <2>3, <2>4, EndingsFollow DEF Ender
    <3> QED BY <2>1, <3>1 DEF C!Others
  <2> QED BY <2>2, <2>4 DEF C!InMenu
<1> QED BY <1>2, <1>3, <1>6, <1>7, <1>8, CallAsks DEF C!Presses

LEMMA CallEnds ==
  ASSUME CallInv, NEW r \in Requests, C!Ends(r)
  PROVE  CallInv'
<1> DEFINE todo == C!Rest(r)
<1>1. CallTyped /\ C!At(r, "end") /\ C!GoesAs(r, todo, "ended") /\ UNCHANGED <<control, conversations, spoken>>
  BY DEF CallInv, C!Ends
<1>2. /\ Does(r) = "end" /\ callTask[r].todo # <<>> /\ callTask[r].todo \in Todos /\ todo \in Todos
      /\ DoneNext("end", Doing(todo)) /\ todo = Tail(callTask[r].todo)
  BY <1>1, AtIs
<1> HIDE DEF todo
<1>3. Doing(todo) = "number" /\ todo # <<>>
  BY <1>2 DEF DoneNext, Telling, Saved, Doing
<1>4. todo \in EndingLists
  <2>1. callTask[r].todo \notin OpeningLists /\ callTask[r].todo \notin EndingLists
    BY <1>2, OpeningsFollow, EndingsFollow DEF Does, Doing
  <2>2. callTask[r].todo \notin CountingLists /\ callTask[r].todo \notin NotingLists /\ callTask[r].todo \notin LoneLists
    BY <1>2, CountingsFollow, NotingsFollow, AlonesFollow DEF Does, Doing
  <2>3. \A x \in Telling : callTask[r].todo \notin Tells(x)
    BY <1>2, TellsFollow DEF Does, Doing, Telling
  <2>4. \A x \in Saved : callTask[r].todo \notin SavesAnd(x)
    BY <1>2, SavesFollow DEF Does, Doing, Saved
  <2>5. callTask[r].todo \in BeforeLists
    BY <1>2, <2>1, <2>2, <2>3, <2>4 DEF Todos, TellingLists, SavingLists
  <2> QED BY <1>2, <2>5, BeforesFollow
<1>5. Moved(r, todo) /\ callTask'[r].mode = "ended"
  BY <1>1, <1>2, <1>3, GoesAsIs
<1>6. /\ RowTyped(call)' /\ call'.made = call.made /\ call'.ai = call.ai
      /\ call'.status \in {"completed", "failed"}
  BY <1>1 DEF C!Ends, CallTyped, RowTyped, C!Final
<1>7. CallTyped'
  BY <1>1, <1>5, <1>6, MovedTyped DEF CallTyped
<1>8. call.made
  BY <1>2 DEF CallInv, HasItsRow
<1>9. HasItsRow'
  BY <1>5, <1>6, <1>8, KeepsItsRow DEF CallInv
<1>10. callExcuse \subseteq callExcuse'
  BY DEF C!Ends
<1>11. OpenedOnce'
  BY <1>1, <1>2, <1>3, <1>5, <1>6, <1>10, KeepsOpenedOnce DEF CallInv
<1>12. Unwritten'
  BY <1>1, <1>2, <1>3, <1>5, <1>10, KeepsUnwritten DEF CallInv, Counting
<1>13. OverStaysOver'
  <2>1. SUFFICES ASSUME ~Disturbed' PROVE \A q \in Requests \ {r} : callTask'[q].todo = <<>>
    BY <1>4, <1>5, <1>6 DEF OverStaysOver, Ender, Moved
  <2>2. C!Others(r) = {}
    BY <2>1 DEF C!Ends, Disturbed
  <2> QED BY <1>5, <2>2 DEF C!Others, Moved
<1> QED BY <1>7, <1>9, <1>11, <1>12, <1>13 DEF CallInv

LEMMA MetadataAlone ==
  ASSUME CallTyped, NEW r \in Requests, ~C!InMetadata(r), NEW q \in Requests, q # r
  PROVE  Does(q) \notin Counting \cup {"saveControl"}
<1> SUFFICES ASSUME Does(q) \in Counting \cup {"saveControl"} PROVE FALSE
  OBVIOUS
<1>1. callTask[q].todo # <<>> /\ callTask[q].todo[1] = Does(q)
  BY IdleDoes DEF Counting
<1> QED BY <1>1 DEF C!InMetadata, C!Others, Counting

LEMMA CallLoads ==
  ASSUME CallInv, NEW r \in Requests, C!LoadsControl(r)
  PROVE  CallInv'
<1>1. CallTyped /\ (C!At(r, "loadControl") \/ C!At(r, "loadState"))
      /\ UNCHANGED <<call, control, conversations, spoken, callExcuse>>
  BY DEF CallInv, C!LoadsControl
<1> DEFINE todo == C!Rest(r)
<1>2. /\ Does(r) \in {"loadControl", "loadState"} /\ callTask[r].todo # <<>> /\ todo \in Todos
      /\ todo = Tail(callTask[r].todo) /\ DoneNext(Does(r), Doing(todo))
  BY <1>1, AtIs
<1>3. /\ Does(r) = "loadControl" => Doing(todo) = "saveControl"
      /\ Does(r) = "loadState" => Doing(todo) = "saveState"
  BY <1>2 DEF DoneNext, Telling, Saved
<1>4. IsCallTask(callTask[r]) /\ control \in [mode : {control.mode}, turns : Nat]
  BY <1>1 DEF CallTyped
<1>5. /\ callTask'[r] = [callTask[r] EXCEPT !.todo = todo, !.saw = control]
      /\ \A q \in Requests \ {r} : callTask'[q] = callTask[q]
      /\ callTask' = [q \in Requests |-> callTask'[q]]
  BY <1>1 DEF C!LoadsControl, CallTyped
<1> HIDE DEF todo
<1>6. /\ IsCallTask(callTask'[r]) /\ callTask'[r].todo = todo /\ callTask'[r].mode = callTask[r].mode
      /\ callTask'[r].saw = control /\ callTask'[r].turns = callTask[r].turns
  <2>1. callTask'[r] \in [todo : Todos, mode : {callTask[r].mode}, fresh : {callTask[r].fresh},
                          saw : [mode : {control.mode}, turns : Nat], turns : Nat]
        /\ callTask'[r].saw = control /\ callTask'[r].todo = todo /\ callTask'[r].turns = callTask[r].turns
    BY <1>2, <1>4, <1>5 DEF IsCallTask
  <2> QED BY <2>1 DEF IsCallTask
<1>7. Moved(r, todo)
  BY <1>1, <1>5, <1>6 DEF Moved, CallTyped
<1>8. CallTyped'
  BY <1>1, <1>7, MovedTyped, RowStays DEF CallTyped
<1>9. HasItsRow'
  BY <1>1, <1>2, <1>7, KeepsItsRow DEF CallInv, HasItsRow
<1>10. OpenedOnce'
  BY <1>1, <1>2, <1>3, <1>7, KeepsOpenedOnce DEF CallInv
<1>11. Unwritten'
  <2>1. SUFFICES ASSUME "metadata" \notin callExcuse
                 PROVE  /\ \A q \in Requests : Does(q)' \in {"saveControl", "saveState"} => callTask'[q].saw = control
                        /\ TurnsCounted'
    BY <1>1 DEF Unwritten
  <2>2. /\ \A q \in Requests : Does(q) \in {"saveControl", "saveState"} => callTask[q].saw = control
        /\ TurnsCounted
    BY <2>1 DEF CallInv, Unwritten
  <2>3. Does(r)' = Doing(todo) /\ \A q \in Requests \ {r} : Does(q)' = Does(q)
    BY <1>7, MovedDoes
  <2>4. \A q \in Requests : Does(q)' \in {"saveControl", "saveState"} => callTask'[q].saw = control
    BY <1>5, <1>6, <2>2, <2>3
  <2>5. \A q \in Requests : /\ Does(q)' \in Counting <=> Does(q) \in Counting
                            /\ Does(q)' = "answerTurn" <=> Does(q) = "answerTurn"
                            /\ Does(q) \in {"loadState", "saveState"} => Does(q)' \in {"loadState", "saveState"}
                            /\ callTask'[q].turns = callTask[q].turns
    BY <1>2, <1>3, <1>5, <1>6, <2>3 DEF Counting
  <2>6. TurnsCounted'
    BY <1>1, <2>2, <2>5 DEF TurnsCounted
  <2> QED BY <2>4, <2>6
<1>12. OverStaysOver'
  BY <1>1, <1>2, <1>6, <1>7, OwnGoesOn, KeepsOver DEF CallInv
<1> QED BY <1>8, <1>9, <1>10, <1>11, <1>12 DEF CallInv

LEMMA CallSaves ==
  ASSUME CallInv, NEW r \in Requests, C!Saves(r)
  PROVE  CallInv'
<1> DEFINE todo == C!Rest(r)
<1>1. CallTyped /\ (C!At(r, "saveControl") \/ C!At(r, "saveState")) /\ C!Goes(r, todo)
      /\ UNCHANGED <<call, conversations, spoken>> /\ callExcuse \subseteq callExcuse'
  BY DEF CallInv, C!Saves
<1>2. /\ Does(r) \in {"saveControl", "saveState"} /\ callTask[r].todo # <<>> /\ todo \in Todos
      /\ todo = Tail(callTask[r].todo) /\ DoneNext(Does(r), Doing(todo)) /\ callTask[r].todo \in Todos
  BY <1>1, AtIs
<1>3. Doing(todo) \in Saved \cup {"none"} /\ (Does(r) = "saveState" => Doing(todo) = "none")
  BY <1>2 DEF DoneNext, Telling, Saved
<1> HIDE DEF todo
<1>4. Moved(r, todo)
  BY <1>1, <1>2, GoesIs
<1>5. IsCallTask(callTask[r])
  BY <1>1 DEF CallTyped
<1>6. /\ Does(r) = "saveControl" => control' = [callTask[r].saw EXCEPT !.mode = callTask[r].mode]
      /\ Does(r) = "saveState" => control' = [callTask[r].saw EXCEPT !.turns = callTask[r].turns]
  BY <1>1, AtIs DEF C!Saves
<1>7. control' \in [mode : {control'.mode}, turns : Nat]
      /\ (Does(r) = "saveControl" => control'.mode = callTask[r].mode /\ control'.turns = callTask[r].saw.turns)
      /\ (Does(r) = "saveState" => control'.mode = callTask[r].saw.mode /\ control'.turns = callTask[r].turns)
  BY <1>2, <1>5, <1>6 DEF IsCallTask
<1>8. CallTyped'
  BY <1>1, <1>4, <1>7, MovedTyped, RowStays DEF CallTyped
<1>9. HasItsRow'
  BY <1>1, <1>2, <1>4, KeepsItsRow DEF CallInv, HasItsRow
<1>10. OpenedOnce'
  BY <1>1, <1>2, <1>3, <1>4, KeepsOpenedOnce DEF CallInv, Saved
<1>11. ASSUME "metadata" \notin callExcuse'
       PROVE  /\ callTask[r].saw = control /\ TurnsCounted
              /\ \A q \in Requests \ {r} : Does(q) \notin Counting \cup {"saveControl"}
  <2>1. "metadata" \notin callExcuse /\ ~C!InMetadata(r)
    BY <1>11 DEF C!Saves
  <2> QED BY <1>1, <1>2, <2>1, MetadataAlone DEF CallInv, Unwritten
<1>12. Unwritten'
  <2>1. SUFFICES ASSUME "metadata" \notin callExcuse'
                 PROVE  /\ \A q \in Requests : Does(q)' \in {"saveControl", "saveState"} => callTask'[q].saw = control'
                        /\ TurnsCounted'
    BY DEF Unwritten
  <2>2. \A q \in Requests : Does(q)' \notin Counting \cup {"saveControl"}
    BY <1>3, <1>4, <1>11, <2>1, MovedDoes DEF Saved, Counting
  <2>3. spoken' <= control'.turns /\ spoken' <= MaxTurns
    <3>1. control \in [mode : {control.mode}, turns : Nat] /\ spoken \in Nat
      BY <1>1 DEF CallTyped
    <3>2. CASE Does(r) = "saveControl"
      <4>1. spoken <= control.turns
        BY <1>11, <2>1, <3>2 DEF TurnsCounted, Counting
      <4> QED BY <1>1, <1>7, <1>11, <2>1, <3>1, <3>2, <4>1 DEF TurnsCounted
    <3>3. CASE Does(r) = "saveState"
      <4>1. control'.turns = control.turns + 1
        BY <1>7, <1>11, <2>1, <3>3 DEF TurnsCounted, Counting
      <4>2. spoken <= control.turns + 1
        BY <1>11, <2>1, <3>1 DEF TurnsCounted
      <4> QED BY <1>1, <1>11, <2>1, <4>1, <4>2 DEF TurnsCounted
    <3> QED BY <1>2, <3>2, <3>3
  <2>4. TurnsCounted'
    BY <2>2, <2>3 DEF TurnsCounted, Counting
  <2> QED BY <2>2, <2>4 DEF Counting
<1>13. OverStaysOver'
  <2>1. SUFFICES ASSUME call.ended, ~Disturbed'
                 PROVE  OverStaysOver'
    BY <1>1 DEF OverStaysOver
  <2>2. ~Disturbed /\ "metadata" \notin callExcuse'
    BY <1>1, <2>1 DEF Disturbed
  <2>3. Ender(r) \/ Mild(r)
    BY <1>2, <2>1, <2>2, OverMeansMild DEF CallInv
  <2>4. Head(callTask[r].todo) = Does(r)
    BY <1>2 DEF Does, Doing
  <2>5. CASE Does(r) = "saveControl"
    <3>1. Ender(r)
      BY <2>3, <2>4, <2>5, NeutralsFollow, TellsFollow DEF Mild, Counting
    <3>2. todo = <<>> /\ callTask[r].mode = "ended"
      BY <1>2, <2>4, <2>5, <3>1, EndingsFollow DEF Ender
    <3>3. control'.mode = "ended" /\ callTask'[r].todo = <<>>
      BY <1>4, <1>7, <2>5, <3>2 DEF Moved
    <3>4. /\ call.status \in {"completed", "failed"}
          /\ \A q \in Requests : callTask[q].todo = <<>> \/ Ender(q) \/ Mild(q)
      BY <2>1, <2>2 DEF CallInv, OverStaysOver
    <3>5. \A q \in Requests \ {r} : callTask'[q].todo = <<>> \/ Ender(q)' \/ Mild(q)'
      BY <1>1, <1>4, <3>4 DEF Moved, Ender, Mild
    <3> QED BY <1>1, <3>3, <3>4, <3>5 DEF OverStaysOver
  <2>6. CASE Does(r) = "saveState"
    <3>1. ~Ender(r)
      BY <2>4, <2>6, EndingsFollow DEF Ender
    <3>2. todo = <<>>
      BY <1>2, <1>3, <2>6, ListsFollow DEF Doing, DoneNext, Telling, Saved
    <3>3. control'.mode = control.mode
      BY <1>7, <1>11, <2>2, <2>6
    <3> QED BY <1>1, <1>4, <3>1, <3>2, <3>3, KeepsOver DEF CallInv
  <2> QED BY <1>2, <2>5, <2>6
<1> QED BY <1>8, <1>9, <1>10, <1>12, <1>13 DEF CallInv

LEMMA CallHears ==
  ASSUME CallInv, NEW r \in Requests, C!Hears(r)
  PROVE  CallInv'
<1> DEFINE n == control.turns + 1
           todo == IF C!TooMany(n) THEN <<"loadState", "saveState">> ELSE <<"answerTurn", "loadState", "saveState">>
<1>1. CallTyped /\ C!At(r, "hear") /\ UNCHANGED <<call, control, conversations, spoken>>
      /\ callExcuse \subseteq callExcuse'
      /\ callTask' = [callTask EXCEPT ![r].turns = n, ![r].todo = todo]
  BY DEF CallInv, C!Hears
<1>2. Does(r) = "hear" /\ callTask[r].todo # <<>>
  BY <1>1, AtIs
<1>3. todo \in CountingLists /\ Doing(todo) \in {"loadState", "answerTurn"}
      /\ (Doing(todo) = "answerTurn" => ~C!TooMany(n))
  BY DEF CountingLists, Doing
<1>4. n \in Nat /\ IsCallTask(callTask[r]) /\ control.turns \in Nat /\ MaxTurns \in Nat /\ spoken \in Nat
  BY <1>1, LimitsAreNatural DEF CallTyped
<1> HIDE DEF todo
<1>5. /\ callTask'[r] = [callTask[r] EXCEPT !.turns = n, !.todo = todo]
      /\ \A q \in Requests \ {r} : callTask'[q] = callTask[q]
      /\ callTask' = [q \in Requests |-> callTask'[q]]
  BY <1>1 DEF CallTyped
<1>6. /\ IsCallTask(callTask'[r]) /\ callTask'[r].todo = todo /\ callTask'[r].mode = callTask[r].mode
      /\ callTask'[r].turns = n
  <2>1. todo \in Todos
    BY <1>3, ListsThere
  <2> HIDE DEF n
  <2> QED BY <1>4, <1>5, <2>1 DEF IsCallTask
<1>7. Moved(r, todo)
  BY <1>1, <1>5, <1>6 DEF Moved, CallTyped
<1>8. CallTyped'
  BY <1>1, <1>7, MovedTyped, RowStays DEF CallTyped
<1>9. HasItsRow'
  BY <1>1, <1>2, <1>7, KeepsItsRow DEF CallInv, HasItsRow
<1>10. OpenedOnce'
  BY <1>1, <1>2, <1>3, <1>7, KeepsOpenedOnce DEF CallInv
<1>11. Unwritten'
  <2>1. SUFFICES ASSUME "metadata" \notin callExcuse'
                 PROVE  /\ \A q \in Requests : Does(q)' \in {"saveControl", "saveState"} => callTask'[q].saw = control
                        /\ TurnsCounted'
    BY <1>1 DEF Unwritten
  <2>2. TurnsCounted /\ ~C!InMetadata(r)
    BY <2>1 DEF CallInv, Unwritten, C!Hears
  <2>3. \A q \in Requests \ {r} : Does(q) \notin Counting \cup {"saveControl"} /\ Does(q)' = Does(q)
    BY <1>1, <1>7, <2>2, MetadataAlone, MovedDoes
  <2>4. Does(r)' = Doing(todo)
    BY <1>7, MovedDoes
  <2>5. spoken <= control.turns /\ spoken <= MaxTurns
    BY <1>2, <2>2, <2>3 DEF TurnsCounted, Counting
  <2>6. Doing(todo) = "answerTurn" => n <= MaxTurns
    BY <1>3, <1>4 DEF C!TooMany
  <2>7. TurnsCounted'
    BY <1>1, <1>3, <1>6, <2>3, <2>4, <2>5, <2>6 DEF TurnsCounted, Counting
  <2> QED BY <1>3, <2>3, <2>4, <2>7 DEF Counting
<1>12. OverStaysOver'
  <2>1. ~Ender(r)
    BY <1>2, EndingsFollow DEF Ender, Does, Doing
  <2>2. call.ended /\ ~Disturbed => Mild(r)
    BY <1>2, <2>1, OverMeansMild DEF CallInv
  <2>3. todo \in NeutralLists
    BY <1>3 DEF NeutralLists
  <2> QED BY <1>1, <1>6, <1>7, <2>1, <2>2, <2>3, KeepsOver DEF CallInv, Mild
<1> QED BY <1>8, <1>9, <1>10, <1>11, <1>12 DEF CallInv

LEMMA CallSaysATurn ==
  ASSUME CallInv, NEW r \in Requests, C!AnswersTurn(r)
  PROVE  CallInv'
<1> DEFINE todo == C!Rest(r)
<1>1. CallTyped /\ C!At(r, "answerTurn") /\ C!Goes(r, todo) /\ UNCHANGED <<call, control, conversations, callExcuse>>
  BY DEF CallInv, C!AnswersTurn
<1>2. /\ Does(r) = "answerTurn" /\ callTask[r].todo # <<>> /\ todo \in Todos
      /\ todo = Tail(callTask[r].todo) /\ DoneNext("answerTurn", Doing(todo))
  BY <1>1, AtIs
<1> HIDE DEF todo
<1>3. Doing(todo) = "loadState" /\ todo # <<>>
  BY <1>2 DEF DoneNext, Telling, Saved, Doing
<1>4. Moved(r, todo) /\ Kept(r)
  BY <1>1, <1>2, <1>3, GoesIs
<1>5. spoken' \in {spoken, spoken + 1} /\ spoken \in Nat /\ control.turns \in Nat /\ MaxTurns \in Nat
  BY <1>1, LimitsAreNatural DEF C!AnswersTurn, CallTyped
<1>6. CallTyped'
  BY <1>1, <1>4, <1>5, MovedTyped, RowStays DEF CallTyped
<1>7. HasItsRow'
  BY <1>1, <1>2, <1>4, KeepsItsRow DEF CallInv, HasItsRow
<1>8. OpenedOnce'
  BY <1>1, <1>2, <1>3, <1>4, KeepsOpenedOnce DEF CallInv
<1>9. Unwritten'
  <2>1. SUFFICES ASSUME "metadata" \notin callExcuse
                 PROVE  /\ \A q \in Requests : Does(q)' \in {"saveControl", "saveState"} => callTask'[q].saw = control
                        /\ TurnsCounted'
    BY <1>1 DEF Unwritten
  <2>2. /\ \A q \in Requests : Does(q) \in {"saveControl", "saveState"} => callTask[q].saw = control
        /\ TurnsCounted
    BY <2>1 DEF CallInv, Unwritten
  <2>3. \A q \in Requests \ {r} : Does(q) \notin Counting /\ Does(q)' = Does(q) /\ callTask'[q].saw = callTask[q].saw
    BY <1>2, <1>4, <2>2, MovedDoes DEF TurnsCounted, Counting, Moved
  <2>4. Does(r)' = "loadState" /\ callTask'[r].turns = callTask[r].turns
    BY <1>3, <1>4, MovedDoes DEF Kept
  <2>5. spoken <= control.turns /\ control.turns + 1 <= MaxTurns /\ callTask[r].turns = control.turns + 1
    BY <1>2, <2>2, <2>3 DEF TurnsCounted, Counting
  <2>6. spoken' <= control.turns + 1 /\ spoken' <= MaxTurns
    BY <1>5, <2>5
  <2>7. TurnsCounted'
    BY <1>1, <2>3, <2>4, <2>5, <2>6 DEF TurnsCounted, Counting
  <2> QED BY <2>2, <2>3, <2>4, <2>7
<1>10. OverStaysOver'
  <2>1. Head(callTask[r].todo) = "answerTurn"
    BY <1>2 DEF Does, Doing
  <2>2. ~Ender(r)
    BY <2>1, EndingsFollow DEF Ender
  <2>3. call.ended /\ ~Disturbed => Mild(r)
    BY <1>2, <2>2, OverMeansMild DEF CallInv
  <2>4. Mild(r) => callTask[r].todo \in NeutralLists /\ callTask[r].mode # "ended"
    BY <2>1, TellsFollow DEF Mild
  <2>5. callTask[r].todo \in NeutralLists => todo \in NeutralLists
    BY <1>2, <1>3, NeutralsFollow
  <2> QED BY <1>1, <1>4, <2>2, <2>3, <2>4, <2>5, KeepsOver DEF CallInv, Kept
<1> QED BY <1>6, <1>7, <1>8, <1>9, <1>10 DEF CallInv

LEMMA AsksIs ==
  ASSUME CallTyped, NEW r \in Requests, NEW todo \in Todos, C!Asks(r, todo)
  PROVE  /\ Moved(r, todo) /\ callTask'[r].mode = "ivr" /\ callTask[r].todo = <<>> /\ Does(r) = "none"
         /\ UNCHANGED <<call, control, conversations, spoken>>
<1> DEFINE t == [C!NoTask EXCEPT !.todo = todo]
<1>1. IsCallTask(t) /\ t.todo = todo /\ t.mode = "ivr"
  BY DEF IsCallTask, C!NoTask
<1>2. callTask' = [callTask EXCEPT ![r] = t] /\ UNCHANGED <<call, control, conversations, spoken>> /\ callTask[r].todo = <<>>
  BY DEF C!Asks
<1> HIDE DEF t
<1>3. callTask'[r] = t /\ \A q \in Requests \ {r} : callTask'[q] = callTask[q]
  BY <1>2 DEF CallTyped
<1>4. callTask' = [q \in Requests |-> callTask'[q]]
  BY <1>2 DEF CallTyped
<1> QED BY <1>1, <1>2, <1>3, <1>4 DEF Moved, CallTyped, Does, Doing

\* A request that sets out to work on a call that has its row.
LEMMA CallSetsOut ==
  ASSUME CallInv, NEW r \in Requests, NEW todo \in Todos, C!Asks(r, todo), call.made,
         Doing(todo) \in {"number", "isEnded", "hear"}, callExcuse \subseteq callExcuse',
         call.ended /\ ~Disturbed' =>
           todo \in NeutralLists \/ (todo \in Tells("isAnswered") /\ call.answered)
  PROVE  CallInv'
<1>1. CallTyped
  BY DEF CallInv
<1>2. /\ Moved(r, todo) /\ callTask'[r].mode = "ivr" /\ callTask[r].todo = <<>> /\ Does(r) = "none"
      /\ UNCHANGED <<call, control, conversations, spoken>>
  BY <1>1, AsksIs
<1>3. CallTyped'
  BY <1>1, <1>2, MovedTyped, RowStays DEF CallTyped
<1>4. HasItsRow'
  BY <1>2, KeepsItsRow DEF CallInv, HasItsRow
<1>5. OpenedOnce'
  BY <1>2, KeepsOpenedOnce DEF CallInv
<1>6. Unwritten'
  BY <1>2, KeepsUnwritten DEF CallInv, Counting
<1>7. ~Ender(r)
  BY <1>2, EndingsFollow DEF Ender
<1>8. OverStaysOver'
  BY <1>2, <1>7, KeepsOver DEF CallInv
<1> QED BY <1>3, <1>4, <1>5, <1>6, <1>8 DEF CallInv

\* A request that sets out to open the call.
LEMMA CallSetsOutToOpen ==
  ASSUME CallInv, NEW r \in Requests, C!Asks(r, <<"open", "insert", "number", "note", "isAnswered">>), ~call.made,
         callExcuse \subseteq callExcuse'
  PROVE  CallInv'
<1> DEFINE todo == <<"open", "insert", "number", "note", "isAnswered">>
<1>1. CallTyped /\ C!Asks(r, todo)
  BY DEF CallInv
<1>2. todo \in Todos /\ Doing(todo) = "open"
  BY ListsThere DEF OpeningLists, Doing
<1> HIDE DEF todo
<1>3. /\ Moved(r, todo) /\ Does(r) = "none"
      /\ UNCHANGED <<call, control, conversations, spoken>>
  BY <1>1, <1>2, AsksIs
<1>4. CallTyped'
  BY <1>1, <1>3, MovedTyped, RowStays DEF CallTyped
<1>5. HasItsRow'
  BY <1>2, <1>3, KeepsItsRow DEF CallInv, HasItsRow
<1>6. OpenedOnce'
  <2>1. \A q \in Requests : Does(q)' = "insert" <=> Does(q) = "insert"
    BY <1>2, <1>3, MovedDoes
  <2> QED BY <1>3, <2>1 DEF CallInv, OpenedOnce
<1>7. Unwritten'
  BY <1>2, <1>3, KeepsUnwritten DEF CallInv, Counting
<1>8. OverStaysOver'
  BY <1>3 DEF CallInv, HasItsRow, OverStaysOver
<1> QED BY <1>4, <1>5, <1>6, <1>7, <1>8 DEF CallInv

LEMMA CallWebhook ==
  ASSUME CallInv, NEW r \in Requests, NEW type \in {"answered", "dtmf", "hangup"}, C!Webhook(r, type)
  PROVE  CallInv'
<1>1. callExcuse \subseteq callExcuse'
      /\ (type = "answered" /\ call.ended /\ ~call.answered => "late answer" \in callExcuse')
  BY DEF C!Webhook
<1>2. CASE ~call.made
  <2>1. C!Asks(r, <<"open", "insert", "number", "note", "isAnswered">>)
    BY <1>2, RecordedAre DEF C!Webhook
  <2> QED BY <1>1, <1>2, <2>1, CallSetsOutToOpen
<1>3. CASE call.made
  <2>1. PICK x \in {"isAnswered", "digits", "isEnded"} :
          C!Asks(r, <<"number", "note", x>>) /\ (x = "isAnswered" => type = "answered")
    <3>1. C!Asks(r, C!Record \o CASE type = "answered" -> <<"isAnswered">>
                                  [] type = "dtmf" -> <<"digits">>
                                  [] type = "hangup" -> <<"isEnded">>)
      BY <1>3 DEF C!Webhook
    <3>2. CASE type = "answered"
      BY <3>1, <3>2, RecordedAre
    <3>3. CASE type = "dtmf"
      BY <3>1, <3>3, RecordedAre
    <3>4. CASE type = "hangup"
      BY <3>1, <3>4, RecordedAre
    <3> QED BY <3>2, <3>3, <3>4
  <2>2. x \in Telling
    BY DEF Telling
  <2>3. <<"number", "note", x>> \in Todos /\ Doing(<<"number", "note", x>>) = "number"
    <3>1. Doing(<<"number", "note", x>>) = "number"
      BY DEF Doing
    <3> QED BY <2>2, <3>1, ListsThere
  <2>4. <<"number", "note", x>> \in Tells(x)
    BY DEF Tells
  <2>5. call.ended /\ ~Disturbed' /\ x = "isAnswered" => call.answered
    BY <1>1, <2>1, Zenon DEF Disturbed
  <2>6. x # "isAnswered" => <<"number", "note", x>> \in NeutralLists
    BY <2>4 DEF NeutralLists
  <2> QED BY <1>1, <1>3, <2>1, <2>3, <2>4, <2>5, <2>6, CallSetsOut
<1> QED BY <1>2, <1>3

LEMMA CallControls ==
  ASSUME CallInv, NEW r \in Requests,
         NEW what \in {"on_hold", "answered", "agent", "queue", "external", "hangup"}, C!Controls(r, what)
  PROVE  CallInv'
<1>1. /\ call.made /\ callExcuse \subseteq callExcuse'
      /\ what # "hangup" /\ call.ended => "control" \in callExcuse'
  BY DEF C!Controls
<1>2. what # "hangup" /\ call.ended => Disturbed'
  BY <1>1 DEF Disturbed
<1>3. C!Asks(r, CASE what \in {"on_hold", "answered"} -> C!Record \o <<what>>
                  [] what \in {"agent", "queue", "external"} -> C!Record \o C!Route(what)
                  [] what = "hangup" -> <<"isEnded">>)
  BY DEF C!Controls
<1>4. CASE what \in {"on_hold", "answered"}
  <2>1. C!Asks(r, <<"number", "note", what>>)
    BY <1>3, <1>4, RecordedAre
  <2>2. <<"number", "note", what>> \in Todos /\ Doing(<<"number", "note", what>>) = "number"
    BY <1>4, ListsThere DEF Doing, Telling
  <2> QED BY <1>1, <1>2, <1>4, <2>1, <2>2, CallSetsOut
<1>5. CASE what \in {"agent", "queue", "external"}
  <2>1. C!Asks(r, C!Record \o C!Route(what)) /\ what \in Targets
    BY <1>3, <1>5 DEF Targets
  <2> QED BY <1>1, <1>2, <1>5, <2>1, RecordedFollow, CallSetsOut
<1>6. CASE what = "hangup"
  <2>1. C!Asks(r, <<"isEnded">>)
    BY <1>3, <1>6
  <2>2. <<"isEnded">> \in Todos /\ Doing(<<"isEnded">>) = "isEnded"
    BY ListsThere DEF Doing, Telling
  <2>3. <<"isEnded">> \in NeutralLists
    BY DEF NeutralLists, Tells
  <2> QED BY <1>1, <2>1, <2>2, <2>3, CallSetsOut
<1> QED BY <1>4, <1>5, <1>6

LEMMA CallSpeaks ==
  ASSUME CallInv, NEW r \in Requests, C!Speaks(r)
  PROVE  CallInv'
<1>1. C!Asks(r, <<"hear">>) /\ UNCHANGED callExcuse /\ call.made
  BY DEF C!Speaks, CallInv, HasItsRow
<1>2. <<"hear">> \in Todos /\ Doing(<<"hear">>) = "hear" /\ <<"hear">> \in NeutralLists
  BY ListsThere DEF Doing, NeutralLists
<1> QED BY <1>1, <1>2, CallSetsOut

LEMMA CallInit ==
  ASSUME C!Init PROVE CallInv
<1>1. /\ call \in {C!Inbound, C!Outbound} /\ control = [mode |-> "ivr", turns |-> 0]
      /\ callTask = [r \in Requests |-> C!NoTask] /\ spoken = 0 /\ callExcuse = {}
      /\ conversations = IF call.made THEN 1 ELSE 0
  BY DEF C!Init
<1>2. \A r \in Requests : callTask[r] = C!NoTask /\ callTask[r].todo = <<>> /\ Does(r) = "none"
  BY <1>1, NoCallTaskIs DEF Does, Doing
<1>3. RowTyped(call) /\ ~call.ended /\ ~call.ai
  <2>1. CASE call = C!Outbound
    BY <2>1 DEF C!Outbound, RowTyped
  <2>2. CASE call = C!Inbound
    <3>1. call = [made |-> FALSE, status |-> "ringing", answered |-> FALSE, queued |-> FALSE, connected |-> FALSE,
                  assigned |-> FALSE, ai |-> FALSE, ended |-> FALSE, abandoned |-> FALSE]
      BY <2>2 DEF C!Inbound, C!Outbound
    <3> QED BY <3>1 DEF RowTyped
  <2> QED BY <1>1, <2>1, <2>2
<1>4. CallTyped
  BY <1>1, <1>2, <1>3, NoCallTaskIs DEF CallTyped, RowTyped
<1>5. HasItsRow
  BY <1>2, <1>3 DEF HasItsRow
<1>6. OpenedOnce
  BY <1>1, <1>2 DEF OpenedOnce
<1>7. Unwritten
  BY <1>1, <1>2, LimitsAreNatural DEF Unwritten, TurnsCounted, Counting
<1>8. OverStaysOver
  BY <1>3 DEF OverStaysOver
<1> QED BY <1>4, <1>5, <1>6, <1>7, <1>8 DEF CallInv

LEMMA CallNext ==
  ASSUME CallInv, C!Next \/ UNCHANGED callVars PROVE CallInv'
<1>1. CASE UNCHANGED callVars
  BY <1>1 DEF callVars, CallInv, CallTyped, HasItsRow, OpenedOnce, Unwritten, TurnsCounted, OverStaysOver,
              Disturbed, Ender, Mild, Does
<1>2. ASSUME NEW r \in Requests, C!Step(r) PROVE CallInv'
  <2>1. ASSUME NEW to \in {"ivr", "voicemail", "ai_agent", "queue", "agent", "nowhere"}, C!Answers(r, to)
        PROVE  CallInv'
    BY <2>1, CallAnswers DEF Targets
  <2>2. ASSUME NEW to \in {"ivr", "voicemail", "ai_agent", "queue", "agent", "transfer", "ended", "nowhere"},
               C!Presses(r, to)
        PROVE  CallInv'
    BY <2>2, CallPresses DEF Targets
  <2> QED BY <1>2, <2>1, <2>2, CallOpens, CallInserts, CallTakesNumber, CallNotes, CallAsksAnswered, CallQueues,
             CallDecides, CallBridges, CallWrites, CallAsksEnded, CallEnds, CallLoads, CallSaves, CallHears,
             CallSaysATurn DEF C!Step
<1> QED BY <1>1, <1>2, CallWebhook, CallControls, CallSpeaks DEF C!Next

\* For any number of requests, turns and limits: a call that is over stays over, in its row
\* and its control, one conversation is opened for it, and the AI agent answers no more
\* turns than it may, but for the overlaps each names
\* (calls.service.ts:97-213, 297-302, 471-500, voice-agent.service.ts:104-119).
THEOREM CallsKeepOrderTheorem == AllSpec => []CallsKeepOrder
<1>1. AllInit => CallInv
  BY StartsEveryPart, CallInit
<1>2. CallInv /\ [AllNext]_AllVars => CallInv'
  BY StepsOnePart, CallNext
<1>3. ASSUME CallInv PROVE CallsKeepOrder
  <2>1. CallTyped
    BY <1>3 DEF CallInv
  <2>2. C!EndedStaysEnded
    <3>1. SUFFICES ASSUME C!Quiet, call.ended, ~Disturbed PROVE call.status \in C!Final /\ control.mode = "ended"
      BY DEF C!EndedStaysEnded, Disturbed
    <3>2. \A r \in Requests : ~Ender(r)
      BY <3>1, EndingsFollow DEF C!Quiet, Ender
    <3> QED BY <1>3, <3>1, <3>2 DEF CallInv, OverStaysOver, C!Final
  <2>3. C!OneConversation
    BY <1>3, <2>1 DEF CallInv, OpenedOnce, C!OneConversation
  <2>4. C!TurnsBounded
    BY <1>3, <2>1, LimitsAreNatural DEF CallInv, CallTyped, Unwritten, TurnsCounted, C!TurnsBounded
  <2> QED BY <2>2, <2>3, <2>4 DEF CallsKeepOrder
<1> QED BY <1>1, <1>2, <1>3, PTL DEF AllSpec

-----------------------------------------------------------------------------
(* An article and its index. Below, the requests that hold the article's text,  *)
(* and those that take the index away.                                          *)

Text == Nat \ {0}
AtPc(r) == indexing[r].pc
Holds(r) == indexing[r].doc = Mirror /\ AtPc(r) \in {"upsert", "write", "mark", "parse"}
TakesAway == {"find", "remove", "findDelete", "removeDelete", "delete"}
IndexPcs == TakesAway \cup {"idle", "save", "index", "upsert", "write", "skip", "put", "enqueue", "mark", "parse",
                            "removeRow", "row"}
IsIndexing(t) ==
  /\ t \in [pc : IndexPcs, doc : K!Documents \cup {None}, before : {t.before}, hand : {t.hand}]
  /\ t.pc = "save" => t.before = <<t.before[1], t.before[2]>> /\ t.before[1] \in Text
  /\ t.pc = "upsert" => t.doc = Mirror
  /\ t.pc \in {"write", "mark", "parse", "removeRow", "row"} => t.doc \in K!Documents
  /\ t.pc \in {"remove", "skip", "removeDelete"} => t.doc = Mirror
  /\ t.doc = Mirror /\ t.pc \in {"upsert", "write", "mark", "parse"} => t.hand \in Text
  /\ t.hand # None => t.pc \in {"upsert", "write", "mark", "parse"}
IsDocument(d) ==
  /\ d \in [exists : BOOLEAN, text : {d.text}, hash : {d.hash}, status : {d.status}, chunks : {d.chunks}]
  /\ ~d.exists => d.chunks = None
ArticleTyped ==
  /\ article \in [state : {"draft", "published", "gone"}, version : Text, text : Text]
  /\ indexExcuse \in BOOLEAN
  /\ IsFiniteSet(history)
DocumentsTyped ==
  /\ doc = [d \in K!Documents |-> doc[d]] /\ \A d \in K!Documents : IsDocument(doc[d])
  /\ doc[Mirror].exists => doc[Mirror].text \in Text
TasksTyped == indexing = [r \in Requests |-> indexing[r]] /\ \A r \in Requests : IsIndexing(indexing[r])

\* The history is the versions before the current one, and who is about to keep one read it
\* no later than now.
HistoryKept ==
  article.state # "gone" =>
    /\ {h[1] : h \in history} = 1 .. article.version - 1
    /\ \A g, h \in history : g[1] = h[1] => g = h
    /\ \A r \in Requests : AtPc(r) = "save" => indexing[r].before[1] <= article.version

\* What must be so of a draft and of what is published, as long as nothing is excused.
DraftIsOut ==
  /\ \A r \in Requests : ~Holds(r) /\ AtPc(r) # "index"
  /\ doc[Mirror].chunks = None \/ \E r \in Requests : AtPc(r) \in TakesAway
PublishedIsIn ==
  /\ \A r \in Requests : Holds(r) => indexing[r].hand = article.text
  /\ \A r \in Requests : AtPc(r) \notin {"find", "remove", "skip"}
  /\ (doc[Mirror].exists => doc[Mirror].text = article.text) \/ \E r \in Requests : AtPc(r) \in {"index", "upsert"}
  /\ \A r \in Requests : Holds(r) /\ AtPc(r) = "write" => doc[Mirror].exists
  /\ \/ doc[Mirror].chunks = article.text
     \/ \E r \in Requests : AtPc(r) \in {"index", "upsert", "delete"} \/ (Holds(r) /\ AtPc(r) = "write")
IndexKept ==
  /\ article.state = "gone" => ~doc[Mirror].exists
  /\ ~indexExcuse =>
       /\ \A r \in Requests : ~(indexing[r].doc = Mirror /\ AtPc(r) \in {"removeRow", "row"})
       /\ article.state = "draft" => DraftIsOut
       /\ article.state = "published" => PublishedIsIn
WholeInv == ArticleTyped /\ DocumentsTyped /\ TasksTyped /\ HistoryKept /\ IndexKept

\* One request goes from one place to another, and the others stay where they are.
Went(r, t) == indexing'[r] = t /\ \A q \in Requests \ {r} : indexing'[q] = indexing[q]
\* What a step that touches neither the article nor the history needs to be.
Rests(r, t) ==
  /\ K!Goes(r, t) /\ IsIndexing(t)
  /\ UNCHANGED <<article, history>> /\ indexExcuse' \in BOOLEAN
  /\ t.pc = "save" => t.before[1] <= article.version

LEMMA NoTaskIsTyped ==
  ASSUME NEW pc \in {"idle", "save", "index", "find", "findDelete", "put"}, NEW b,
         pc = "save" => b = <<b[1], b[2]>> /\ b[1] \in Text
  PROVE  /\ IsIndexing([pc |-> pc, doc |-> None, before |-> b, hand |-> None])
         /\ K!NoTask = [pc |-> "idle", doc |-> None, before |-> None, hand |-> None]
         /\ None # Mirror
BY NoneIsNoValue DEF IsIndexing, IndexPcs, TakesAway, K!NoTask

LEMMA TaskGoes ==
  ASSUME TasksTyped, NEW r \in Requests, NEW t, IsIndexing(t), K!Goes(r, t)
  PROVE  TasksTyped' /\ Went(r, t)
<1>1. indexing' = [indexing EXCEPT ![r] = t]
  BY DEF K!Goes
<1>2. indexing' = [q \in Requests |-> indexing'[q]]
  BY <1>1 DEF TasksTyped
<1>3. Went(r, t)
  BY <1>1 DEF TasksTyped, Went
<1>4. \A q \in Requests : IsIndexing(indexing[q])'
  <2> SUFFICES ASSUME NEW q \in Requests PROVE IsIndexing(indexing[q])'
    OBVIOUS
  <2>1. IsIndexing(indexing'[q])
    BY <1>3 DEF TasksTyped, Went
  <2>2. IsIndexing(indexing'[q]) => IsIndexing(indexing[q])'
    BY Zenon DEF IsIndexing
  <2> QED BY <2>1, <2>2
<1> QED BY <1>2, <1>3, <1>4 DEF TasksTyped

LEMMA RestKeeps ==
  ASSUME WholeInv, NEW r \in Requests, NEW t, Rests(r, t)
  PROVE  ArticleTyped' /\ TasksTyped' /\ HistoryKept' /\ Went(r, t)
<1>1. TasksTyped' /\ Went(r, t)
  BY TaskGoes DEF WholeInv, Rests
<1>2. ArticleTyped'
  BY DEF WholeInv, Rests, ArticleTyped
<1>3. HistoryKept'
  <2> SUFFICES ASSUME article.state # "gone" PROVE HistoryKept'
    BY DEF HistoryKept, Rests
  <2>1. \A q \in Requests : AtPc(q)' = "save" => indexing'[q].before[1] <= article.version
    <3> TAKE q \in Requests
    <3>1. CASE q = r
      BY <1>1, <3>1 DEF Went, Rests, AtPc
    <3>2. CASE q # r
      BY <1>1, <3>2 DEF Went, Rests, AtPc, WholeInv, HistoryKept
    <3> QED BY <3>1, <3>2
  <2> QED BY <2>1 DEF HistoryKept, WholeInv, Rests
<1> QED BY <1>1, <1>2, <1>3

\* A step beside: it touches neither the document of the article nor takes part in its indexing.
SameMirror ==
  /\ doc'[Mirror].exists = doc[Mirror].exists /\ doc'[Mirror].text = doc[Mirror].text
  /\ doc'[Mirror].chunks = doc[Mirror].chunks
Beside(r, t) ==
  /\ AtPc(r) \notin TakesAway \cup {"index", "upsert"} /\ ~(Holds(r) /\ AtPc(r) = "write")
  /\ t.pc \notin {"index", "find", "remove", "skip"} /\ t.doc # Mirror

LEMMA BesideKeeps ==
  ASSUME WholeInv, NEW r \in Requests, NEW t, Rests(r, t), DocumentsTyped', SameMirror, Beside(r, t),
         indexExcuse => indexExcuse'
  PROVE  WholeInv'
<1>1. ArticleTyped' /\ TasksTyped' /\ HistoryKept' /\ Went(r, t)
  BY RestKeeps
<1>2. \A q \in Requests : Holds(q)' => q # r /\ Holds(q) /\ indexing'[q] = indexing[q]
  BY <1>1 DEF Went, Beside, Holds, AtPc
<1>3. \A q \in Requests : q # r => AtPc(q)' = AtPc(q) /\ Holds(q)' = Holds(q)
  BY <1>1 DEF Went, Holds, AtPc
<1>4. AtPc(r)' = t.pc
  BY <1>1 DEF Went, AtPc
<1>5. article' = article
  BY DEF Rests
<1>6. ASSUME ~indexExcuse'
      PROVE  /\ \A q \in Requests : ~(indexing'[q].doc = Mirror /\ AtPc(q)' \in {"removeRow", "row"})
             /\ article.state = "draft" => DraftIsOut'
             /\ article.state = "published" => PublishedIsIn'
  <2>1. ~indexExcuse
    BY <1>6
  <2>2. \A q \in Requests : ~(indexing'[q].doc = Mirror /\ AtPc(q)' \in {"removeRow", "row"})
    BY <1>1, <2>1 DEF Went, Beside, AtPc, WholeInv, IndexKept
  <2>3. ASSUME article.state = "draft" PROVE DraftIsOut'
    <3>1. DraftIsOut
      BY <2>1, <2>3 DEF WholeInv, IndexKept
    <3> QED BY <1>2, <1>3, <1>4, <3>1 DEF DraftIsOut, SameMirror, Beside
  <2>4. ASSUME article.state = "published" PROVE PublishedIsIn'
    <3>1. PublishedIsIn
      BY <2>1, <2>4 DEF WholeInv, IndexKept
    <3>2. \A q \in Requests : Holds(q)' => indexing'[q].hand = article'.text
      BY <1>2, <1>5, <3>1 DEF PublishedIsIn
    <3>3. \A q \in Requests : AtPc(q)' \notin {"find", "remove", "skip"}
      BY <1>3, <1>4, <3>1 DEF PublishedIsIn, Beside
    <3>4. \/ doc'[Mirror].exists => doc'[Mirror].text = article'.text
          \/ \E q \in Requests : AtPc(q)' \in {"index", "upsert"}
      BY <1>3, <1>5, <3>1 DEF PublishedIsIn, SameMirror, Beside
    <3>5. \A q \in Requests : Holds(q)' /\ AtPc(q)' = "write" => doc'[Mirror].exists
      BY <1>2, <1>3, <3>1 DEF PublishedIsIn, SameMirror
    <3>6. \/ doc'[Mirror].chunks = article'.text
          \/ \E q \in Requests : AtPc(q)' \in {"index", "upsert", "delete"} \/ (Holds(q)' /\ AtPc(q)' = "write")
      BY <1>3, <1>5, <3>1 DEF PublishedIsIn, SameMirror, Beside, TakesAway
    <3> QED BY <3>2, <3>3, <3>4, <3>5, <3>6 DEF PublishedIsIn
  <2> QED BY <2>2, <2>3, <2>4
<1>7. article'.state = "gone" => ~doc'[Mirror].exists
  BY <1>5 DEF WholeInv, IndexKept, SameMirror
<1> QED BY <1>1, <1>5, <1>6, <1>7 DEF WholeInv, IndexKept

LEMMA ExcusedKeeps ==
  ASSUME WholeInv, NEW r \in Requests, NEW t, Rests(r, t), DocumentsTyped', indexExcuse',
         doc'[Mirror].exists => doc[Mirror].exists
  PROVE  WholeInv'
<1>1. ArticleTyped' /\ TasksTyped' /\ HistoryKept'
  BY RestKeeps
<1> QED BY <1>1 DEF WholeInv, IndexKept, Rests

LEMMA DocumentsStay ==
  ASSUME DocumentsTyped, UNCHANGED doc
  PROVE  DocumentsTyped' /\ SameMirror
<1>1. \A d \in K!Documents : IsDocument(doc[d])'
  BY DEF DocumentsTyped, IsDocument
<1> QED BY <1>1 DEF DocumentsTyped, SameMirror

LEMMA DocumentGoes ==
  ASSUME DocumentsTyped, NEW d \in K!Documents, NEW row, IsDocument(row),
         doc' = [doc EXCEPT ![d] = row], d = Mirror /\ row.exists => row.text \in Text
  PROVE  DocumentsTyped' /\ doc'[d] = row /\ (d # Mirror => SameMirror)
<1>1. doc' = [e \in K!Documents |-> doc'[e]] /\ doc'[d] = row
      /\ \A e \in K!Documents : e # d => doc'[e] = doc[e]
  BY DEF DocumentsTyped
<1>2. Mirror \in K!Documents
  BY DEF K!Documents
<1>3. \A e \in K!Documents : IsDocument(doc[e])'
  <2> SUFFICES ASSUME NEW e \in K!Documents PROVE IsDocument(doc[e])'
    OBVIOUS
  <2>1. IsDocument(doc'[e])
    BY <1>1 DEF DocumentsTyped
  <2>2. IsDocument(doc'[e]) => IsDocument(doc[e])'
    BY Zenon DEF IsDocument
  <2> QED BY <2>1, <2>2
<1> QED BY <1>1, <1>2, <1>3 DEF DocumentsTyped, SameMirror

LEMMA IdleTask ==
  ASSUME WholeInv, NEW r \in Requests, AtPc(r) \in {"idle", "save", "put", "enqueue", "skip"}
  PROVE  AtPc(r) \notin TakesAway \cup {"index", "upsert"} /\ ~Holds(r)
BY DEF TakesAway, Holds

LEMMA NoTaskBut ==
  ASSUME NEW pc, NEW b
  PROVE  /\ [K!NoTask EXCEPT !.pc = pc, !.before = b] = [pc |-> pc, doc |-> None, before |-> b, hand |-> None]
         /\ [K!NoTask EXCEPT !.pc = pc] = [pc |-> pc, doc |-> None, before |-> None, hand |-> None]
<1>1. K!NoTask = [pc |-> "idle", doc |-> None, before |-> None, hand |-> None]
  BY DEF K!NoTask
<1>2. [K!NoTask EXCEPT !.pc = pc] = [pc |-> pc, doc |-> None, before |-> None, hand |-> None]
  BY <1>1
<1>3. \A n : [n EXCEPT !.pc = pc, !.before = b] = [[n EXCEPT !.pc = pc] EXCEPT !.before = b]
  OBVIOUS
<1>4. [[pc |-> pc, doc |-> None, before |-> None, hand |-> None] EXCEPT !.before = b]
        = [pc |-> pc, doc |-> None, before |-> b, hand |-> None]
  OBVIOUS
<1>5. [K!NoTask EXCEPT !.pc = pc, !.before = b] = [pc |-> pc, doc |-> None, before |-> b, hand |-> None]
  BY Zenon, <1>2, <1>3, <1>4
<1> QED BY <1>2, <1>5

LEMMA EditsKeep ==
  ASSUME WholeInv, NEW r \in Requests, K!Edits(r)
  PROVE  WholeInv'
<1> DEFINE t == [K!NoTask EXCEPT !.pc = "save", !.before = <<article.version, article.text>>]
<1>1. /\ AtPc(r) = "idle" /\ K!Goes(r, t) /\ UNCHANGED <<article, history, indexExcuse, doc>>
  BY DEF K!Edits, K!Begins, K!At, AtPc, K!Docless
<1>2. article.version \in Text
  BY DEF WholeInv, ArticleTyped
<1>3. t = [pc |-> "save", doc |-> None, before |-> <<article.version, article.text>>, hand |-> None]
  BY NoTaskBut
<1>4. IsIndexing(t) /\ t.doc # Mirror /\ t.pc = "save" /\ t.before[1] = article.version
  <2>1. <<article.version, article.text>> = <<<<article.version, article.text>>[1], <<article.version, article.text>>[2]>>
        /\ <<article.version, article.text>>[1] \in Text
    BY <1>2
  <2> QED BY <1>3, <2>1, NoTaskIsTyped
<1> HIDE DEF t
<1>5. Rests(r, t)
  BY <1>1, <1>2, <1>4 DEF Rests, WholeInv, ArticleTyped, Text
<1>6. DocumentsTyped' /\ SameMirror
  BY <1>1, DocumentsStay DEF WholeInv
<1>7. Beside(r, t)
  BY <1>1, <1>4, IdleTask DEF Beside
<1> QED BY <1>1, <1>5, <1>6, <1>7, BesideKeeps

\* A request that ends without a trace.
LEMMA EndsKeep ==
  ASSUME WholeInv, NEW r \in Requests, K!Ends(r), UNCHANGED <<article, history, indexExcuse>>,
         DocumentsTyped', SameMirror,
         AtPc(r) \notin TakesAway \cup {"index", "upsert"} /\ ~(Holds(r) /\ AtPc(r) = "write")
  PROVE  WholeInv'
<1> DEFINE t == K!NoTask
<1>1. K!Goes(r, t)
  BY DEF K!Ends
<1>2. IsIndexing(t) /\ t.pc = "idle" /\ t.doc # Mirror
  <2>1. IsIndexing([pc |-> "idle", doc |-> None, before |-> None, hand |-> None])
    BY NoTaskIsTyped
  <2>2. K!NoTask = [pc |-> "idle", doc |-> None, before |-> None, hand |-> None] /\ None # Mirror
    BY NoneIsNoValue DEF K!NoTask
  <2> QED BY <2>1, <2>2
<1> HIDE DEF t
<1>3. Rests(r, t)
  BY <1>1, <1>2 DEF Rests, WholeInv, ArticleTyped
<1>4. Beside(r, t)
  BY <1>2 DEF Beside
<1> QED BY <1>3, <1>4, BesideKeeps

LEMMA CardinalityOfHistory == K!Cardinality(history') = Cardinality(history')
BY DEF K!Cardinality, Cardinality

LEMMA SavesKeep ==
  ASSUME WholeInv, NEW r \in Requests, K!Saves(r)
  PROVE  WholeInv'
<1>1. AtPc(r) = "save" /\ UNCHANGED doc
  BY DEF K!Saves, K!At, AtPc, K!Docless
<1>2. DocumentsTyped' /\ SameMirror
  BY <1>1, DocumentsStay DEF WholeInv
<1>3. CASE ~(K!Here /\ K!TakesSnapshot(indexing[r].before))
  <2>1. K!Ends(r) /\ UNCHANGED <<article, history, indexExcuse>>
    BY <1>3 DEF K!Saves
  <2> QED BY <1>1, <1>2, <2>1, IdleTask, EndsKeep
<1>4. CASE K!Here /\ K!TakesSnapshot(indexing[r].before)
  <2> DEFINE b == indexing[r].before
             t == [K!NoTask EXCEPT !.pc = K!AfterSave]
  <2>1. /\ history' = history \cup {b}
        /\ article' = [article EXCEPT !.version = @ + 1, !.text = 1 + K!Cardinality(history')]
        /\ K!Goes(r, t) /\ indexExcuse' = (indexExcuse \/ K!Holding(r))
    BY <1>4 DEF K!Saves, K!Excuses
  <2>2. K!AfterSave \in {"idle", "index"} /\ (article.state = "published" => K!AfterSave = "index")
        /\ (article.state # "published" => K!AfterSave = "idle")
    BY DEF K!AfterSave
  <2>3. t = [pc |-> K!AfterSave, doc |-> None, before |-> None, hand |-> None]
    BY NoTaskBut
  <2>4. IsIndexing(t) /\ t.pc = K!AfterSave /\ t.doc = None /\ None # Mirror
    BY <2>2, <2>3, NoTaskIsTyped
  <2> HIDE DEF t
  <2>5. TasksTyped' /\ Went(r, t)
    BY <2>1, <2>4, TaskGoes DEF WholeInv
  <2>6. IsFiniteSet(history') /\ Cardinality(history') \in Nat
    BY <2>1, FS_AddElement, FS_CardinalityType DEF WholeInv, ArticleTyped
  <2>7. /\ article'.version = article.version + 1 /\ article'.state = article.state
        /\ article' \in [state : {"draft", "published", "gone"}, version : Text, text : Text]
    <3>1. article \in [state : {"draft", "published", "gone"}, version : Text, text : Text]
      BY DEF WholeInv, ArticleTyped
    <3>2. 1 + K!Cardinality(history') \in Text /\ article.version + 1 \in Text
      BY <2>6, <3>1, CardinalityOfHistory DEF Text
    <3> QED BY <2>1, <3>1, <3>2
  <2>8. ArticleTyped'
    BY <2>1, <2>6, <2>7 DEF ArticleTyped, WholeInv
  <2>9. b[1] = article.version
    <3>1. b[1] \in Text /\ b[1] <= article.version /\ {h[1] : h \in history} = 1 .. article.version - 1
      BY <1>1, <1>4 DEF WholeInv, TasksTyped, IsIndexing, HistoryKept, K!Here, AtPc
    <3>2. b[1] \notin {h[1] : h \in history}
      BY <1>4 DEF K!TakesSnapshot
    <3>3. article.version \in Text
      BY DEF WholeInv, ArticleTyped
    <3> QED BY <3>1, <3>2, <3>3 DEF Text
  <2>10. HistoryKept'
    <3>1. HistoryKept /\ article.state # "gone" /\ article.version \in Text
      BY <1>4 DEF WholeInv, K!Here, ArticleTyped
    <3>2. {h[1] : h \in history'} = {h[1] : h \in history} \cup {b[1]}
      BY <2>1
    <3>3. {h[1] : h \in history'} = 1 .. article'.version - 1
      <4>1. 1 .. article'.version - 1 = (1 .. article.version - 1) \cup {article.version}
        BY <2>7, <3>1 DEF Text
      <4> QED BY <2>9, <3>1, <3>2, <4>1 DEF HistoryKept
    <3>4. \A h \in history : h[1] # b[1]
      BY <1>4 DEF K!TakesSnapshot
    <3>5. \A g, h \in history' : g[1] = h[1] => g = h
      BY <2>1, <3>1, <3>4 DEF HistoryKept
    <3>6. \A q \in Requests : AtPc(q)' = "save" => indexing'[q].before[1] <= article'.version
      <4> SUFFICES ASSUME NEW q \in Requests, AtPc(q)' = "save" PROVE indexing'[q].before[1] <= article'.version
        OBVIOUS
      <4>1. q # r /\ indexing'[q] = indexing[q] /\ AtPc(q) = "save"
        BY <2>2, <2>4, <2>5 DEF Went, AtPc
      <4>2. indexing[q].before[1] <= article.version /\ indexing[q].before[1] \in Text
        BY <3>1, <4>1 DEF HistoryKept, WholeInv, TasksTyped, IsIndexing, AtPc
      <4> QED BY <2>7, <3>1, <4>1, <4>2 DEF Text
    <3> QED BY <3>3, <3>5, <3>6 DEF HistoryKept
  <2>11. \A q \in Requests \ {r} : AtPc(q)' = AtPc(q) /\ Holds(q)' = Holds(q) /\ indexing'[q] = indexing[q]
    BY <2>5 DEF Went, AtPc, Holds
  <2>12. indexing'[r] = t /\ AtPc(r)' = K!AfterSave /\ ~Holds(r)'
    BY <2>2, <2>4, <2>5 DEF Went, AtPc, Holds
  <2>13. ASSUME ~indexExcuse'
         PROVE  /\ \A q \in Requests : ~(indexing'[q].doc = Mirror /\ AtPc(q)' \in {"removeRow", "row"})
                /\ article.state = "draft" => DraftIsOut'
                /\ article.state = "published" => PublishedIsIn'
    <3>1. ~indexExcuse /\ ~K!Holding(r)
      BY <2>1, <2>13
    <3>2. \A q \in Requests : ~(indexing'[q].doc = Mirror /\ AtPc(q)' \in {"removeRow", "row"})
      BY <2>2, <2>11, <2>12, <3>1 DEF WholeInv, IndexKept
    <3>3. \A q \in Requests : ~Holds(q)'
      <4> SUFFICES ASSUME NEW q \in Requests \ {r}, Holds(q) PROVE FALSE
        BY <2>11, <2>12
      <4>1. indexing[q].hand # None /\ indexing[q].doc = Mirror
        BY NoneIsNoValue DEF Holds, WholeInv, TasksTyped, IsIndexing, AtPc, Text
      <4> QED BY <3>1, <4>1 DEF K!Holding
    <3>4. ASSUME article.state = "draft" PROVE DraftIsOut'
      <4>1. DraftIsOut
        BY <3>1, <3>4 DEF WholeInv, IndexKept
      <4> QED BY <1>1, <2>2, <2>11, <2>12, <3>3, <3>4, <4>1 DEF DraftIsOut, TakesAway
    <3>5. ASSUME article.state = "published" PROVE PublishedIsIn'
      <4>1. PublishedIsIn
        BY <3>1, <3>5 DEF WholeInv, IndexKept
      <4>2. AtPc(r)' = "index"
        BY <2>2, <2>12, <3>5
      <4>3. \A q \in Requests : AtPc(q)' \notin {"find", "remove", "skip"}
        BY <2>11, <4>1, <4>2 DEF PublishedIsIn
      <4> QED BY <3>3, <4>2, <4>3 DEF PublishedIsIn
    <3> QED BY <3>2, <3>4, <3>5
  <2>14. IndexKept'
    BY <1>4, <2>7, <2>13 DEF IndexKept, K!Here
  <2> QED BY <1>2, <2>5, <2>8, <2>10, <2>14 DEF WholeInv
<1> QED BY <1>3, <1>4

LEMMA TaskBut ==
  ASSUME NEW n, n \in [pc : {n.pc}, doc : {n.doc}, before : {n.before}, hand : {n.hand}],
         NEW p, NEW d
  PROVE  /\ [n EXCEPT !.pc = p] = [pc |-> p, doc |-> n.doc, before |-> n.before, hand |-> n.hand]
         /\ [n EXCEPT !.pc = p, !.doc = d] = [pc |-> p, doc |-> d, before |-> n.before, hand |-> n.hand]
         /\ [n EXCEPT !.doc = d, !.pc = p] = [pc |-> p, doc |-> d, before |-> n.before, hand |-> n.hand]
         /\ \A h : [n EXCEPT !.pc = p, !.doc = d, !.hand = h] = [pc |-> p, doc |-> d, before |-> n.before, hand |-> h]
<1> DEFINE m == [n EXCEPT !.pc = p]
           k == [n EXCEPT !.doc = d]
           l == [m EXCEPT !.doc = d]
<1>1. /\ [n EXCEPT !.pc = p, !.doc = d] = l
      /\ [n EXCEPT !.doc = d, !.pc = p] = [k EXCEPT !.pc = p]
      /\ \A h : [n EXCEPT !.pc = p, !.doc = d, !.hand = h] = [l EXCEPT !.hand = h]
  OBVIOUS
<1>2. PICK a, b, c, e : /\ n = [pc |-> a, doc |-> b, before |-> c, hand |-> e]
                        /\ b = n.doc /\ c = n.before /\ e = n.hand
  OBVIOUS
<1>3. m = [pc |-> p, doc |-> b, before |-> c, hand |-> e] /\ k = [pc |-> a, doc |-> d, before |-> c, hand |-> e]
  BY <1>2
<1> HIDE DEF m, k
<1>4. l = [pc |-> p, doc |-> d, before |-> c, hand |-> e]
      /\ [k EXCEPT !.pc = p] = [pc |-> p, doc |-> d, before |-> c, hand |-> e]
  BY <1>3
<1> HIDE DEF l
<1>5. \A h : [l EXCEPT !.hand = h] = [pc |-> p, doc |-> d, before |-> c, hand |-> h]
  BY <1>4
<1> QED BY Zenon, <1>1, <1>2, <1>3, <1>4, <1>5 DEF m

LEMMA NoTaskFilled ==
  ASSUME NEW p, NEW d, NEW h
  PROVE  /\ [K!NoTask EXCEPT !.pc = p, !.doc = d] = [pc |-> p, doc |-> d, before |-> None, hand |-> None]
         /\ [K!NoTask EXCEPT !.pc = p, !.doc = d, !.hand = h] = [pc |-> p, doc |-> d, before |-> None, hand |-> h]
<1> DEFINE n == K!NoTask
<1>1. /\ n \in [pc : {n.pc}, doc : {n.doc}, before : {n.before}, hand : {n.hand}]
      /\ n.before = None /\ n.hand = None
  BY DEF K!NoTask
<1> HIDE DEF n
<1>2. \A x, y : /\ [n EXCEPT !.pc = x, !.doc = y] = [pc |-> x, doc |-> y, before |-> n.before, hand |-> n.hand]
                /\ \A z : [n EXCEPT !.pc = x, !.doc = y, !.hand = z]
                           = [pc |-> x, doc |-> y, before |-> n.before, hand |-> z]
  BY <1>1, TaskBut
<1>3. /\ [n EXCEPT !.pc = p, !.doc = d] = [pc |-> p, doc |-> d, before |-> None, hand |-> None]
      /\ [n EXCEPT !.pc = p, !.doc = d, !.hand = h] = [pc |-> p, doc |-> d, before |-> None, hand |-> h]
  BY Zenon, <1>1, <1>2
<1> QED BY <1>3 DEF n

LEMMA PublishesKeep ==
  ASSUME WholeInv, NEW r \in Requests, K!Publishes(r)
  PROVE  WholeInv'
<1> DEFINE t == [K!NoTask EXCEPT !.pc = "index"]
<1>1. /\ AtPc(r) = "idle" /\ article.state # "gone" /\ K!Goes(r, t) /\ UNCHANGED <<history, doc>>
      /\ article' = [article EXCEPT !.state = "published"]
      /\ indexExcuse' = (K!Others(r, K!Removing) \/ (indexExcuse /\ \E q \in Requests \ {r} : indexing[q] # K!NoTask))
  BY DEF K!Publishes, K!Begins, K!At, AtPc, K!Docless, K!Here
<1>2. DocumentsTyped' /\ SameMirror
  BY <1>1, DocumentsStay DEF WholeInv
<1>3. IsIndexing(t) /\ t.pc = "index" /\ t.doc = None /\ None # Mirror
  <2>1. IsIndexing([pc |-> "index", doc |-> None, before |-> None, hand |-> None])
    BY NoTaskIsTyped
  <2> QED BY <2>1, NoTaskBut, NoneIsNoValue
<1> HIDE DEF t
<1>4. TasksTyped' /\ Went(r, t)
  BY <1>1, <1>3, TaskGoes DEF WholeInv
<1>5. /\ article'.version = article.version /\ article'.state = "published" /\ article'.text = article.text
      /\ article' \in [state : {"draft", "published", "gone"}, version : Text, text : Text]
  BY <1>1 DEF WholeInv, ArticleTyped
<1>6. ArticleTyped'
  BY <1>1, <1>5 DEF WholeInv, ArticleTyped
<1>7. \A q \in Requests \ {r} : AtPc(q)' = AtPc(q) /\ Holds(q)' = Holds(q) /\ indexing'[q] = indexing[q]
  BY <1>4 DEF Went, AtPc, Holds
<1>8. indexing'[r] = t /\ AtPc(r)' = "index" /\ ~Holds(r)' /\ r \in Requests
  BY <1>3, <1>4 DEF Went, AtPc, Holds
<1>9. HistoryKept'
  BY <1>1, <1>5, <1>7, <1>8 DEF WholeInv, HistoryKept
<1>10. ASSUME ~indexExcuse'
       PROVE  /\ \A q \in Requests : ~(indexing'[q].doc = Mirror /\ AtPc(q)' \in {"removeRow", "row"})
              /\ PublishedIsIn'
  <2>1. \A q \in Requests \ {r} : AtPc(q) \notin {"find", "remove", "skip"}
    BY <1>1, <1>10 DEF K!Others, K!Removing, AtPc
  <2>2. CASE indexExcuse
    <3>1. \A q \in Requests \ {r} : AtPc(q) = "idle"
      <4>1. \A q \in Requests \ {r} : indexing[q] = K!NoTask
        BY <1>1, <1>10, <2>2
      <4> QED BY <4>1 DEF K!NoTask, AtPc
    <3>2. \A q \in Requests : ~Holds(q)' /\ AtPc(q)' \in {"idle", "index"}
      BY <1>7, <1>8, <3>1 DEF Holds
    <3> QED BY <1>8, <3>2 DEF PublishedIsIn
  <2>3. CASE ~indexExcuse
    <3>1. /\ \A q \in Requests : ~(indexing[q].doc = Mirror /\ AtPc(q) \in {"removeRow", "row"})
          /\ article.state = "draft" => DraftIsOut
          /\ article.state = "published" => PublishedIsIn
      BY <2>3 DEF WholeInv, IndexKept
    <3>2. article.state \in {"draft", "published"}
      BY <1>1 DEF WholeInv, ArticleTyped
    <3>3. \A q \in Requests : Holds(q) =>
            indexing[q].hand = article.text /\ (AtPc(q) = "write" => doc[Mirror].exists)
      BY <3>1, <3>2 DEF DraftIsOut, PublishedIsIn
    <3>4. \A q \in Requests : Holds(q)' =>
            indexing'[q].hand = article'.text /\ (AtPc(q)' = "write" => doc'[Mirror].exists)
      BY <1>2, <1>5, <1>7, <1>8, <3>3 DEF SameMirror
    <3>5. \A q \in Requests : AtPc(q)' \notin {"find", "remove", "skip"}
      BY <1>7, <1>8, <2>1
    <3>6. \A q \in Requests : ~(indexing'[q].doc = Mirror /\ AtPc(q)' \in {"removeRow", "row"})
      BY <1>7, <1>8, <3>1
    <3> QED BY <1>8, <3>4, <3>5, <3>6 DEF PublishedIsIn
  <2> QED BY <2>2, <2>3
<1>11. IndexKept'
  BY <1>5, <1>10 DEF IndexKept
<1> QED BY <1>2, <1>4, <1>6, <1>9, <1>11 DEF WholeInv

LEMMA UnpublishesKeep ==
  ASSUME WholeInv, NEW r \in Requests, K!Unpublishes(r)
  PROVE  WholeInv'
<1> DEFINE t == [K!NoTask EXCEPT !.pc = "find"]
<1>1. /\ AtPc(r) = "idle" /\ article.state # "gone" /\ K!Goes(r, t) /\ UNCHANGED <<history, doc>>
      /\ article' = [article EXCEPT !.state = "draft"]
      /\ indexExcuse' = (indexExcuse \/ K!Holding(r) \/ K!Others(r, {"index"}))
  BY DEF K!Unpublishes, K!Begins, K!At, AtPc, K!Docless, K!Here, K!Excuses
<1>2. DocumentsTyped' /\ SameMirror
  BY <1>1, DocumentsStay DEF WholeInv
<1>3. IsIndexing(t) /\ t.pc = "find" /\ t.doc = None /\ None # Mirror
  <2>1. IsIndexing([pc |-> "find", doc |-> None, before |-> None, hand |-> None])
    BY NoTaskIsTyped
  <2> QED BY <2>1, NoTaskBut, NoneIsNoValue
<1> HIDE DEF t
<1>4. TasksTyped' /\ Went(r, t)
  BY <1>1, <1>3, TaskGoes DEF WholeInv
<1>5. /\ article'.version = article.version /\ article'.state = "draft" /\ article'.text = article.text
      /\ article' \in [state : {"draft", "published", "gone"}, version : Text, text : Text]
  BY <1>1 DEF WholeInv, ArticleTyped
<1>6. ArticleTyped'
  BY <1>1, <1>5 DEF WholeInv, ArticleTyped
<1>7. \A q \in Requests \ {r} : AtPc(q)' = AtPc(q) /\ Holds(q)' = Holds(q) /\ indexing'[q] = indexing[q]
  BY <1>4 DEF Went, AtPc, Holds
<1>8. indexing'[r] = t /\ AtPc(r)' = "find" /\ ~Holds(r)' /\ r \in Requests
  BY <1>3, <1>4 DEF Went, AtPc, Holds
<1>9. HistoryKept'
  BY <1>1, <1>5, <1>7, <1>8 DEF WholeInv, HistoryKept
<1>10. ASSUME ~indexExcuse'
       PROVE  /\ \A q \in Requests : ~(indexing'[q].doc = Mirror /\ AtPc(q)' \in {"removeRow", "row"})
              /\ DraftIsOut'
  <2>1. \A q \in Requests \ {r} : AtPc(q) # "index"
    BY <1>1, <1>10 DEF K!Others, AtPc
  <2>2. \A q \in Requests \ {r} : ~Holds(q)
    <3> SUFFICES ASSUME NEW q \in Requests \ {r}, Holds(q) PROVE FALSE
      OBVIOUS
    <3>1. indexing[q].hand # None /\ indexing[q].doc = Mirror
      BY NoneIsNoValue DEF Holds, WholeInv, TasksTyped, IsIndexing, AtPc, Text
    <3> QED BY <1>1, <1>10, <3>1 DEF K!Holding
  <2>3. \A q \in Requests : ~(indexing[q].doc = Mirror /\ AtPc(q) \in {"removeRow", "row"})
    BY <1>1, <1>10 DEF WholeInv, IndexKept
  <2>4. \A q \in Requests : ~Holds(q)' /\ AtPc(q)' # "index"
        /\ ~(indexing'[q].doc = Mirror /\ AtPc(q)' \in {"removeRow", "row"})
    BY <1>7, <1>8, <2>1, <2>2, <2>3
  <2> QED BY <1>8, <2>4 DEF DraftIsOut, TakesAway
<1>11. IndexKept'
  BY <1>5, <1>10 DEF IndexKept
<1> QED BY <1>2, <1>4, <1>6, <1>9, <1>11 DEF WholeInv

\* A request that goes on with the document of the article, of which only the request moves.
LEMMA IndexReadsKeep ==
  ASSUME WholeInv, NEW r \in Requests, K!IndexReads(r)
  PROVE  WholeInv'
<1> DEFINE t == [K!NoTask EXCEPT !.pc = "upsert", !.doc = Mirror, !.hand = article.text]
<1>1. AtPc(r) = "index" /\ UNCHANGED <<article, history, doc, indexExcuse>>
  BY DEF K!IndexReads, K!At, AtPc, K!Artless
<1>2. DocumentsTyped' /\ SameMirror
  BY <1>1, DocumentsStay DEF WholeInv
<1>3. CASE article.state = "gone"
  <2>1. K!Goes(r, K!NoTask)
    BY <1>3 DEF K!IndexReads, K!Here, K!Ends
  <2>2. IsIndexing(K!NoTask) /\ K!NoTask.pc = "idle" /\ K!NoTask.doc = None /\ None # Mirror
    <3>1. IsIndexing([pc |-> "idle", doc |-> None, before |-> None, hand |-> None])
      BY NoTaskIsTyped
    <3> QED BY <3>1, NoneIsNoValue DEF K!NoTask
  <2>3. Rests(r, K!NoTask)
    BY <1>1, <2>1, <2>2 DEF Rests, WholeInv, ArticleTyped
  <2>4. ArticleTyped' /\ TasksTyped' /\ HistoryKept' /\ Went(r, K!NoTask)
    BY <2>3, RestKeeps
  <2>5. ~indexExcuse => \A q \in Requests : ~(indexing'[q].doc = Mirror /\ AtPc(q)' \in {"removeRow", "row"})
    BY <2>2, <2>4 DEF Went, AtPc, WholeInv, IndexKept
  <2>6. IndexKept'
    BY <1>1, <1>3, <2>5 DEF IndexKept, WholeInv
  <2> QED BY <1>2, <2>4, <2>6 DEF WholeInv
<1>4. CASE article.state # "gone"
  <2>1. K!Goes(r, t)
    BY <1>4 DEF K!IndexReads, K!Here
  <2>2. IsIndexing(t) /\ t.pc = "upsert" /\ t.doc = Mirror /\ t.hand = article.text
    <3>1. t = [pc |-> "upsert", doc |-> Mirror, before |-> None, hand |-> article.text]
      BY Zenon, NoTaskFilled
    <3>2. article.text \in Text /\ Mirror \in K!Documents
      BY DEF WholeInv, ArticleTyped, K!Documents
    <3> HIDE DEF t
    <3> QED BY <3>1, <3>2 DEF IsIndexing, IndexPcs
  <2> HIDE DEF t
  <2>3. Rests(r, t)
    BY <1>1, <2>1, <2>2 DEF Rests, WholeInv, ArticleTyped
  <2>4. ArticleTyped' /\ TasksTyped' /\ HistoryKept' /\ Went(r, t)
    BY <2>3, RestKeeps
  <2>5. \A q \in Requests \ {r} : AtPc(q)' = AtPc(q) /\ Holds(q)' = Holds(q) /\ indexing'[q] = indexing[q]
    BY <2>4 DEF Went, AtPc, Holds
  <2>6. AtPc(r)' = "upsert" /\ indexing'[r].hand = article.text /\ r \in Requests
    BY <2>2, <2>4 DEF Went, AtPc
  <2>7. ASSUME ~indexExcuse
        PROVE  /\ \A q \in Requests : ~(indexing'[q].doc = Mirror /\ AtPc(q)' \in {"removeRow", "row"})
               /\ article.state # "draft"
               /\ article.state = "published" => PublishedIsIn'
    <3>1. /\ \A q \in Requests : ~(indexing[q].doc = Mirror /\ AtPc(q) \in {"removeRow", "row"})
          /\ article.state = "draft" => DraftIsOut
          /\ article.state = "published" => PublishedIsIn
      BY <2>7 DEF WholeInv, IndexKept
    <3>2. article.state # "draft"
      BY <1>1, <3>1 DEF DraftIsOut
    <3>3. \A q \in Requests : ~(indexing'[q].doc = Mirror /\ AtPc(q)' \in {"removeRow", "row"})
      BY <2>5, <2>6, <3>1
    <3>4. ASSUME article.state = "published" PROVE PublishedIsIn'
      <4>1. PublishedIsIn /\ doc' = doc /\ article' = article
        BY <1>1, <3>1, <3>4
      <4>2. \A q \in Requests : Holds(q)' => indexing'[q].hand = article'.text
        BY <2>5, <2>6, <4>1 DEF PublishedIsIn
      <4>3. \A q \in Requests : /\ AtPc(q)' \notin {"find", "remove", "skip"}
                                /\ Holds(q)' /\ AtPc(q)' = "write" => doc'[Mirror].exists
        BY <2>5, <2>6, <4>1 DEF PublishedIsIn
      <4> QED BY <2>6, <4>2, <4>3 DEF PublishedIsIn
    <3> QED BY <3>2, <3>3, <3>4
  <2>8. IndexKept'
    BY <1>1, <1>4, <2>7 DEF IndexKept
  <2> QED BY <1>2, <2>4, <2>8 DEF WholeInv
<1> QED BY <1>3, <1>4

LEMMA FindsKeep ==
  ASSUME WholeInv, NEW r \in Requests, K!Finds(r)
  PROVE  WholeInv'
<1> DEFINE d == IF doc[Mirror].exists THEN Mirror ELSE None
           p == IF AtPc(r) = "find" THEN IF doc[Mirror].exists THEN "remove" ELSE "idle"
                ELSE IF doc[Mirror].exists THEN "removeDelete" ELSE "delete"
           t == [indexing[r] EXCEPT !.doc = d, !.pc = p]
<1>1. AtPc(r) \in {"find", "findDelete"} /\ K!Goes(r, t) /\ UNCHANGED <<article, history, doc, indexExcuse>>
  BY DEF K!Finds, K!At, AtPc, K!Artless
<1>2. DocumentsTyped' /\ SameMirror
  BY <1>1, DocumentsStay DEF WholeInv
<1>3. t = [pc |-> p, doc |-> d, before |-> indexing[r].before, hand |-> None]
  <2>1. /\ indexing[r] \in [pc : IndexPcs, doc : K!Documents \cup {None}, before : {indexing[r].before},
                            hand : {indexing[r].hand}]
        /\ indexing[r].hand = None
    BY <1>1 DEF WholeInv, TasksTyped, IsIndexing, AtPc
  <2> HIDE DEF p, d
  <2> QED BY <2>1, TaskBut
<1>4. /\ p \in {"remove", "idle", "removeDelete", "delete"} /\ d \in {Mirror, None} /\ None # Mirror
      /\ p \in {"remove", "removeDelete"} <=> d = Mirror
      /\ AtPc(r) = "find" => p \in {"remove", "idle"} /\ (p = "idle" => ~doc[Mirror].exists)
      /\ AtPc(r) = "findDelete" => p \in {"removeDelete", "delete"}
  BY <1>1, NoneIsNoValue
<1> HIDE DEF p, d
<1>5. IsIndexing(t) /\ t.pc = p /\ t.doc = d
  BY <1>3, <1>4 DEF IsIndexing, IndexPcs, TakesAway, K!Documents
<1> HIDE DEF t
<1>6. Rests(r, t)
  BY <1>1, <1>4, <1>5 DEF Rests, WholeInv, ArticleTyped
<1>7. ArticleTyped' /\ TasksTyped' /\ HistoryKept' /\ Went(r, t)
  BY <1>6, RestKeeps
<1>8. \A q \in Requests \ {r} : AtPc(q)' = AtPc(q) /\ Holds(q)' = Holds(q) /\ indexing'[q] = indexing[q]
  BY <1>7 DEF Went, AtPc, Holds
<1>9. AtPc(r)' = p /\ ~Holds(r)' /\ r \in Requests
  BY <1>4, <1>5, <1>7 DEF Went, AtPc, Holds
<1>10. ASSUME ~indexExcuse
       PROVE  /\ \A q \in Requests : ~(indexing'[q].doc = Mirror /\ AtPc(q)' \in {"removeRow", "row"})
              /\ article.state = "draft" => DraftIsOut'
              /\ article.state = "published" => PublishedIsIn'
  <2>1. /\ \A q \in Requests : ~(indexing[q].doc = Mirror /\ AtPc(q) \in {"removeRow", "row"})
        /\ article.state = "draft" => DraftIsOut
        /\ article.state = "published" => PublishedIsIn
    BY <1>10 DEF WholeInv, IndexKept
  <2>2. \A q \in Requests : ~(indexing'[q].doc = Mirror /\ AtPc(q)' \in {"removeRow", "row"})
    BY <1>4, <1>8, <1>9, <2>1
  <2>3. ASSUME article.state = "draft" PROVE DraftIsOut'
    <3>1. \A q \in Requests : ~Holds(q)' /\ AtPc(q)' # "index"
      BY <1>4, <1>8, <1>9, <2>1, <2>3 DEF DraftIsOut
    <3>2. CASE p \in TakesAway
      BY <1>9, <3>1, <3>2 DEF DraftIsOut
    <3>3. CASE p \notin TakesAway
      <4>1. ~doc[Mirror].exists
        BY <1>1, <1>4, <3>3 DEF TakesAway
      <4>2. doc'[Mirror].chunks = None
        BY <1>1, <4>1 DEF WholeInv, DocumentsTyped, IsDocument, K!Documents
      <4> QED BY <3>1, <4>2 DEF DraftIsOut
    <3> QED BY <3>2, <3>3
  <2>4. ASSUME article.state = "published" PROVE PublishedIsIn'
    <3>1. PublishedIsIn /\ doc' = doc /\ article' = article
      BY <1>1, <2>1, <2>4
    <3>2. AtPc(r) = "findDelete" /\ p \in {"removeDelete", "delete"}
      BY <1>1, <1>4, <3>1 DEF PublishedIsIn
    <3>3. \A q \in Requests : /\ Holds(q)' => indexing'[q].hand = article'.text
                              /\ AtPc(q)' \notin {"find", "remove", "skip"}
                              /\ Holds(q)' /\ AtPc(q)' = "write" => doc'[Mirror].exists
      BY <1>8, <1>9, <3>1, <3>2 DEF PublishedIsIn
    <3>4. \A q \in Requests : AtPc(q) \in {"index", "upsert", "delete", "write"} =>
            AtPc(q)' = AtPc(q) /\ Holds(q)' = Holds(q)
      BY <1>8, <3>2
    <3>5. \/ doc'[Mirror].exists => doc'[Mirror].text = article'.text
          \/ \E q \in Requests : AtPc(q)' \in {"index", "upsert"}
      BY <3>1, <3>4 DEF PublishedIsIn
    <3>6. \/ doc'[Mirror].chunks = article'.text
          \/ \E q \in Requests : AtPc(q)' \in {"index", "upsert", "delete"} \/ (Holds(q)' /\ AtPc(q)' = "write")
      BY <3>1, <3>4 DEF PublishedIsIn
    <3> QED BY <3>3, <3>5, <3>6 DEF PublishedIsIn
  <2> QED BY <2>2, <2>3, <2>4
<1>11. IndexKept'
  BY <1>1, <1>10 DEF IndexKept, WholeInv
<1> QED BY <1>2, <1>7, <1>11 DEF WholeInv

\* A row as a record, and what writing some of its fields makes of it.
Row(e, x, h, s, c) == [exists |-> e, text |-> x, hash |-> h, status |-> s, chunks |-> c]

LEMMA DocumentIsRow ==
  ASSUME NEW n, IsDocument(n)
  PROVE  n = Row(n.exists, n.text, n.hash, n.status, n.chunks) /\ n.exists \in BOOLEAN
BY DEF Row, IsDocument

LEMMA RowOne ==
  ASSUME NEW n, IsDocument(n)
  PROVE  \A v : /\ [n EXCEPT !.status = v] = Row(n.exists, n.text, n.hash, v, n.chunks)
               /\ [n EXCEPT !.chunks = v] = Row(n.exists, n.text, n.hash, n.status, v)
<1> TAKE v
<1>1. PICK e, x, h, s, c : /\ n = Row(e, x, h, s, c)
                           /\ e = n.exists /\ x = n.text /\ h = n.hash /\ s = n.status /\ c = n.chunks
  BY DocumentIsRow
<1>2. [n EXCEPT !.status = v] = Row(e, x, h, v, c) /\ [n EXCEPT !.chunks = v] = Row(e, x, h, s, v)
  BY <1>1 DEF Row
<1> QED BY <1>1, <1>2

LEMMA RowText ==
  ASSUME NEW n, IsDocument(n)
  PROVE  \A v, w : [n EXCEPT !.text = v, !.hash = w] = Row(n.exists, v, w, n.status, n.chunks)
<1> TAKE v, w
<1> DEFINE k == [n EXCEPT !.text = v]
<1>1. [n EXCEPT !.text = v, !.hash = w] = [k EXCEPT !.hash = w]
  OBVIOUS
<1>2. PICK e, x, h, s, c : /\ n = Row(e, x, h, s, c)
                           /\ e = n.exists /\ x = n.text /\ h = n.hash /\ s = n.status /\ c = n.chunks
  BY DocumentIsRow
<1>3. k = Row(e, v, h, s, c)
  BY <1>2 DEF Row
<1> HIDE DEF k
<1>4. [k EXCEPT !.hash = w] = Row(e, v, w, s, c)
  BY <1>3 DEF Row
<1> QED BY <1>1, <1>2, <1>4

LEMMA RowChunks ==
  ASSUME NEW n, IsDocument(n)
  PROVE  \A v, w : [n EXCEPT !.chunks = v, !.status = w] = Row(n.exists, n.text, n.hash, w, v)
<1> TAKE v, w
<1> DEFINE k == [n EXCEPT !.chunks = v]
<1>1. [n EXCEPT !.chunks = v, !.status = w] = [k EXCEPT !.status = w]
  OBVIOUS
<1>2. PICK e, x, h, s, c : /\ n = Row(e, x, h, s, c)
                           /\ e = n.exists /\ x = n.text /\ h = n.hash /\ s = n.status /\ c = n.chunks
  BY DocumentIsRow
<1>3. k = Row(e, x, h, s, v)
  BY <1>2 DEF Row
<1> HIDE DEF k
<1>4. [k EXCEPT !.status = w] = Row(e, x, h, w, v)
  BY <1>3 DEF Row
<1> QED BY <1>1, <1>2, <1>4

LEMMA RowExists ==
  ASSUME NEW n, IsDocument(n)
  PROVE  \A v, w : [n EXCEPT !.exists = v, !.hash = w] = Row(v, n.text, w, n.status, n.chunks)
<1> TAKE v, w
<1> DEFINE k == [n EXCEPT !.exists = v]
<1>1. [n EXCEPT !.exists = v, !.hash = w] = [k EXCEPT !.hash = w]
  OBVIOUS
<1>2. PICK e, x, h, s, c : /\ n = Row(e, x, h, s, c)
                           /\ e = n.exists /\ x = n.text /\ h = n.hash /\ s = n.status /\ c = n.chunks
  BY DocumentIsRow
<1>3. k = Row(v, x, h, s, c)
  BY <1>2 DEF Row
<1> HIDE DEF k
<1>4. [k EXCEPT !.hash = w] = Row(v, x, w, s, c)
  BY <1>3 DEF Row
<1> QED BY <1>1, <1>2, <1>4

LEMMA RowUpserted ==
  ASSUME NEW n, IsDocument(n)
  PROVE  \A f, a, b, g :
           [n EXCEPT !.exists = f, !.text = a, !.hash = b, !.status = g] = Row(f, a, b, g, n.chunks)
<1> TAKE f, a, b, g
<1> DEFINE k == [n EXCEPT !.exists = f]
           l == [k EXCEPT !.text = a]
           m == [l EXCEPT !.hash = b]
<1>1. [n EXCEPT !.exists = f, !.text = a, !.hash = b, !.status = g] = [m EXCEPT !.status = g]
  OBVIOUS
<1>2. PICK e, x, h, s, c : n = Row(e, x, h, s, c) /\ c = n.chunks
  BY DocumentIsRow
<1>3. k = Row(f, x, h, s, c)
  BY <1>2 DEF Row
<1> HIDE DEF k
<1>4. l = Row(f, a, h, s, c)
  BY <1>3 DEF Row
<1> HIDE DEF l
<1>5. m = Row(f, a, b, s, c)
  BY <1>4 DEF Row
<1> HIDE DEF m
<1>6. [m EXCEPT !.status = g] = Row(f, a, b, g, c)
  BY <1>5 DEF Row
<1> QED BY Zenon, <1>1, <1>2, <1>6

LEMMA FieldsOfOne ==
  ASSUME DocumentsTyped, NEW d \in K!Documents, NEW v, NEW w
  PROVE  /\ [doc EXCEPT ![d].chunks = v] = [doc EXCEPT ![d] = [doc[d] EXCEPT !.chunks = v]]
         /\ [doc EXCEPT ![d].status = v] = [doc EXCEPT ![d] = [doc[d] EXCEPT !.status = v]]
         /\ [doc EXCEPT ![d].text = v, ![d].hash = w] = [doc EXCEPT ![d] = [doc[d] EXCEPT !.text = v, !.hash = w]]
         /\ [doc EXCEPT ![d].chunks = v, ![d].status = w]
              = [doc EXCEPT ![d] = [doc[d] EXCEPT !.chunks = v, !.status = w]]
BY DEF DocumentsTyped

LEMMA StatusWritten ==
  ASSUME DocumentsTyped, NEW d \in K!Documents, NEW v, doc' = [doc EXCEPT ![d].status = v]
  PROVE  DocumentsTyped' /\ SameMirror
<1> DEFINE n == doc[d]
           row == Row(n.exists, n.text, n.hash, v, n.chunks)
<1>1. IsDocument(n) /\ (d = Mirror /\ n.exists => n.text \in Text)
  BY DEF DocumentsTyped
<1>2. n = Row(n.exists, n.text, n.hash, n.status, n.chunks) /\ n.exists \in BOOLEAN /\ (~n.exists => n.chunks = None)
  BY <1>1, DocumentIsRow DEF IsDocument
<1>3. doc' = [doc EXCEPT ![d] = row]
  <2>1. [n EXCEPT !.status = v] = row
    BY <1>1, RowOne
  <2> QED BY <2>1, FieldsOfOne
<1>4. IsDocument(row) /\ row.exists = n.exists /\ row.text = n.text /\ row.chunks = n.chunks
  BY <1>2 DEF Row, IsDocument
<1> HIDE DEF row
<1>5. DocumentsTyped' /\ doc'[d] = row /\ (d # Mirror => SameMirror)
  BY <1>1, <1>3, <1>4, DocumentGoes
<1> QED BY <1>4, <1>5 DEF SameMirror

LEMMA ChunksWritten ==
  ASSUME DocumentsTyped, NEW d \in K!Documents, NEW v, NEW w, v = None \/ doc[d].exists,
         \/ doc' = [doc EXCEPT ![d].chunks = v]
         \/ doc' = [doc EXCEPT ![d].chunks = v, ![d].status = w]
  PROVE  /\ DocumentsTyped' /\ (d # Mirror => SameMirror)
         /\ doc'[d].exists = doc[d].exists /\ doc'[d].text = doc[d].text /\ doc'[d].chunks = v
<1> DEFINE n == doc[d]
<1>1. IsDocument(n) /\ (d = Mirror /\ n.exists => n.text \in Text)
  BY DEF DocumentsTyped
<1>2. n = Row(n.exists, n.text, n.hash, n.status, n.chunks) /\ n.exists \in BOOLEAN /\ (~n.exists => n.chunks = None)
  BY <1>1, DocumentIsRow DEF IsDocument
<1>3. PICK s : doc' = [doc EXCEPT ![d] = Row(n.exists, n.text, n.hash, s, v)]
  <2>1. [n EXCEPT !.chunks = v] = Row(n.exists, n.text, n.hash, n.status, v)
    BY <1>1, RowOne
  <2>2. [n EXCEPT !.chunks = v, !.status = w] = Row(n.exists, n.text, n.hash, w, v)
    BY <1>1, RowChunks
  <2>3. \/ doc' = [doc EXCEPT ![d] = [n EXCEPT !.chunks = v]]
        \/ doc' = [doc EXCEPT ![d] = [n EXCEPT !.chunks = v, !.status = w]]
    BY FieldsOfOne
  <2> QED BY Zenon, <2>1, <2>2, <2>3
<1> DEFINE row == Row(n.exists, n.text, n.hash, s, v)
<1>4. IsDocument(row) /\ row.exists = n.exists /\ row.text = n.text /\ row.chunks = v
  BY <1>2 DEF Row, IsDocument
<1> HIDE DEF row
<1>5. DocumentsTyped' /\ doc'[d] = row /\ (d # Mirror => SameMirror)
  <2>1. doc' = [doc EXCEPT ![d] = row]
    BY <1>3 DEF row
  <2> QED BY <1>1, <1>4, <2>1, DocumentGoes
<1> QED BY <1>4, <1>5

LEMMA TextWritten ==
  ASSUME DocumentsTyped, NEW d \in K!Documents, NEW v, NEW w, doc[d].exists, d = Mirror => v \in Text,
         doc' = [doc EXCEPT ![d].text = v, ![d].hash = w]
  PROVE  /\ DocumentsTyped' /\ (d # Mirror => SameMirror)
         /\ doc'[d].exists /\ doc'[d].text = v /\ doc'[d].chunks = doc[d].chunks
<1> DEFINE n == doc[d]
           row == Row(n.exists, v, w, n.status, n.chunks)
<1>1. IsDocument(n)
  BY DEF DocumentsTyped
<1>2. n = Row(n.exists, n.text, n.hash, n.status, n.chunks) /\ n.exists
  BY <1>1, DocumentIsRow
<1>3. doc' = [doc EXCEPT ![d] = row]
  <2>1. [n EXCEPT !.text = v, !.hash = w] = row
    BY <1>1, RowText
  <2> QED BY <2>1, FieldsOfOne
<1>4. IsDocument(row) /\ row.exists = n.exists /\ row.text = v /\ row.chunks = n.chunks
  BY <1>1, <1>2 DEF Row, IsDocument
<1> HIDE DEF row
<1>5. DocumentsTyped' /\ doc'[d] = row /\ (d # Mirror => SameMirror)
  BY <1>3, <1>4, DocumentGoes
<1> QED BY <1>2, <1>4, <1>5

LEMMA Upserted ==
  ASSUME DocumentsTyped, NEW v \in Text, NEW w, NEW s,
         doc' = [doc EXCEPT ![Mirror] = [@ EXCEPT !.exists = TRUE, !.text = v, !.hash = w, !.status = s]]
  PROVE  DocumentsTyped' /\ doc'[Mirror].exists /\ doc'[Mirror].text = v
<1> DEFINE n == doc[Mirror]
           row == Row(TRUE, v, w, s, n.chunks)
<1>1. IsDocument(n) /\ Mirror \in K!Documents
  BY DEF DocumentsTyped, K!Documents
<1>2. n = Row(n.exists, n.text, n.hash, n.status, n.chunks)
  BY <1>1, DocumentIsRow
<1>3. doc' = [doc EXCEPT ![Mirror] = row]
  <2>1. [n EXCEPT !.exists = TRUE, !.text = v, !.hash = w, !.status = s] = row
    BY <1>1, RowUpserted
  <2>2. doc' = [doc EXCEPT ![Mirror] = [n EXCEPT !.exists = TRUE, !.text = v, !.hash = w, !.status = s]]
    BY DEF DocumentsTyped
  <2> QED BY <2>1, <2>2
<1>4. IsDocument(row) /\ row.exists /\ row.text = v
  BY DEF Row, IsDocument
<1> HIDE DEF row
<1>5. DocumentsTyped' /\ doc'[Mirror] = row
  BY <1>1, <1>3, <1>4, DocumentGoes
<1> QED BY <1>4, <1>5

LEMMA RowWritten ==
  ASSUME DocumentsTyped, NEW d \in K!Documents, NEW w,
         \/ doc' = [doc EXCEPT ![d] = K!NoDocument]
         \/ d # Mirror /\ doc' = [doc EXCEPT ![d] = [K!NoDocument EXCEPT !.exists = TRUE, !.hash = w]]
  PROVE  /\ DocumentsTyped' /\ (d # Mirror => SameMirror)
         /\ d = Mirror => ~doc'[Mirror].exists
<1>1. K!NoDocument = Row(FALSE, None, None, "pending", None)
  BY DEF Row, K!NoDocument
<1>2. [K!NoDocument EXCEPT !.exists = TRUE, !.hash = w] = Row(TRUE, None, w, "pending", None)
  <2>1. IsDocument(K!NoDocument) /\ K!NoDocument.text = None
        /\ K!NoDocument.status = "pending" /\ K!NoDocument.chunks = None
    BY DEF IsDocument, K!NoDocument
  <2> DEFINE n == K!NoDocument
  <2> HIDE DEF n
  <2>2. IsDocument(n)
    BY <2>1 DEF n
  <2>3. [n EXCEPT !.exists = TRUE, !.hash = w] = Row(TRUE, n.text, w, n.status, n.chunks)
    BY <2>2, RowExists
  <2> QED BY Zenon, <2>1, <2>3 DEF n
<1>3. PICK e, h : e \in BOOLEAN /\ (d = Mirror => ~e) /\ doc' = [doc EXCEPT ![d] = Row(e, None, h, "pending", None)]
  BY <1>1, <1>2
<1> DEFINE row == Row(e, None, h, "pending", None)
<1>4. IsDocument(row) /\ row.exists = e
  BY <1>3 DEF Row, IsDocument
<1> HIDE DEF row
<1>5. DocumentsTyped' /\ doc'[d] = row /\ (d # Mirror => SameMirror)
  <2>1. doc' = [doc EXCEPT ![d] = row]
    BY <1>3 DEF row
  <2> QED BY <1>3, <1>4, <2>1, DocumentGoes
<1> QED BY <1>3, <1>4, <1>5

LEMMA NoTaskEnds ==
  IsIndexing(K!NoTask) /\ K!NoTask.pc = "idle" /\ K!NoTask.doc = None /\ None # Mirror
<1>1. IsIndexing([pc |-> "idle", doc |-> None, before |-> None, hand |-> None])
  BY NoTaskIsTyped
<1> QED BY <1>1, NoneIsNoValue DEF K!NoTask

\* Everybody but one is where it was.
LEMMA OthersStay ==
  ASSUME NEW r \in Requests, NEW t, Went(r, t)
  PROVE  /\ \A q \in Requests \ {r} : AtPc(q)' = AtPc(q) /\ Holds(q)' = Holds(q) /\ indexing'[q] = indexing[q]
         /\ AtPc(r)' = t.pc /\ indexing'[r] = t
         /\ Holds(r)' <=> t.doc = Mirror /\ t.pc \in {"upsert", "write", "mark", "parse"}
BY DEF Went, AtPc, Holds

LEMMA IndexUpsertsKeep ==
  ASSUME WholeInv, NEW r \in Requests, K!IndexUpserts(r)
  PROVE  WholeInv'
<1>1. AtPc(r) = "upsert" /\ UNCHANGED <<article, history>>
  BY DEF K!IndexUpserts, K!At, AtPc, K!Artless
<1>2. IsIndexing(indexing[r]) /\ indexing[r].doc = Mirror /\ indexing[r].hand \in Text /\ Holds(r)
  BY <1>1 DEF WholeInv, TasksTyped, IsIndexing, AtPc, Holds
<1>3. CASE article.state = "gone"
  <2>1. K!Goes(r, K!NoTask) /\ UNCHANGED <<doc, indexExcuse>>
    BY <1>3 DEF K!IndexUpserts, K!Here, K!Ends
  <2>2. DocumentsTyped' /\ SameMirror
    BY <2>1, DocumentsStay DEF WholeInv
  <2>3. Rests(r, K!NoTask)
    BY <1>1, <2>1, NoTaskEnds DEF Rests, WholeInv, ArticleTyped
  <2>4. ArticleTyped' /\ TasksTyped' /\ HistoryKept' /\ Went(r, K!NoTask)
    BY <2>3, RestKeeps
  <2>5. ~indexExcuse => \A q \in Requests : ~(indexing'[q].doc = Mirror /\ AtPc(q)' \in {"removeRow", "row"})
    BY <2>4, NoTaskEnds DEF Went, AtPc, WholeInv, IndexKept
  <2>6. IndexKept'
    BY <1>1, <1>3, <2>1, <2>5 DEF IndexKept, WholeInv
  <2> QED BY <2>2, <2>4, <2>6 DEF WholeInv
<1>4. CASE article.state # "gone"
  <2> DEFINE n == indexing[r]
             t == [n EXCEPT !.pc = "write"]
  <2>1. /\ K!Goes(r, t)
        /\ doc' = [doc EXCEPT ![Mirror] = [@ EXCEPT !.exists = TRUE, !.text = n.hand,
                     !.hash = <<"text", n.hand>>, !.status = "processing"]]
        /\ indexExcuse' = (indexExcuse \/ \E q \in Requests \ {r} :
                             indexing[q].doc = Mirror /\ indexing[q].hand \notin {None, n.hand})
    BY <1>4 DEF K!IndexUpserts, K!Here, K!Excuses
  <2>2. DocumentsTyped' /\ doc'[Mirror].exists /\ doc'[Mirror].text = n.hand
    BY <1>2, <2>1, Upserted DEF WholeInv
  <2>3. IsIndexing(t) /\ t.pc = "write" /\ t.doc = Mirror /\ t.hand = n.hand
    <3>1. t = [pc |-> "write", doc |-> n.doc, before |-> n.before, hand |-> n.hand]
      BY <1>2, TaskBut DEF IsIndexing
    <3>2. n.doc = Mirror /\ n.hand \in Text /\ Mirror \in K!Documents
      BY <1>2 DEF K!Documents
    <3> HIDE DEF t, n
    <3> QED BY <3>1, <3>2 DEF IsIndexing, IndexPcs
  <2> HIDE DEF t
  <2>4. Rests(r, t)
    BY <1>1, <2>1, <2>3 DEF Rests, WholeInv, ArticleTyped
  <2>5. ArticleTyped' /\ TasksTyped' /\ HistoryKept' /\ Went(r, t)
    BY <2>4, RestKeeps
  <2>6. /\ \A q \in Requests \ {r} : AtPc(q)' = AtPc(q) /\ Holds(q)' = Holds(q) /\ indexing'[q] = indexing[q]
        /\ AtPc(r)' = "write" /\ Holds(r)' /\ indexing'[r].hand = indexing[r].hand
    BY <2>3, <2>5, OthersStay
  <2>7. ASSUME ~indexExcuse'
        PROVE  /\ \A q \in Requests : ~(indexing'[q].doc = Mirror /\ AtPc(q)' \in {"removeRow", "row"})
               /\ article.state # "draft"
               /\ article.state = "published" => PublishedIsIn'
    <3>1. /\ \A q \in Requests : ~(indexing[q].doc = Mirror /\ AtPc(q) \in {"removeRow", "row"})
          /\ article.state = "draft" => DraftIsOut
          /\ article.state = "published" => PublishedIsIn
      BY <2>1, <2>7 DEF WholeInv, IndexKept
    <3>2. article.state # "draft"
      BY <1>2, <3>1 DEF DraftIsOut
    <3>3. \A q \in Requests : ~(indexing'[q].doc = Mirror /\ AtPc(q)' \in {"removeRow", "row"})
      BY <2>6, <3>1
    <3>4. ASSUME article.state = "published" PROVE PublishedIsIn'
      <4>1. PublishedIsIn /\ article' = article /\ indexing[r].hand = article.text
        BY <1>1, <1>2, <3>1, <3>4 DEF PublishedIsIn
      <4>2. \A q \in Requests : Holds(q)' => indexing'[q].hand = article'.text
        BY <2>6, <4>1 DEF PublishedIsIn
      <4>3. \A q \in Requests : AtPc(q)' \notin {"find", "remove", "skip"}
        BY <2>6, <4>1 DEF PublishedIsIn
      <4> QED BY <2>2, <2>6, <4>1, <4>2, <4>3 DEF PublishedIsIn
    <3> QED BY <3>2, <3>3, <3>4
  <2>8. IndexKept'
    BY <1>1, <1>4, <2>7 DEF IndexKept
  <2> QED BY <2>2, <2>5, <2>8 DEF WholeInv
<1> QED BY <1>3, <1>4

LEMMA SkipsKeep ==
  ASSUME WholeInv, NEW r \in Requests, K!Skips(r)
  PROVE  WholeInv'
<1>1. AtPc(r) = "skip" /\ UNCHANGED <<article, history, indexExcuse>> /\ K!Ends(r)
  BY DEF K!Skips, K!At, AtPc, K!Artless
<1>2. DocumentsTyped' /\ SameMirror
  <2>1. \/ UNCHANGED doc
        \/ doc' = [doc EXCEPT ![Mirror].status = "skipped"]
    BY DEF K!Skips
  <2>2. Mirror \in K!Documents
    BY DEF K!Documents
  <2> QED BY <2>1, <2>2, DocumentsStay, StatusWritten DEF WholeInv
<1> QED BY <1>1, <1>2, IdleTask, EndsKeep

LEMMA DeletesKeep ==
  ASSUME WholeInv, NEW r \in Requests, K!Deletes(r)
  PROVE  WholeInv'
<1>1. CASE /\ K!Begins(r)
           /\ K!Goes(r, [K!NoTask EXCEPT !.pc = "findDelete"])
           /\ UNCHANGED <<article, history, edits, indexExcuse>> /\ K!Docless
  <2> DEFINE t == [K!NoTask EXCEPT !.pc = "findDelete"]
  <2>1. AtPc(r) = "idle" /\ UNCHANGED doc /\ K!Goes(r, t)
    BY <1>1 DEF K!Begins, K!At, AtPc, K!Docless
  <2>2. IsIndexing(t) /\ t.pc = "findDelete" /\ t.doc # Mirror
    <3>1. IsIndexing([pc |-> "findDelete", doc |-> None, before |-> None, hand |-> None])
      BY NoTaskIsTyped
    <3> QED BY <3>1, NoTaskBut, NoneIsNoValue
  <2> HIDE DEF t
  <2>3. Rests(r, t)
    BY <1>1, <2>1, <2>2 DEF Rests, WholeInv, ArticleTyped
  <2>4. DocumentsTyped' /\ SameMirror
    BY <2>1, DocumentsStay DEF WholeInv
  <2>5. Beside(r, t)
    BY <2>1, <2>2, IdleTask DEF Beside
  <2> QED BY <1>1, <2>3, <2>4, <2>5, BesideKeeps
<1>2. CASE /\ K!At(r, "delete")
           /\ article' = [article EXCEPT !.state = "gone"] /\ history' = {}
           /\ doc' = [doc EXCEPT ![Mirror] = K!NoDocument]
           /\ K!Ends(r)
           /\ UNCHANGED <<indexAsked, edits, indexExcuse, queued, uploads>>
  <2>1. K!Goes(r, K!NoTask)
    BY <1>2 DEF K!Ends
  <2>2. TasksTyped' /\ Went(r, K!NoTask)
    BY <2>1, NoTaskEnds, TaskGoes DEF WholeInv
  <2>3. Mirror \in K!Documents
    BY DEF K!Documents
  <2>4. DocumentsTyped' /\ ~doc'[Mirror].exists
    BY <1>2, <2>3, RowWritten DEF WholeInv
  <2>5. ArticleTyped' /\ article'.state = "gone"
    <3>1. IsFiniteSet({})
      BY FS_EmptySet
    <3> QED BY <1>2, <3>1 DEF WholeInv, ArticleTyped
  <2>6. ~indexExcuse => \A q \in Requests : ~(indexing'[q].doc = Mirror /\ AtPc(q)' \in {"removeRow", "row"})
    BY <2>2, NoTaskEnds DEF Went, AtPc, WholeInv, IndexKept
  <2>7. HistoryKept' /\ IndexKept'
    BY <1>2, <2>4, <2>5, <2>6 DEF HistoryKept, IndexKept
  <2> QED BY <2>2, <2>4, <2>5, <2>7 DEF WholeInv
<1> QED BY <1>1, <1>2 DEF K!Deletes

LEMMA RemovesKeep ==
  ASSUME WholeInv, NEW r \in Requests, K!Removes(r)
  PROVE  WholeInv'
<1> DEFINE n == indexing[r]
           p == [remove |-> "skip", removeDelete |-> "delete", removeRow |-> "row"][n.pc]
           t == [n EXCEPT !.pc = p]
<1>1. /\ AtPc(r) \in {"remove", "removeDelete", "removeRow"} /\ n.pc = AtPc(r)
      /\ UNCHANGED <<article, history, indexExcuse>>
      /\ doc' = [doc EXCEPT ![n.doc].chunks = None]
      /\ K!Goes(r, [n EXCEPT !.pc = [remove |-> "skip", removeDelete |-> "delete", removeRow |-> "row"][@]])
  BY DEF K!Removes, AtPc, K!Artless
<1>2. IsIndexing(n) /\ n.doc \in K!Documents /\ (AtPc(r) # "removeRow" => n.doc = Mirror) /\ n.hand = None
  BY <1>1 DEF WholeInv, TasksTyped, IsIndexing, AtPc, K!Documents
<1>3. /\ AtPc(r) = "remove" => p = "skip"
      /\ AtPc(r) = "removeDelete" => p = "delete"
      /\ AtPc(r) = "removeRow" => p = "row"
  BY <1>1
<1>4. K!Goes(r, t)
  BY <1>1, <1>2 DEF IsIndexing
<1>5. t = [pc |-> p, doc |-> n.doc, before |-> n.before, hand |-> n.hand]
  <2> HIDE DEF p
  <2> QED BY <1>2, TaskBut DEF IsIndexing
<1> HIDE DEF p
<1>6. IsIndexing(t) /\ t.pc = p /\ t.doc = n.doc
  <2> HIDE DEF t, n
  <2> QED BY <1>1, <1>2, <1>3, <1>5 DEF IsIndexing, IndexPcs, TakesAway
<1> HIDE DEF t
<1>7. Rests(r, t)
  BY <1>1, <1>3, <1>4, <1>6 DEF Rests, WholeInv, ArticleTyped
<1>8. ArticleTyped' /\ TasksTyped' /\ HistoryKept' /\ Went(r, t)
  BY <1>7, RestKeeps
<1>9. /\ DocumentsTyped' /\ (n.doc # Mirror => SameMirror)
      /\ doc'[n.doc].exists = doc[n.doc].exists /\ doc'[n.doc].text = doc[n.doc].text /\ doc'[n.doc].chunks = None
  BY <1>1, <1>2, ChunksWritten DEF WholeInv
<1>10. CASE n.doc # Mirror
  <2>1. AtPc(r) = "removeRow" /\ p = "row" /\ ~Holds(r)
    BY <1>1, <1>2, <1>3, <1>10 DEF Holds
  <2>2. Beside(r, t)
    BY <1>6, <1>10, <2>1 DEF Beside, TakesAway
  <2> QED BY <1>1, <1>7, <1>9, <1>10, <2>2, BesideKeeps
<1>11. CASE n.doc = Mirror
  <2>1. /\ \A q \in Requests \ {r} : AtPc(q)' = AtPc(q) /\ Holds(q)' = Holds(q) /\ indexing'[q] = indexing[q]
        /\ AtPc(r)' = p /\ ~Holds(r)'
    BY <1>1, <1>3, <1>6, <1>8, OthersStay
  <2>2. ASSUME ~indexExcuse
        PROVE  /\ \A q \in Requests : ~(indexing'[q].doc = Mirror /\ AtPc(q)' \in {"removeRow", "row"})
               /\ article.state = "draft" => DraftIsOut'
               /\ article.state = "published" => PublishedIsIn'
    <3>1. /\ \A q \in Requests : ~(indexing[q].doc = Mirror /\ AtPc(q) \in {"removeRow", "row"})
          /\ article.state = "draft" => DraftIsOut
          /\ article.state = "published" => PublishedIsIn
      BY <2>2 DEF WholeInv, IndexKept
    <3>2. AtPc(r) \in {"remove", "removeDelete"} /\ p \in {"skip", "delete"}
      BY <1>1, <1>3, <1>11, <3>1
    <3>3. \A q \in Requests : ~(indexing'[q].doc = Mirror /\ AtPc(q)' \in {"removeRow", "row"})
      BY <2>1, <3>1, <3>2
    <3>4. article.state = "draft" => DraftIsOut'
      BY <1>9, <1>11, <2>1, <3>1, <3>2 DEF DraftIsOut
    <3>5. ASSUME article.state = "published" PROVE PublishedIsIn'
      <4>1. PublishedIsIn /\ article' = article
        BY <1>1, <3>1, <3>5
      <4>2. AtPc(r) = "removeDelete" /\ p = "delete"
        BY <1>3, <3>2, <4>1 DEF PublishedIsIn
      <4>3. \A q \in Requests : /\ Holds(q)' => indexing'[q].hand = article'.text
                                /\ AtPc(q)' \notin {"find", "remove", "skip"}
                                /\ Holds(q)' /\ AtPc(q)' = "write" => doc'[Mirror].exists
        BY <1>9, <1>11, <2>1, <4>1, <4>2 DEF PublishedIsIn
      <4>4. \/ doc'[Mirror].exists => doc'[Mirror].text = article'.text
            \/ \E q \in Requests : AtPc(q)' \in {"index", "upsert"}
        BY <1>9, <1>11, <2>1, <4>1, <4>2 DEF PublishedIsIn
      <4> QED BY <2>1, <4>2, <4>3, <4>4 DEF PublishedIsIn
    <3> QED BY <3>3, <3>4, <3>5
  <2>3. article'.state = "gone" => ~doc'[Mirror].exists
    BY <1>1, <1>9, <1>11 DEF WholeInv, IndexKept
  <2>4. IndexKept'
    BY <1>1, <2>2, <2>3 DEF IndexKept
  <2> QED BY <1>8, <1>9, <2>4 DEF WholeInv
<1> QED BY <1>10, <1>11

LEMMA NobodyMovesKeeps ==
  ASSUME WholeInv, UNCHANGED <<article, history, doc, indexing, indexExcuse>>
  PROVE  WholeInv'
<1>1. (\A r \in Requests : IsIndexing(indexing[r]))' /\ (\A d \in K!Documents : IsDocument(doc[d]))'
  BY DEF WholeInv, TasksTyped, DocumentsTyped, IsIndexing, IsDocument
<1>2. ArticleTyped' /\ DocumentsTyped' /\ TasksTyped'
  BY <1>1 DEF WholeInv, ArticleTyped, TasksTyped, DocumentsTyped
<1>3. HistoryKept' /\ IndexKept'
  BY DEF WholeInv, HistoryKept, IndexKept, DraftIsOut, PublishedIsIn, Holds, AtPc
<1> QED BY <1>2, <1>3 DEF WholeInv

LEMMA UploadsKeep ==
  ASSUME WholeInv, NEW r \in Requests, K!UploadChecks(r) \/ K!UploadCreates(r) \/ K!UploadQueues(r)
  PROVE  WholeInv'
<1>1. CASE K!UploadChecks(r) /\ UNCHANGED indexing
  BY <1>1, NobodyMovesKeeps DEF K!UploadChecks, K!Artless
<1>2. CASE K!UploadChecks(r) /\ K!Goes(r, [K!NoTask EXCEPT !.pc = "put"])
  <2> DEFINE t == [K!NoTask EXCEPT !.pc = "put"]
  <2>1. AtPc(r) = "idle" /\ K!Goes(r, t) /\ UNCHANGED <<article, history, doc, indexExcuse>>
    BY <1>2 DEF K!UploadChecks, K!Begins, K!At, AtPc, K!Artless
  <2>2. IsIndexing(t) /\ t.pc = "put" /\ t.doc # Mirror
    <3>1. IsIndexing([pc |-> "put", doc |-> None, before |-> None, hand |-> None])
      BY NoTaskIsTyped
    <3> QED BY <3>1, NoTaskBut, NoneIsNoValue
  <2> HIDE DEF t
  <2>3. Rests(r, t)
    BY <2>1, <2>2 DEF Rests, WholeInv, ArticleTyped
  <2>4. DocumentsTyped' /\ SameMirror
    BY <2>1, DocumentsStay DEF WholeInv
  <2>5. Beside(r, t)
    BY <2>1, <2>2, IdleTask DEF Beside
  <2> QED BY <2>1, <2>3, <2>4, <2>5, BesideKeeps
<1>3. CASE K!UploadCreates(r)
  <2>1. PICK d \in Slots :
          /\ doc' = [doc EXCEPT ![d] = [K!NoDocument EXCEPT !.exists = TRUE, !.hash = <<"bytes", File>>]]
          /\ K!Goes(r, [K!NoTask EXCEPT !.pc = "enqueue", !.doc = d])
    BY <1>3 DEF K!UploadCreates
  <2> DEFINE t == [K!NoTask EXCEPT !.pc = "enqueue", !.doc = d]
  <2>2. AtPc(r) = "put" /\ K!Goes(r, t) /\ UNCHANGED <<article, history, indexExcuse>>
    BY <1>3, <2>1 DEF K!UploadCreates, K!At, AtPc
  <2>3. d \in K!Documents /\ d # Mirror
    BY TheMirrorIsNoSlot DEF K!Documents
  <2>4. IsIndexing(t) /\ t.pc = "enqueue" /\ t.doc # Mirror
    <3>1. t = [pc |-> "enqueue", doc |-> d, before |-> None, hand |-> None]
      BY NoTaskFilled
    <3> HIDE DEF t
    <3> QED BY <2>3, <3>1 DEF IsIndexing, IndexPcs
  <2> HIDE DEF t
  <2>5. Rests(r, t)
    BY <2>2, <2>4 DEF Rests, WholeInv, ArticleTyped
  <2>6. DocumentsTyped' /\ SameMirror
    BY <2>1, <2>3, RowWritten DEF WholeInv
  <2>7. Beside(r, t)
    BY <2>2, <2>4, IdleTask DEF Beside
  <2> QED BY <2>2, <2>5, <2>6, <2>7, BesideKeeps
<1>4. CASE K!UploadQueues(r)
  <2>1. AtPc(r) = "enqueue" /\ K!Ends(r) /\ UNCHANGED <<article, history, doc, indexExcuse>>
    BY <1>4 DEF K!UploadQueues, K!At, AtPc, K!Artless
  <2>2. DocumentsTyped' /\ SameMirror
    BY <2>1, DocumentsStay DEF WholeInv
  <2> QED BY <2>1, <2>2, IdleTask, EndsKeep
<1> QED BY <1>1, <1>2, <1>3, <1>4 DEF K!UploadChecks

LEMMA ProcessesKeep ==
  ASSUME WholeInv, NEW r \in Requests, K!Processes(r)
  PROVE  WholeInv'
<1>1. PICK d \in K!Documents :
        /\ doc[d].exists
        /\ K!Goes(r, [K!NoTask EXCEPT !.pc = "mark", !.doc = d, !.hand = IF doc[d].text # None THEN doc[d].text ELSE File])
        /\ indexExcuse' = (indexExcuse \/ (d = Mirror /\ (article.state # "published"
                            \/ K!Others(r, K!Removing \cup {"save", "index", "upsert"}))))
  BY DEF K!Processes, K!Excuses
<1>2. AtPc(r) = "idle" /\ UNCHANGED <<article, history, doc>>
  BY DEF K!Processes, K!Begins, K!At, AtPc, K!Artless
<1> DEFINE h == IF doc[d].text # None THEN doc[d].text ELSE File
           t == [K!NoTask EXCEPT !.pc = "mark", !.doc = d, !.hand = h]
<1>3. K!Goes(r, t)
  BY <1>1
<1>4. d = Mirror => h \in Text /\ h = doc[Mirror].text
  BY <1>1, NoneIsNoValue DEF WholeInv, DocumentsTyped, Text
<1>5. IsIndexing(t) /\ t.pc = "mark" /\ t.doc = d /\ t.hand = h
  <2>1. t = [pc |-> "mark", doc |-> d, before |-> None, hand |-> h]
    <3> HIDE DEF h
    <3> QED BY NoTaskFilled
  <2> HIDE DEF t, h
  <2> QED BY <1>4, <2>1 DEF IsIndexing, IndexPcs
<1> HIDE DEF t, h
<1>6. DocumentsTyped' /\ SameMirror
  BY <1>2, DocumentsStay DEF WholeInv
<1>7. indexExcuse' \in BOOLEAN /\ (indexExcuse => indexExcuse')
  BY <1>1 DEF WholeInv, ArticleTyped
<1>8. Rests(r, t)
  BY <1>2, <1>3, <1>5, <1>7 DEF Rests
<1>9. CASE d # Mirror
  <2>1. Beside(r, t)
    BY <1>2, <1>5, <1>9, IdleTask DEF Beside
  <2> QED BY <1>6, <1>7, <1>8, <2>1, BesideKeeps
<1>10. CASE d = Mirror /\ indexExcuse'
  BY <1>2, <1>6, <1>8, <1>10, ExcusedKeeps
<1>11. CASE d = Mirror /\ ~indexExcuse'
  <2>1. ArticleTyped' /\ TasksTyped' /\ HistoryKept' /\ Went(r, t)
    BY <1>8, RestKeeps
  <2>2. /\ \A q \in Requests \ {r} : AtPc(q)' = AtPc(q) /\ Holds(q)' = Holds(q) /\ indexing'[q] = indexing[q]
        /\ AtPc(r)' = "mark" /\ indexing'[r].hand = doc[Mirror].text
    BY <1>4, <1>5, <1>11, <2>1, OthersStay
  <2>3. /\ ~indexExcuse /\ article.state = "published"
        /\ \A q \in Requests : AtPc(q) \notin {"index", "upsert"}
    <3>1. ~indexExcuse /\ article.state = "published" /\ ~K!Others(r, K!Removing \cup {"save", "index", "upsert"})
      BY <1>1, <1>11
    <3> QED BY <1>2, <3>1 DEF K!Others, AtPc
  <2>4. PublishedIsIn /\ \A q \in Requests : ~(indexing[q].doc = Mirror /\ AtPc(q) \in {"removeRow", "row"})
    BY <2>3 DEF WholeInv, IndexKept
  <2>5. doc[Mirror].text = article.text
    BY <1>1, <1>11, <2>3, <2>4 DEF PublishedIsIn
  <2>6. \A q \in Requests : /\ Holds(q)' => indexing'[q].hand = article'.text
                            /\ AtPc(q)' \notin {"find", "remove", "skip"}
                            /\ Holds(q)' /\ AtPc(q)' = "write" => doc'[Mirror].exists
    BY <1>2, <2>2, <2>4, <2>5 DEF PublishedIsIn
  <2>7. \/ doc'[Mirror].chunks = article'.text
        \/ \E q \in Requests : AtPc(q)' \in {"index", "upsert", "delete"} \/ (Holds(q)' /\ AtPc(q)' = "write")
    BY <1>2, <2>2, <2>4 DEF PublishedIsIn
  <2>8. PublishedIsIn'
    BY <1>2, <2>5, <2>6, <2>7 DEF PublishedIsIn
  <2>9. \A q \in Requests : ~(indexing'[q].doc = Mirror /\ AtPc(q)' \in {"removeRow", "row"})
    BY <2>2, <2>4
  <2>10. IndexKept'
    BY <1>2, <2>3, <2>8, <2>9 DEF IndexKept
  <2> QED BY <1>6, <2>1, <2>10 DEF WholeInv
<1> QED BY <1>9, <1>10, <1>11

LEMMA MarksKeep ==
  ASSUME WholeInv, NEW r \in Requests, K!Marks(r)
  PROVE  WholeInv'
<1> DEFINE n == indexing[r]
           p == IF n.pc = "mark" THEN "parse" ELSE "write"
           t == [n EXCEPT !.pc = p]
<1>1. AtPc(r) \in {"mark", "parse"} /\ n.pc = AtPc(r) /\ UNCHANGED <<article, history, indexExcuse>>
  BY DEF K!Marks, AtPc, K!Artless
<1>2. IsIndexing(n) /\ n.doc \in K!Documents /\ (n.doc = Mirror => n.hand \in Text /\ Holds(r))
  BY <1>1 DEF WholeInv, TasksTyped, IsIndexing, AtPc, Holds
<1>3. AtPc(r) \notin TakesAway \cup {"index", "upsert", "write"}
  BY <1>1 DEF TakesAway
<1>4. CASE ~doc[n.doc].exists
  <2>1. K!Ends(r) /\ UNCHANGED doc
    BY <1>4 DEF K!Marks
  <2>2. DocumentsTyped' /\ SameMirror
    BY <2>1, DocumentsStay DEF WholeInv
  <2> QED BY <1>1, <1>3, <2>1, <2>2, EndsKeep
<1>5. CASE doc[n.doc].exists
  <2>1. /\ K!Goes(r, t)
        /\ n.pc = "mark" => doc' = [doc EXCEPT ![n.doc].status = "processing"]
        /\ n.pc = "parse" => doc' = [doc EXCEPT ![n.doc].text = n.hand, ![n.doc].hash = <<"text", n.hand>>]
    <3>1. K!Goes(r, [n EXCEPT !.pc = IF @ = "mark" THEN "parse" ELSE "write"])
      BY <1>5 DEF K!Marks
    <3>2. [n EXCEPT !.pc = IF @ = "mark" THEN "parse" ELSE "write"] = t
      BY <1>2 DEF IsIndexing
    <3>3. /\ n.pc = "mark" => doc' = [doc EXCEPT ![n.doc].status = "processing"]
          /\ n.pc = "parse" => doc' = [doc EXCEPT ![n.doc].text = n.hand, ![n.doc].hash = <<"text", n.hand>>]
      BY <1>5 DEF K!Marks, K!At
    <3> QED BY <3>1, <3>2, <3>3
  <2>2. p \in {"parse", "write"} /\ (p = "write" => n.pc = "parse")
    BY <1>1
  <2>3. t = [pc |-> p, doc |-> n.doc, before |-> n.before, hand |-> n.hand]
    <3> HIDE DEF p
    <3> QED BY <1>2, TaskBut DEF IsIndexing
  <2> HIDE DEF p
  <2>4. IsIndexing(t) /\ t.pc = p /\ t.doc = n.doc /\ t.hand = n.hand
    <3> HIDE DEF t, n
    <3> QED BY <1>2, <2>2, <2>3 DEF IsIndexing, IndexPcs
  <2> HIDE DEF t
  <2>5. Rests(r, t)
    BY <1>1, <2>1, <2>2, <2>4 DEF Rests, WholeInv, ArticleTyped
  <2>6. ArticleTyped' /\ TasksTyped' /\ HistoryKept' /\ Went(r, t)
    BY <2>5, RestKeeps
  <2>7. /\ DocumentsTyped' /\ (n.doc # Mirror => SameMirror)
        /\ n.doc = Mirror => /\ doc'[Mirror].exists /\ doc'[Mirror].chunks = doc[Mirror].chunks
                             /\ doc'[Mirror].text \in {doc[Mirror].text, n.hand}
    <3>1. CASE n.pc = "mark"
      BY <1>2, <1>5, <2>1, <3>1, StatusWritten DEF WholeInv, SameMirror
    <3>2. CASE n.pc = "parse"
      <4> DEFINE d == n.doc
                 v == n.hand
                 w == <<"text", v>>
      <4>1. doc' = [doc EXCEPT ![d].text = v, ![d].hash = w]
        BY <2>1, <3>2
      <4>2. DocumentsTyped /\ d \in K!Documents /\ doc[d].exists /\ (d = Mirror => v \in Text)
        BY <1>2, <1>5 DEF WholeInv
      <4> HIDE DEF d, v, w
      <4>3. /\ DocumentsTyped' /\ (d # Mirror => SameMirror)
            /\ doc'[d].exists /\ doc'[d].text = v /\ doc'[d].chunks = doc[d].chunks
        BY <4>1, <4>2, TextWritten
      <4> QED BY <4>3 DEF d, v
    <3> QED BY <1>1, <3>1, <3>2
  <2>8. CASE n.doc # Mirror
    <3>1. Beside(r, t)
      BY <1>3, <2>2, <2>4, <2>8 DEF Beside
    <3> QED BY <1>1, <2>5, <2>7, <2>8, <3>1, BesideKeeps
  <2>9. CASE n.doc = Mirror
    <3>1. /\ \A q \in Requests \ {r} : AtPc(q)' = AtPc(q) /\ Holds(q)' = Holds(q) /\ indexing'[q] = indexing[q]
          /\ AtPc(r)' = p /\ indexing'[r].hand = n.hand
      BY <2>4, <2>6, OthersStay
    <3>2. ASSUME ~indexExcuse
          PROVE  /\ \A q \in Requests : ~(indexing'[q].doc = Mirror /\ AtPc(q)' \in {"removeRow", "row"})
                 /\ article.state # "draft"
                 /\ article.state = "published" => PublishedIsIn'
      <4>1. /\ \A q \in Requests : ~(indexing[q].doc = Mirror /\ AtPc(q) \in {"removeRow", "row"})
            /\ article.state = "draft" => DraftIsOut
            /\ article.state = "published" => PublishedIsIn
        BY <3>2 DEF WholeInv, IndexKept
      <4>2. article.state # "draft"
        BY <1>2, <2>9, <4>1 DEF DraftIsOut
      <4>3. \A q \in Requests : ~(indexing'[q].doc = Mirror /\ AtPc(q)' \in {"removeRow", "row"})
        BY <2>2, <3>1, <4>1
      <4>4. ASSUME article.state = "published" PROVE PublishedIsIn'
        <5>1. PublishedIsIn /\ article' = article /\ n.hand = article.text
          BY <1>1, <1>2, <2>9, <4>1, <4>4 DEF PublishedIsIn
        <5>2. \A q \in Requests : /\ Holds(q)' => indexing'[q].hand = article'.text
                                  /\ AtPc(q)' \notin {"find", "remove", "skip"}
                                  /\ Holds(q)' /\ AtPc(q)' = "write" => doc'[Mirror].exists
          BY <2>2, <2>7, <2>9, <3>1, <5>1 DEF PublishedIsIn
        <5>3. \A q \in Requests : AtPc(q) \in {"index", "upsert", "delete", "write"} =>
                AtPc(q)' = AtPc(q) /\ Holds(q)' = Holds(q)
          BY <1>1, <3>1
        <5>4. \/ doc'[Mirror].exists => doc'[Mirror].text = article'.text
              \/ \E q \in Requests : AtPc(q)' \in {"index", "upsert"}
          BY <1>5, <2>7, <2>9, <5>1, <5>3 DEF PublishedIsIn
        <5>5. \/ doc'[Mirror].chunks = article'.text
              \/ \E q \in Requests : AtPc(q)' \in {"index", "upsert", "delete"} \/ (Holds(q)' /\ AtPc(q)' = "write")
          BY <2>7, <2>9, <5>1, <5>3 DEF PublishedIsIn
        <5> QED BY <5>2, <5>4, <5>5 DEF PublishedIsIn
      <4> QED BY <4>2, <4>3, <4>4
    <3>3. article'.state = "gone" => ~doc'[Mirror].exists
      BY <1>1, <1>5, <2>9 DEF WholeInv, IndexKept
    <3>4. IndexKept'
      BY <1>1, <3>2, <3>3 DEF IndexKept
    <3> QED BY <2>6, <2>7, <3>4 DEF WholeInv
  <2> QED BY <2>8, <2>9
<1> QED BY <1>4, <1>5

LEMMA WritesKeep ==
  ASSUME WholeInv, NEW r \in Requests, K!Writes(r)
  PROVE  WholeInv'
<1> DEFINE n == indexing[r]
<1>1. AtPc(r) = "write" /\ n.pc = "write" /\ UNCHANGED <<article, history, indexExcuse>> /\ K!Goes(r, K!NoTask)
  BY DEF K!Writes, K!At, AtPc, K!Artless, K!Ends
<1>2. IsIndexing(n) /\ n.doc \in K!Documents /\ (n.doc = Mirror => n.hand \in Text /\ Holds(r))
  BY <1>1 DEF WholeInv, TasksTyped, IsIndexing, AtPc, Holds
<1>3. doc' = IF doc[n.doc].exists THEN [doc EXCEPT ![n.doc].chunks = n.hand, ![n.doc].status = "indexed"] ELSE doc
  BY DEF K!Writes
<1>4. /\ DocumentsTyped' /\ (n.doc # Mirror => SameMirror)
      /\ n.doc = Mirror => /\ doc'[Mirror].exists = doc[Mirror].exists /\ doc'[Mirror].text = doc[Mirror].text
                           /\ doc[Mirror].exists => doc'[Mirror].chunks = n.hand
  <2>1. CASE doc[n.doc].exists
    BY <1>2, <1>3, <2>1, ChunksWritten DEF WholeInv
  <2>2. CASE ~doc[n.doc].exists
    BY <1>3, <2>2, DocumentsStay DEF WholeInv
  <2> QED BY <2>1, <2>2
<1>5. CASE n.doc # Mirror
  <2>1. AtPc(r) \notin TakesAway \cup {"index", "upsert"} /\ ~Holds(r)
    BY <1>1, <1>5 DEF TakesAway, Holds
  <2> QED BY <1>1, <1>4, <1>5, <2>1, EndsKeep DEF K!Ends
<1>6. CASE n.doc = Mirror
  <2>1. Rests(r, K!NoTask)
    BY <1>1, NoTaskEnds DEF Rests, WholeInv, ArticleTyped
  <2>2. ArticleTyped' /\ TasksTyped' /\ HistoryKept' /\ Went(r, K!NoTask)
    BY <2>1, RestKeeps
  <2>3. /\ \A q \in Requests \ {r} : AtPc(q)' = AtPc(q) /\ Holds(q)' = Holds(q) /\ indexing'[q] = indexing[q]
        /\ AtPc(r)' = "idle" /\ ~Holds(r)'
    BY <2>2, NoTaskEnds, OthersStay
  <2>4. ASSUME ~indexExcuse
        PROVE  /\ \A q \in Requests : ~(indexing'[q].doc = Mirror /\ AtPc(q)' \in {"removeRow", "row"})
               /\ article.state # "draft"
               /\ article.state = "published" => PublishedIsIn'
    <3>1. /\ \A q \in Requests : ~(indexing[q].doc = Mirror /\ AtPc(q) \in {"removeRow", "row"})
          /\ article.state = "draft" => DraftIsOut
          /\ article.state = "published" => PublishedIsIn
      BY <2>4 DEF WholeInv, IndexKept
    <3>2. article.state # "draft"
      BY <1>2, <1>6, <3>1 DEF DraftIsOut
    <3>3. \A q \in Requests : ~(indexing'[q].doc = Mirror /\ AtPc(q)' \in {"removeRow", "row"})
      BY <2>3, <3>1
    <3>4. ASSUME article.state = "published" PROVE PublishedIsIn'
      <4>1. PublishedIsIn /\ article' = article /\ n.hand = article.text /\ doc[Mirror].exists
        BY <1>1, <1>2, <1>6, <3>1, <3>4 DEF PublishedIsIn
      <4>2. doc'[Mirror].chunks = article'.text
        BY <1>4, <1>6, <4>1
      <4>3. \A q \in Requests : /\ Holds(q)' => indexing'[q].hand = article'.text
                                /\ AtPc(q)' \notin {"find", "remove", "skip"}
                                /\ Holds(q)' /\ AtPc(q)' = "write" => doc'[Mirror].exists
        BY <1>4, <1>6, <2>3, <4>1 DEF PublishedIsIn
      <4>4. \A q \in Requests : AtPc(q) \in {"index", "upsert"} => AtPc(q)' = AtPc(q)
        BY <1>1, <2>3
      <4>5. \/ doc'[Mirror].exists => doc'[Mirror].text = article'.text
            \/ \E q \in Requests : AtPc(q)' \in {"index", "upsert"}
        BY <1>4, <1>6, <4>1, <4>4 DEF PublishedIsIn
      <4> QED BY <4>2, <4>3, <4>5 DEF PublishedIsIn
    <3> QED BY <3>2, <3>3, <3>4
  <2>5. article'.state = "gone" => ~doc'[Mirror].exists
    BY <1>1, <1>4, <1>6 DEF WholeInv, IndexKept
  <2>6. IndexKept'
    BY <1>1, <2>4, <2>5 DEF IndexKept
  <2> QED BY <1>4, <2>2, <2>6 DEF WholeInv
<1> QED BY <1>5, <1>6

LEMMA FailsKeep ==
  ASSUME WholeInv, NEW r \in Requests, K!Fails(r) \/ K!Stops(r)
  PROVE  WholeInv'
<1>1. UNCHANGED <<article, history>> /\ indexExcuse' = TRUE /\ K!Goes(r, K!NoTask)
  BY DEF K!Fails, K!Stops, K!Excuses, K!Ends, K!Artless
<1>2. Rests(r, K!NoTask)
  BY <1>1, NoTaskEnds DEF Rests
<1>3. DocumentsTyped' /\ SameMirror
  <2>1. CASE UNCHANGED doc
    BY <2>1, DocumentsStay DEF WholeInv
  <2>2. CASE doc' # doc
    <3>1. K!Fails(r) /\ doc' = [doc EXCEPT ![indexing[r].doc].status = "failed"]
          /\ indexing[r].pc \in {"parse", "write"}
      BY <2>2 DEF K!Fails, K!Stops
    <3>2. indexing[r].doc \in K!Documents
      BY <3>1 DEF WholeInv, TasksTyped, IsIndexing
    <3> QED BY <3>1, <3>2, StatusWritten DEF WholeInv
  <2> QED BY <2>1, <2>2
<1> QED BY <1>1, <1>2, <1>3, ExcusedKeeps DEF SameMirror

LEMMA DeletesDocumentKeep ==
  ASSUME WholeInv, NEW r \in Requests, K!DeletesDocument(r)
  PROVE  WholeInv'
<1>1. CASE /\ \E d \in K!Documents :
                /\ K!Begins(r) /\ doc[d].exists
                /\ K!Goes(r, [K!NoTask EXCEPT !.pc = "removeRow", !.doc = d])
                /\ K!Excuses(d = Mirror)
           /\ UNCHANGED <<doc, queued>> /\ K!Artless
  <2>1. PICK d \in K!Documents :
          /\ AtPc(r) = "idle"
          /\ K!Goes(r, [K!NoTask EXCEPT !.pc = "removeRow", !.doc = d])
          /\ indexExcuse' = (indexExcuse \/ (d = Mirror))
    BY <1>1 DEF K!Begins, K!At, AtPc, K!Excuses
  <2> DEFINE t == [K!NoTask EXCEPT !.pc = "removeRow", !.doc = d]
  <2>2. IsIndexing(t) /\ t.pc = "removeRow" /\ t.doc = d
    <3>1. t = [pc |-> "removeRow", doc |-> d, before |-> None, hand |-> None]
      BY NoTaskFilled
    <3> HIDE DEF t
    <3> QED BY <3>1 DEF IsIndexing, IndexPcs
  <2> HIDE DEF t
  <2>3. UNCHANGED <<article, history, doc>>
    BY <1>1 DEF K!Artless
  <2>4. indexExcuse' \in BOOLEAN /\ (indexExcuse => indexExcuse')
    BY <2>1 DEF WholeInv, ArticleTyped
  <2>5. Rests(r, t)
    BY <2>1, <2>2, <2>3, <2>4 DEF Rests, t
  <2>6. DocumentsTyped' /\ SameMirror
    BY <2>3, DocumentsStay DEF WholeInv
  <2>7. CASE d = Mirror
    BY <2>1, <2>3, <2>5, <2>6, <2>7, ExcusedKeeps
  <2>8. CASE d # Mirror
    <3>1. Beside(r, t)
      BY <2>1, <2>2, <2>8, IdleTask DEF Beside
    <3> QED BY <2>4, <2>5, <2>6, <3>1, BesideKeeps
  <2> QED BY <2>7, <2>8
<1>2. CASE /\ K!At(r, "row")
           /\ doc' = [doc EXCEPT ![indexing[r].doc] = K!NoDocument] /\ K!Ends(r)
           /\ uploads' = uploads \ {indexing[r].doc}
           /\ UNCHANGED <<article, history, edits, indexAsked, indexExcuse, queued>>
  <2>1. AtPc(r) = "row" /\ K!Goes(r, K!NoTask)
    BY <1>2 DEF K!At, AtPc, K!Ends
  <2>2. indexing[r].doc \in K!Documents
    BY <2>1 DEF WholeInv, TasksTyped, IsIndexing, AtPc
  <2>3. /\ DocumentsTyped' /\ (indexing[r].doc # Mirror => SameMirror)
        /\ indexing[r].doc = Mirror => ~doc'[Mirror].exists
    BY <1>2, <2>2, RowWritten DEF WholeInv
  <2>4. CASE indexing[r].doc # Mirror
    <3>1. AtPc(r) \notin TakesAway \cup {"index", "upsert"} /\ ~Holds(r)
      BY <2>1 DEF TakesAway, Holds
    <3> QED BY <1>2, <2>3, <2>4, <3>1, EndsKeep
  <2>5. CASE indexing[r].doc = Mirror
    <3>1. indexExcuse' /\ indexExcuse' \in BOOLEAN
      BY <1>2, <2>1, <2>5 DEF WholeInv, IndexKept, ArticleTyped
    <3>2. Rests(r, K!NoTask)
      BY <1>2, <2>1, <3>1, NoTaskEnds DEF Rests
    <3> QED BY <2>3, <2>5, <3>1, <3>2, ExcusedKeeps
  <2> QED BY <2>4, <2>5
<1> QED BY <1>1, <1>2 DEF K!DeletesDocument

LEMMA WholeStarts ==
  ASSUME K!Init PROVE WholeInv
<1>1. /\ article = [state |-> "draft", version |-> 1, text |-> 1] /\ history = {} /\ indexExcuse = FALSE
      /\ doc = [d \in K!Documents |-> K!NoDocument] /\ indexing = [r \in Requests |-> K!NoTask]
  BY DEF K!Init
<1>2. ArticleTyped
  <2>1. IsFiniteSet({}) /\ 1 \in Text
    BY FS_EmptySet DEF Text
  <2> QED BY <1>1, <2>1 DEF ArticleTyped
<1>3. Mirror \in K!Documents
  BY DEF K!Documents
<1>4. IsDocument(K!NoDocument) /\ ~K!NoDocument.exists /\ K!NoDocument.chunks = None
  BY DEF IsDocument, K!NoDocument
<1>5. DocumentsTyped /\ ~doc[Mirror].exists /\ doc[Mirror].chunks = None
  BY <1>1, <1>3, <1>4 DEF DocumentsTyped
<1>6. \A r \in Requests : AtPc(r) = "idle" /\ ~Holds(r)
  BY <1>1, NoTaskEnds DEF AtPc, Holds
<1>7. TasksTyped
  BY <1>1, NoTaskEnds DEF TasksTyped
<1>8. HistoryKept
  BY <1>1, <1>6 DEF HistoryKept
<1>9. IndexKept
  BY <1>1, <1>5, <1>6 DEF IndexKept, DraftIsOut
<1> QED BY <1>2, <1>5, <1>7, <1>8, <1>9 DEF WholeInv

LEMMA WholeSteps ==
  ASSUME WholeInv, K!Next \/ UNCHANGED indexVars
  PROVE  WholeInv'
<1>1. CASE K!Next
  <2>1. PICK r \in Requests :
          \/ K!Edits(r) \/ K!Saves(r) \/ K!Publishes(r) \/ K!Unpublishes(r) \/ K!IndexReads(r) \/ K!IndexUpserts(r)
          \/ K!Finds(r) \/ K!Removes(r) \/ K!Skips(r) \/ K!Deletes(r)
          \/ K!UploadChecks(r) \/ K!UploadCreates(r) \/ K!UploadQueues(r)
          \/ K!Processes(r) \/ K!Marks(r) \/ K!Writes(r) \/ K!Fails(r) \/ K!Stops(r) \/ K!DeletesDocument(r)
    BY <1>1 DEF K!Next
  <2> QED BY Zenon, <2>1, EditsKeep, SavesKeep, PublishesKeep, UnpublishesKeep, IndexReadsKeep, IndexUpsertsKeep,
             FindsKeep, RemovesKeep, SkipsKeep, DeletesKeep, UploadsKeep, ProcessesKeep, MarksKeep, WritesKeep,
             FailsKeep, DeletesDocumentKeep
<1>2. CASE UNCHANGED indexVars
  BY <1>2, NobodyMovesKeeps DEF indexVars
<1> QED BY <1>1, <1>2

LEMMA WholeIsWhole ==
  ASSUME WholeInv PROVE KnowledgeIsWhole
<1>1. K!HistoryIsWhole
  BY DEF WholeInv, HistoryKept, K!HistoryIsWhole, K!Here
<1>2. ASSUME \A r \in Requests : indexing[r] = K!NoTask, ~indexExcuse
      PROVE  doc[Mirror].chunks = IF article.state = "published" THEN article.text ELSE None
  <2>1. \A r \in Requests : AtPc(r) = "idle" /\ ~Holds(r)
    BY <1>2, NoTaskEnds DEF AtPc, Holds
  <2>2. CASE article.state = "gone"
    BY <2>2 DEF WholeInv, IndexKept, DocumentsTyped, IsDocument, K!Documents
  <2>3. CASE article.state = "draft"
    BY <1>2, <2>1, <2>3 DEF WholeInv, IndexKept, DraftIsOut, TakesAway
  <2>4. CASE article.state = "published"
    BY <1>2, <2>1, <2>4 DEF WholeInv, IndexKept, PublishedIsIn
  <2> QED BY <2>2, <2>3, <2>4 DEF WholeInv, ArticleTyped
<1>3. K!IndexFollows
  BY <1>2 DEF K!IndexFollows
<1> QED BY <1>1, <1>3 DEF KnowledgeIsWhole

\* For any number of requests, uploads and jobs, whenever nothing runs and nothing is excused
\* retrieval finds the text that is published and nothing of a draft, and every earlier version
\* of an article that is there is kept once (knowledge.service.ts:258-359).
THEOREM KnowledgeIsWholeTheorem == AllSpec => []KnowledgeIsWhole
<1>1. AllInit => WholeInv
  BY StartsEveryPart, WholeStarts
<1>2. WholeInv /\ [AllNext]_AllVars => WholeInv'
  BY StepsOnePart, WholeSteps
<1> QED BY <1>1, <1>2, WholeIsWhole, PTL DEF AllSpec

-----------------------------------------------------------------------------
(* What an agent sends. Screening an answer is a recursive function over the    *)
(* rules; what it has found after so many of them is shown by induction.        *)

\* One rule of the output stage, as checkOutput applies it.
Finds(p, grounded, w, r) ==
  \/ r.check = "pii" /\ T!MasksPii(p) /\ T!detectPii(w.text)
  \/ r.check = "content_policy" /\ T!detectContentPolicy(w.text)
  \/ r.check = "groundedness" /\ ~grounded
Treats(p, w, r) ==
  CASE r.check = "pii" -> T!Masks(w, r)
    [] r.check = "content_policy" -> T!apply(w, r.action)
    [] OTHER -> T!apply(w, IF T!groundednessMode(p) = "block" THEN "block" ELSE "flag")
Screens(p, grounded, v, r) ==
  IF v.over \/ r.stage # "output" \/ ~Finds(p, grounded, v.verdict, r) THEN v
  ELSE [verdict |-> Treats(p, v.verdict, r),
        over |-> Treats(p, v.verdict, r).blocked /\ r.check \in {"content_policy", "groundedness"}]
\* A screening of a text by the first k rules.
IsScreening(f, k, text, p, grounded) ==
  f = [j \in 0 .. k |-> IF j = 0 THEN [verdict |-> T!Allow(text), over |-> FALSE]
                        ELSE Screens(p, grounded, f[j - 1], T!rulesFor(p, "output")[j])]
Policied(p) == p \in Guardrails \cup {None}

\* An answer of the agent carries nothing its policy masks or refuses.
Screened(a) ==
  a.by = "agent" =>
    /\ T!detectPii(a.text) => ~(T!MasksPii(a.under) /\ T!Has(a.under, "pii", T!Actions))
    /\ T!detectContentPolicy(a.text) => ~T!Has(a.under, "content_policy", {"block", "handoff"})
ScreenInv ==
  /\ Policied(guards) /\ Policied(saving)
  /\ answers = [t \in Requests |-> answers[t]] /\ \A t \in Requests : answers[t] # None => Screened(answers[t])
  /\ Screened(sent)

LEMMA RulesAreListed ==
  ASSUME NEW p, Policied(p)
  PROVE  Len(T!rulesFor(p, "output")) \in Nat /\ DOMAIN T!rulesFor(p, "output") = 1 .. Len(T!rulesFor(p, "output"))
<1>1. Len(T!DEFAULT_RULES) \in Nat /\ DOMAIN T!DEFAULT_RULES = 1 .. Len(T!DEFAULT_RULES)
  <2> DEFINE a == T!Rule("input", "prompt_injection", "handoff")
             b == T!Rule("input", "max_length", "block")
             c == T!Rule("output", "pii", "mask")
             d == T!Rule("output", "content_policy", "block")
  <2>1. T!DEFAULT_RULES = <<a, b, c, d>>
    BY DEF T!DEFAULT_RULES
  <2> HIDE DEF a, b, c, d
  <2> QED BY <2>1
<1>2. ASSUME p \in Guardrails PROVE Len(p.rules) \in Nat /\ DOMAIN p.rules = 1 .. Len(p.rules)
  <2> DEFINE S == {p.rules[i] : i \in DOMAIN p.rules}
  <2>1. p.rules \in Seq(S)
    BY <1>2, RulesAreLists
  <2> HIDE DEF S
  <2> QED BY <2>1
<1> QED BY <1>1, <1>2 DEF T!rulesFor, Policied

LEMMA ScreeningsExist ==
  ASSUME NEW n \in Nat, NEW text, NEW p, NEW grounded
  PROVE  \E f : IsScreening(f, n, text, p, grounded)
<1> DEFINE start == [verdict |-> T!Allow(text), over |-> FALSE]
           Onto(v, j) == Screens(p, grounded, v, T!rulesFor(p, "output")[j])
           S == {k \in Nat : \E f : f = [j \in 0 .. k |-> IF j = 0 THEN start ELSE Onto(f[j - 1], j)]}
<1> HIDE DEF start, Onto
<1>1. 0 \in S
  <2> DEFINE f == [j \in 0 .. 0 |-> start]
  <2>1. f = [j \in 0 .. 0 |-> IF j = 0 THEN start ELSE Onto(f[j - 1], j)]
    OBVIOUS
  <2> QED BY <2>1
<1>2. ASSUME NEW k \in Nat, k \in S PROVE k + 1 \in S
  <2>1. PICK f : f = [j \in 0 .. k |-> IF j = 0 THEN start ELSE Onto(f[j - 1], j)]
    BY <1>2
  <2> DEFINE g == [j \in 0 .. k + 1 |-> IF j = k + 1 THEN Onto(f[k], k + 1) ELSE f[j]]
  <2>2. \A j \in 0 .. k : f[j] = IF j = 0 THEN start ELSE Onto(f[j - 1], j)
    BY <2>1, Zenon
  <2>3. ASSUME NEW j \in 0 .. k + 1 PROVE g[j] = IF j = 0 THEN start ELSE Onto(g[j - 1], j)
    <3>1. CASE j = k + 1
      <4>1. j # 0 /\ j - 1 = k /\ k \in 0 .. k + 1 /\ k # k + 1
        BY <3>1
      <4> QED BY <3>1, <4>1
    <3>2. CASE j # k + 1 /\ j # 0
      <4>1. j \in 0 .. k /\ j - 1 \in 0 .. k + 1 /\ j - 1 # k + 1
        BY <3>2
      <4> QED BY <2>2, <3>2, <4>1
    <3>3. CASE j = 0
      <4>1. 0 # k + 1 /\ 0 \in 0 .. k
        OBVIOUS
      <4> QED BY <2>2, <3>3, <4>1
    <3> QED BY <3>1, <3>2, <3>3
  <2>4. g = [j \in 0 .. k + 1 |-> IF j = 0 THEN start ELSE Onto(g[j - 1], j)]
    <3> HIDE DEF g
    <3>1. g = [j \in 0 .. k + 1 |-> g[j]]
      BY DEF g
    <3> QED BY <2>3, <3>1
  <2>5. k + 1 \in Nat
    OBVIOUS
  <2> QED BY <2>4, <2>5
<1> HIDE DEF S
<1>3. n \in S
  BY <1>1, <1>2, SetInduction
<1> QED BY <1>3 DEF S, IsScreening, start, Onto

\* What has been found after k rules: a text that is neither refused nor handed off carries
\* nothing that a rule so far masks or refuses.
Clears(p, k, s) ==
  LET v == s.verdict
      Rules == {T!rulesFor(p, "output")[i] : i \in 1 .. k} IN
  /\ v \in [text : {v.text}, blocked : BOOLEAN, handoff : BOOLEAN]
  /\ s.over => v.blocked
  /\ ~v.blocked /\ "pii" \in v.text =>
       \A r \in Rules : r.stage = "output" /\ r.check = "pii" => ~T!MasksPii(p)
  /\ ~v.blocked /\ ~v.handoff /\ "breach" \in v.text =>
       \A r \in Rules : r.stage = "output" /\ r.check = "content_policy" => r.action \notin {"block", "handoff"}

LEMMA Applied ==
  ASSUME NEW v, v \in [text : {v.text}, blocked : BOOLEAN, handoff : BOOLEAN], NEW action
  PROVE  LET w == T!apply(v, action) IN
         /\ w \in [text : {v.text}, blocked : BOOLEAN, handoff : BOOLEAN]
         /\ w.blocked <=> v.blocked \/ action = "block"
         /\ w.handoff <=> v.handoff \/ action = "handoff"
BY DEF T!apply

LEMMA Masked ==
  ASSUME NEW v, v \in [text : {v.text}, blocked : BOOLEAN, handoff : BOOLEAN], NEW r
  PROVE  LET w == T!Masks(v, r) IN
         /\ w \in [text : {v.text \ {"pii"}}, blocked : BOOLEAN, handoff : BOOLEAN]
         /\ w.blocked <=> v.blocked \/ r.action = "block"
         /\ w.handoff <=> v.handoff \/ r.action = "handoff"
<1> DEFINE m == [v EXCEPT !.text = T!maskPii(@)]
<1>1. /\ m \in [text : {v.text \ {"pii"}}, blocked : BOOLEAN, handoff : BOOLEAN]
      /\ m.blocked = v.blocked /\ m.handoff = v.handoff /\ m.text = v.text \ {"pii"}
  BY DEF T!maskPii
<1>2. T!Masks(v, r) = T!apply(m, r.action)
  BY DEF T!Masks
<1> HIDE DEF m
<1> QED BY <1>1, <1>2, Applied

LEMMA ScreensOn ==
  ASSUME NEW p, NEW grounded, NEW k \in Nat, NEW s, Clears(p, k, s)
  PROVE  Clears(p, k + 1, Screens(p, grounded, s, T!rulesFor(p, "output")[k + 1]))
<1> DEFINE r == T!rulesFor(p, "output")[k + 1]
           v == s.verdict
           w == Treats(p, v, r)
           Before == {T!rulesFor(p, "output")[i] : i \in 1 .. k}
           t == Screens(p, grounded, s, r)
<1>0. {T!rulesFor(p, "output")[i] : i \in 1 .. k + 1} = Before \cup {r}
  <2>1. 1 .. k + 1 = (1 .. k) \cup {k + 1}
    OBVIOUS
  <2> QED BY <2>1
<1>1. /\ v \in [text : {v.text}, blocked : BOOLEAN, handoff : BOOLEAN]
      /\ s.over => v.blocked
      /\ ~v.blocked /\ "pii" \in v.text =>
           \A q \in Before : q.stage = "output" /\ q.check = "pii" => ~T!MasksPii(p)
      /\ ~v.blocked /\ ~v.handoff /\ "breach" \in v.text =>
           \A q \in Before : q.stage = "output" /\ q.check = "content_policy" => q.action \notin {"block", "handoff"}
  BY DEF Clears
<1> HIDE DEF r, v, Before
<1>2. CASE s.over \/ r.stage # "output" \/ ~Finds(p, grounded, v, r)
  <2>1. t = s
    BY <1>2 DEF Screens, v
  <2>2. ~v.blocked /\ "pii" \in v.text => ~(r.stage = "output" /\ r.check = "pii" /\ T!MasksPii(p))
    BY <1>1, <1>2 DEF Finds, T!detectPii
  <2>3. ~v.blocked /\ "breach" \in v.text => ~(r.stage = "output" /\ r.check = "content_policy")
    BY <1>1, <1>2 DEF Finds, T!detectContentPolicy
  <2>4. Clears(p, k + 1, s)
    BY <1>0, <1>1, <2>2, <2>3 DEF Clears, v, Before
  <2> HIDE DEF t
  <2>5. Clears(p, k + 1, t)
    BY <2>1, <2>4
  <2> QED BY <2>5 DEF t, r
<1>3. CASE ~(s.over \/ r.stage # "output" \/ ~Finds(p, grounded, v, r))
  <2>1. t = [verdict |-> w, over |-> w.blocked /\ r.check \in {"content_policy", "groundedness"}]
    BY <1>3 DEF Screens, v
  <2>2. /\ w \in [text : {w.text}, blocked : BOOLEAN, handoff : BOOLEAN]
        /\ v.blocked => w.blocked
        /\ v.handoff => w.handoff
        /\ w.text \in {v.text, v.text \ {"pii"}}
        /\ r.check = "pii" => "pii" \notin w.text
        /\ r.check = "content_policy" /\ r.action \in {"block", "handoff"} => w.blocked \/ w.handoff
    <3>1. CASE r.check = "pii"
      <4>1. w = T!Masks(v, r)
        BY <3>1 DEF Treats
      <4> HIDE DEF w
      <4>2. /\ w \in [text : {v.text \ {"pii"}}, blocked : BOOLEAN, handoff : BOOLEAN]
            /\ w.blocked <=> v.blocked \/ r.action = "block"
            /\ w.handoff <=> v.handoff \/ r.action = "handoff"
        BY <1>1, <4>1, Masked
      <4>3. w.text = v.text \ {"pii"} /\ w \in [text : {w.text}, blocked : BOOLEAN, handoff : BOOLEAN]
        BY <4>2
      <4>4. "pii" \notin w.text
        BY <4>3
      <4> QED BY <3>1, <4>2, <4>3, <4>4
    <3>2. CASE r.check = "content_policy"
      <4>1. w = T!apply(v, r.action)
        BY <3>2 DEF Treats
      <4> HIDE DEF w
      <4> QED BY <1>1, <3>2, <4>1, Applied
    <3>3. CASE r.check \notin {"pii", "content_policy"}
      <4> DEFINE a == IF T!groundednessMode(p) = "block" THEN "block" ELSE "flag"
      <4>1. w = T!apply(v, a)
        BY <3>3 DEF Treats
      <4> HIDE DEF w, a
      <4> QED BY <1>1, <3>3, <4>1, Applied
    <3> QED BY <3>1, <3>2, <3>3
  <2> HIDE DEF w
  <2>3. t.verdict = w /\ (t.over => w.blocked)
    <3>1. t.verdict = w /\ t.over = (w.blocked /\ r.check \in {"content_policy", "groundedness"})
      BY <2>1
    <3> HIDE DEF t
    <3> QED BY <3>1
  <2> HIDE DEF t
  <2>4. ~w.blocked /\ "pii" \in w.text =>
          \A q \in Before \cup {r} : q.stage = "output" /\ q.check = "pii" => ~T!MasksPii(p)
    BY <1>1, <2>2
  <2>5. ~w.blocked /\ ~w.handoff /\ "breach" \in w.text =>
          \A q \in Before \cup {r} :
            q.stage = "output" /\ q.check = "content_policy" => q.action \notin {"block", "handoff"}
    BY <1>1, <2>2
  <2>6. Clears(p, k + 1, t)
    BY <1>0, <2>2, <2>3, <2>4, <2>5 DEF Clears
  <2> QED BY <2>6 DEF t, r
<1> QED BY <1>2, <1>3

LEMMA ScreeningClears ==
  ASSUME NEW p, NEW grounded, NEW text, NEW n \in Nat, NEW f, IsScreening(f, n, text, p, grounded)
  PROVE  Clears(p, n, f[n])
<1>1. \A j \in 0 .. n : f[j] = IF j = 0 THEN [verdict |-> T!Allow(text), over |-> FALSE]
                               ELSE Screens(p, grounded, f[j - 1], T!rulesFor(p, "output")[j])
  BY Zenon DEF IsScreening
<1> DEFINE S == {k \in Nat : k <= n => Clears(p, k, f[k])}
<1>2. 0 \in S
  <2> DEFINE s == [verdict |-> T!Allow(text), over |-> FALSE]
  <2>1. f[0] = s
    <3>1. 0 \in 0 .. n
      OBVIOUS
    <3> QED BY <1>1, <3>1, Zenon
  <2>2. s.verdict = T!Allow(text) /\ s.over = FALSE
    OBVIOUS
  <2>3. T!Allow(text) \in [text : {T!Allow(text).text}, blocked : BOOLEAN, handoff : BOOLEAN]
    BY DEF T!Allow
  <2> HIDE DEF s
  <2>4. 1 .. 0 = {}
    OBVIOUS
  <2>5. Clears(p, 0, s)
    BY <2>2, <2>3, <2>4 DEF Clears
  <2> QED BY <2>1, <2>5
<1>3. ASSUME NEW k \in Nat, k \in S PROVE k + 1 \in S
  <2> SUFFICES ASSUME k + 1 <= n PROVE Clears(p, k + 1, f[k + 1])
    OBVIOUS
  <2>1. Clears(p, k, f[k])
    BY <1>3
  <2>2. k + 1 \in 0 .. n /\ k + 1 # 0 /\ (k + 1) - 1 = k
    OBVIOUS
  <2>3. f[k + 1] = Screens(p, grounded, f[k], T!rulesFor(p, "output")[k + 1])
    BY <1>1, <2>2
  <2> QED BY <2>1, <2>3, ScreensOn
<1> HIDE DEF S
<1>4. n \in S
  BY <1>2, <1>3, SetInduction
<1> QED BY <1>4 DEF S

\* An answer that is let through carries nothing that the policy masks or refuses.
LEMMA LetThroughIsScreened ==
  ASSUME NEW p, Policied(p), NEW text, NEW grounded, NEW confident,
         NEW v, v = T!checkOutput(text, p, grounded, confident), ~v.blocked, ~v.handoff
  PROVE  Screened([by |-> "agent", text |-> v.text, under |-> p])
<1> DEFINE n == Len(T!rulesFor(p, "output"))
           f == CHOOSE g : IsScreening(g, n, text, p, grounded)
           u == f[n].verdict
<1>1. v = IF confident THEN u ELSE T!apply(u, "handoff")
  BY DEF T!checkOutput, T!Screen, IsScreening, Screens, Finds, Treats
<1>2. n \in Nat /\ DOMAIN T!rulesFor(p, "output") = 1 .. n
  BY RulesAreListed
<1>3. IsScreening(f, n, text, p, grounded)
  BY <1>2, ScreeningsExist
<1> HIDE DEF f
<1>4. Clears(p, n, f[n])
  BY <1>2, <1>3, ScreeningClears
<1> HIDE DEF n
<1>5. /\ u \in [text : {u.text}, blocked : BOOLEAN, handoff : BOOLEAN]
      /\ ~u.blocked /\ "pii" \in u.text =>
           \A i \in 1 .. n : LET r == T!rulesFor(p, "output")[i] IN
                             r.stage = "output" /\ r.check = "pii" => ~T!MasksPii(p)
      /\ ~u.blocked /\ ~u.handoff /\ "breach" \in u.text =>
           \A i \in 1 .. n : LET r == T!rulesFor(p, "output")[i] IN
             r.stage = "output" /\ r.check = "content_policy" => r.action \notin {"block", "handoff"}
  BY <1>4 DEF Clears
<1> HIDE DEF u
<1>6. v = u
  BY <1>1, <1>5, Applied
<1> DEFINE a == [by |-> "agent", text |-> v.text, under |-> p]
<1>7. a.text = v.text /\ a.under = p
  OBVIOUS
<1> HIDE DEF a
<1>8. Screened(a)
  BY <1>2, <1>5, <1>6, <1>7 DEF Screened, T!Has, T!detectPii, T!detectContentPolicy
<1> QED BY <1>8 DEF a

LEMMA AnswersKeep ==
  ASSUME ScreenInv, NEW t \in Requests, NEW text, NEW g, NEW c, T!Answers(t, text, g, c)
  PROVE  ScreenInv'
<1> DEFINE v == T!checkOutput(text, guards, g, c)
           a == [by |-> "agent", text |-> v.text, under |-> guards]
<1>1. /\ answers' = [answers EXCEPT ![t] = IF v.blocked \/ v.handoff THEN answers[t] ELSE a]
      /\ UNCHANGED <<guards, saving, sent>>
  BY DEF T!Answers, T!OthersStay, T!policyVars
<1>2. ~v.blocked /\ ~v.handoff => Screened(a)
  BY LetThroughIsScreened DEF ScreenInv
<1> HIDE DEF v, a
<1>3. /\ answers' = [q \in Requests |-> answers'[q]] /\ answers'[t] \in {answers[t], a}
      /\ \A q \in Requests \ {t} : answers'[q] = answers[q]
      /\ v.blocked \/ v.handoff => answers'[t] = answers[t]
  BY <1>1 DEF ScreenInv
<1>4. \A q \in Requests : answers'[q] # None => Screened(answers'[q])
  BY <1>2, <1>3 DEF ScreenInv
<1>5. Policied(guards)' /\ Policied(saving)' /\ Screened(sent')
  BY <1>1 DEF ScreenInv, Policied
<1> QED BY <1>3, <1>4, <1>5, Zenon DEF ScreenInv, Screened, T!Has, T!rulesFor, T!MasksPii, T!detectPii,
                                       T!detectContentPolicy, T!Actions, T!DEFAULT_RULES, T!Rule

LEMMA ScreenInit == T!Init => ScreenInv
<1> SUFFICES ASSUME T!Init PROVE ScreenInv
  OBVIOUS
<1>1. /\ guards \in Guardrails \cup {None} /\ saving = None
      /\ answers = [t \in Requests |-> None] /\ sent = T!NoMessage
  BY DEF T!Init
<1>2. sent.by # "agent"
  BY <1>1 DEF T!NoMessage
<1> QED BY <1>1, <1>2 DEF ScreenInv, Policied, Screened

\* Steps that write no answer.
LEMMA PolicyKeeps ==
  ASSUME ScreenInv, UNCHANGED <<answers, sent>>, Policied(guards)', Policied(saving)'
  PROVE  ScreenInv'
<1>1. \A t \in Requests : answers'[t] # None => Screened(answers'[t])
  BY DEF ScreenInv
<1>2. Screened(sent') /\ answers' = [t \in Requests |-> answers'[t]]
  BY DEF ScreenInv
<1> QED BY <1>1, <1>2, Zenon DEF ScreenInv, Screened, T!Has, T!rulesFor, T!MasksPii, T!detectPii,
                                 T!detectContentPolicy, T!Actions, T!DEFAULT_RULES, T!Rule

LEMMA ScreenRests ==
  ASSUME ScreenInv, UNCHANGED <<guards, saving, answers, sent>>
  PROVE  ScreenInv'
BY PolicyKeeps DEF ScreenInv, Policied

LEMMA SetsKeeps ==
  ASSUME ScreenInv, NEW t \in Requests, T!Sets(t)
  PROVE  ScreenInv'
<1> DEFINE a == [by |-> "workflow", text |-> {}, under |-> None]
<1>1. answers' = [answers EXCEPT ![t] = a] /\ UNCHANGED <<guards, saving, sent>>
  BY DEF T!Sets, T!OthersStay, T!policyVars
<1>2. a.by # "agent"
  OBVIOUS
<1> HIDE DEF a
<1>3. Screened(a)
  BY <1>2 DEF Screened
<1>4. /\ answers' = [q \in Requests |-> answers'[q]] /\ answers'[t] = a
      /\ \A q \in Requests \ {t} : answers'[q] = answers[q]
  BY <1>1 DEF ScreenInv
<1>5. \A q \in Requests : answers'[q] # None => Screened(answers'[q])
  BY <1>3, <1>4 DEF ScreenInv
<1>6. Policied(guards)' /\ Policied(saving)' /\ Screened(sent')
  BY <1>1 DEF ScreenInv, Policied
<1> QED BY <1>4, <1>5, <1>6, Zenon DEF ScreenInv, Screened, T!Has, T!rulesFor, T!MasksPii, T!detectPii,
                                       T!detectContentPolicy, T!Actions, T!DEFAULT_RULES, T!Rule

LEMMA SendsKeeps ==
  ASSUME ScreenInv, NEW t \in Requests, T!Sends(t)
  PROVE  ScreenInv'
<1>1. answers[t] # None /\ sent' = answers[t] /\ UNCHANGED <<guards, saving, answers>>
  BY DEF T!Sends, T!policyVars
<1>2. Screened(sent') /\ \A q \in Requests : answers'[q] # None => Screened(answers'[q])
  BY <1>1 DEF ScreenInv
<1>3. Policied(guards)' /\ Policied(saving)' /\ answers' = [q \in Requests |-> answers'[q]]
  BY <1>1 DEF ScreenInv, Policied
<1> QED BY <1>2, <1>3, Zenon DEF ScreenInv, Screened, T!Has, T!rulesFor, T!MasksPii, T!detectPii,
                                 T!detectContentPolicy, T!Actions, T!DEFAULT_RULES, T!Rule

LEMMA EditsOfThePolicyKeep ==
  ASSUME ScreenInv, (\E p \in Guardrails : T!Clears(p)) \/ T!Saves \/ T!Dies
  PROVE  ScreenInv'
<1>1. UNCHANGED <<answers, sent>>
  BY DEF T!Clears, T!Saves, T!Dies
<1>2. Policied(guards) /\ Policied(saving)
  BY DEF ScreenInv
<1>3. guards' \in {guards, saving, None} /\ saving' \in Guardrails \cup {None}
  BY DEF T!Clears, T!Saves, T!Dies
<1>4. Policied(guards)' /\ Policied(saving)'
  BY <1>2, <1>3 DEF Policied
<1> QED BY <1>1, <1>4, PolicyKeeps

LEMMA ScreenNext == ScreenInv /\ (T!Next \/ UNCHANGED turnVars) => ScreenInv'
<1> SUFFICES ASSUME ScreenInv, T!Next \/ UNCHANGED turnVars PROVE ScreenInv'
  OBVIOUS
<1>1. CASE UNCHANGED turnVars
  BY <1>1, ScreenRests DEF turnVars
<1>2. ASSUME NEW t \in Requests,
             \/ T!Receives(t) \/ T!StaffRuns(t) \/ T!Starts(t) \/ \E q \in Questions : T!Asks(t, q)
             \/ T!Classifies(t) \/ T!Decides(t) \/ T!Acts(t)
             \/ \E allowed, approval \in BOOLEAN : T!CallsTool(t, allowed, approval)
             \/ T!Suspends(t) \/ T!Resumes(t) \/ T!Errs(t) \/ T!Ends(t)
      PROVE  ScreenInv'
  <2>1. UNCHANGED <<guards, saving, answers, sent>>
    BY <1>2 DEF T!Receives, T!StaffRuns, T!Starts, T!Asks, T!Classifies, T!Decides, T!Acts, T!Passes,
                T!CallsTool, T!Suspends, T!Resumes, T!Errs, T!Ends, T!RestStays, T!OthersStay, T!policyVars
  <2> QED BY <2>1, ScreenRests
<1>3. ASSUME NEW t \in Requests,
             (\E o \in {"person", "nobody"} : T!HandsOff(t, o)) \/ T!Hands(t) \/ T!Breaks(t)
      PROVE  ScreenInv'
  <2>1. UNCHANGED <<guards, saving, answers, sent>>
    BY <1>3 DEF T!HandsOff, T!Hands, T!Breaks, T!RestStays, T!OthersStay, T!policyVars
  <2> QED BY <2>1, ScreenRests
<1>4. ASSUME NEW o \in {"agent", "person", "nobody"}, T!Assigns(o)
      PROVE  ScreenInv'
  <2>1. UNCHANGED <<guards, saving, answers, sent>>
    BY <1>4 DEF T!Assigns, T!policyVars
  <2> QED BY <2>1, ScreenRests
<1>5. ASSUME NEW t \in Requests,
             \/ T!Sets(t) \/ T!Sends(t)
             \/ \E text \in SUBSET {"pii", "breach"}, g, c \in BOOLEAN : T!Answers(t, text, g, c)
      PROVE  ScreenInv'
  BY <1>5, SetsKeeps, SendsKeeps, AnswersKeep
<1> QED BY <1>1, <1>2, <1>3, <1>4, <1>5, EditsOfThePolicyKeep DEF T!Next

\* For any policies, rules and number of turns and nodes: what a guardrail would have refused
\* or masked is not sent (guardrails.service.ts:155-226, node-executors.ts:326-426).
THEOREM ScreenedBeforeSentTheorem == AllSpec => []ScreenedBeforeSent
<1>1. AllInit => ScreenInv
  BY StartsEveryPart, ScreenInit
<1>2. ScreenInv /\ [AllNext]_AllVars => ScreenInv'
  BY StepsOnePart, ScreenNext
<1>3. ScreenInv => ScreenedBeforeSent
  BY DEF ScreenInv, Screened, ScreenedBeforeSent, T!ScreenedBeforeSent
<1> QED BY <1>1, <1>2, <1>3, PTL DEF AllSpec
=============================================================================
