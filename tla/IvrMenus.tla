------------------------------ MODULE IvrMenus ------------------------------
(* The interpreter of an IVR flow: a small graph of nodes a caller moves through
   by pressing keys or by staying silent. validateIvr decides which flows may be
   saved; step walks from the caller's node to the next one that waits for him, or to
   an outcome. A flow is chosen at the start, and the caller does what he likes. *)
EXTENDS Naturals, FiniteSets, TLC

CONSTANTS
  Nodes,        \* node ids
  Ends,         \* those of them that are a queue or say a text: a bound on the flows tried
  Entry,        \* the flow's entry, one of them or not
  None,         \* a link that is not set
  Missing,      \* a link to a node that is not there
  MaxHops,      \* MAX_HOPS
  MaxRetries    \* retries of a menu, the default for all

VARIABLES
  flow,      \* the nodes of the flow
  place,     \* the caller's node, its retries, whether he waits there, how he left
  heard      \* history: prompts the same node gave him in a row
vars == <<flow, place, heard>>

Links == Nodes \cup {Missing}
MaybeLinks == Links \cup {None}
\* A node that asks is a menu of one option or a collect: what it knows, silence, and
\* another key each lead somewhere; a collect may lead nowhere.
NodeShapes ==
  [type : {"ask"}, next : MaybeLinks, onTimeout : MaybeLinks, onInvalid : {None} \cup Ends]
  \cup [type : {"say"}, next : MaybeLinks, onTimeout : {None}, onInvalid : {None}]
  \cup [type : {"queue"}, next : {None}, onTimeout : {None}, onInvalid : {None}]
Terminals == {"queue"}
\* The flows that are offered.
Menus == {f @@ g : f \in [Nodes \ Ends -> NodeShapes], g \in [Ends -> {s \in NodeShapes : s.type \in {"queue", "say"}}]}

-----------------------------------------------------------------------------
(* validateIvr. *)

There(id) == id = None \/ id \in Nodes
LinksOf(n) == {flow[n].next, flow[n].onTimeout, flow[n].onInvalid}
\* Mutant: where a timeout leads is not looked at.
NextOnly(n) == There(flow[n].next) /\ There(flow[n].onInvalid)
LinksAreThere(n) == \A id \in LinksOf(n) : There(id)
Valid ==
  /\ Entry \in Nodes
  /\ \A n \in Nodes : LinksAreThere(n)
  /\ \E n \in Nodes : flow[n].type \in Terminals

-----------------------------------------------------------------------------
(* step. *)

Left(why) == [node |-> None, retries |-> 0, left |-> why]
Waits(n, retries) == [node |-> n, retries |-> retries, left |-> "no"]
\* Walk from node n, following what needs no input, for at most MaxHops nodes.
Hop(n) == IF n \in Nodes /\ flow[n].type = "say" THEN flow[n].next ELSE n
Hops(n) ==
  LET at[k \in 0 .. MaxHops] == IF k = 0 THEN n ELSE Hop(at[k - 1]) IN at
Walk(n) ==
  LET at == Hops(n)
      reached == {k \in 0 .. MaxHops - 1 : at[k] \notin Nodes \/ flow[at[k]].type # "say"}
      first == at[CHOOSE k \in reached : \A j \in reached : k <= j]
  IN IF reached = {} THEN Left("exhausted")
     ELSE IF first = None THEN Left("hangup")
     ELSE IF first \notin Nodes THEN Left("broken")
     ELSE IF flow[first].type \in Terminals THEN Left("outcome")
     ELSE Waits(first, 0)
\* Mutant: a retry does not count.
Uncounted(retries) == retries
Counted(retries) == retries + 1
RetryOrGiveUp ==
  IF place.retries >= MaxRetries THEN Left("exhausted")
  ELSE Waits(place.node, Counted(place.retries))
\* What the caller does at a menu or a collect: a key it knows, another, or nothing.
\* An input the node has no link for is asked for again; so is silence.
Unlinked(input) ==
  LET node == flow[place.node] IN
  \/ input = "silence" /\ node.onTimeout = None
  \/ input = "unknown" /\ node.onInvalid = None
LinkFor(input) ==
  LET node == flow[place.node] IN
  CASE input = "silence" -> node.onTimeout
    [] input = "unknown" -> node.onInvalid
    [] input = "known" -> node.next
Resolve(input) ==
  IF Unlinked(input) THEN RetryOrGiveUp
  ELSE IF LinkFor(input) = None THEN Left("exhausted") ELSE Walk(LinkFor(input))

Init ==
  /\ flow = [n \in Nodes |-> [type |-> "queue", next |-> None, onTimeout |-> None, onInvalid |-> None]]
  /\ place = Left("before")
  /\ heard = 0
\* createFlow saves a flow that is valid; a call enters it.
Saves ==
  /\ place = Left("before")
  /\ \E f \in Menus : flow' = f /\ Valid'
  /\ place' = Left("saved")
  /\ UNCHANGED heard
Enters ==
  /\ place = Left("saved")
  /\ place' = Walk(Entry) /\ heard' = 1
  /\ UNCHANGED flow
Input(input) ==
  /\ place.left = "no"
  /\ place' = Resolve(input)
  /\ heard' = IF Unlinked(input) /\ place'.left = "no" THEN heard + 1 ELSE 1
  /\ UNCHANGED flow
Next ==
  \/ Saves
  \/ Enters
  \/ \E input \in {"known", "unknown", "silence"} : Input(input)
Spec == Init /\ [][Next]_vars

-----------------------------------------------------------------------------
\* The caller's place has its type.
TypeOK ==
  /\ place.node \in Nodes \cup {None} /\ place.retries \in 0 .. MaxRetries
  /\ place.left \in {"no", "hangup", "broken", "outcome", "exhausted", "before", "saved"}
  /\ place.left = "no" => place.node \in Nodes

\* A flow that could be saved never leads a caller to a node that is not there
\* (ivr.ts:96-104, 286-334).
NeverBroken == place.left # "broken"

\* A caller who gives no usable input hears one node at most MaxRetries + 1 times before he is sent
\* on or told goodbye (ivr.ts:235-273).
PromptsBounded == heard <= MaxRetries + 1

\* What validateIvr says it refuses: a flow whose every path loops (ivr.ts:325-332).
\* A caller who keeps moving leaves such a flow only by its retries.
SomeWayOut ==
  place.left = "no" =>
    LET reach[k \in 0 .. Cardinality(Nodes)] ==
          IF k = 0 THEN {place.node}
          ELSE reach[k - 1] \cup {m \in Nodes : \E n \in reach[k - 1] : m \in LinksOf(n)}
    IN \E n \in reach[Cardinality(Nodes)] : flow[n].type \in Terminals
=============================================================================
