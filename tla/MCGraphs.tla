------------------------------ MODULE MCGraphs ------------------------------
(* What an author draws or writes, and who comes through it: workflow graphs     *)
(* (WorkflowGraph), phone menus and their interpreter (IvrMenus), the routes    *)
(* that lead to them (PhoneRoutes), a phone call (Calls), an article and the    *)
(* index that is built from it (Knowledge), the policy that models are called   *)
(* under (AiGovernance), who may do what of it all (AccessRights), and the turns  *)
(* of an AI agent in a conversation (AgentTurns). They share no state: the first  *)
(* state chooses the part that moves.                                            *)
EXTENDS WorkflowGraph, TLC

CONSTANTS
  Requests,                                       \* in flight, of all parts
  MenuNodes, MenuEnds, MenuEntry, Missing,        \* of IvrMenus
  Flows, Numbers,                                 \* of PhoneRoutes
  Slots, File, Mirror,                            \* of Knowledge
  Updaters, Asked, Configured, AiPolicies,        \* of AiGovernance
  People, Founder, Customs, ApiKeys, Handlers, Given, Mapped, Offers,   \* of AccessRights
  Questions, Guardrails,                          \* of AgentTurns
  None,
  MaxHops, MaxRetries, MaxTurns, MaxAttempts,     \* limits of the program
  MaxRoutings, MaxCalling, MaxIndexing, MaxRewrites, MaxModelCalls, MaxPolicies,
  MaxNodes, MaxMoves                              \* bounds

ASSUME LimitsAreNatural == {MaxHops, MaxRetries, MaxTurns} \subseteq Nat
ASSUME TheMirrorIsNoSlot == Mirror \notin Slots
ASSUME NoneIsNoValue == None \notin {Mirror} \cup Slots /\ None \notin Nat
ASSUME RulesAreLists == \A p \in Guardrails : p.rules \in Seq({p.rules[i] : i \in DOMAIN p.rules})

(* Every graph over a few ids, up to the order its nodes are listed in. *)

ThreeIds == {"a", "b", "c"}

\* Lists without repetition of up to max of the ids.
Lists(S, max) ==
  {s \in UNION {[1 .. n -> S] : n \in 0 .. max} :
     \A k, l \in DOMAIN s : s[k] = s[l] => k = l}

Is(i, k) == [id |-> i, kind |-> k]

TriggerLoopPlain == {<<Is("a", "trigger"), Is("b", "loop"), Is("c", "plain")>>}
PlainLists ==
  {<<Is("a", "trigger"), Is("b", "plain"), Is("c", "branch")>>,
   <<Is("c", "plain"), Is("b", "plain"), Is("a", "trigger")>>}
\* Lists with something wrong; c is an id only edges name.
OddLists ==
  {<<>>,
   <<Is("a", "trigger"), Is("b", "plain")>>,
   <<Is("a", "trigger"), Is("b", "loop"), Is("b", "plain")>>,
   <<Is("a", "trigger"), Is("b", "trigger")>>,
   <<Is("a", "plain"), Is("b", "unknown")>>}
EveryList == PlainLists \cup TriggerLoopPlain \cup OddLists

FullAdjacencies == [ThreeIds -> Lists(ThreeIds, 3)]

(* Values of the parameters of the other parts. *)

TwoProviders == <<"remote", "local">>
TwoPolicies  == {[providers |-> {}, tools |-> TRUE, limited |-> FALSE],
                 [providers |-> {"remote"}, tools |-> FALSE, limited |-> TRUE]}
TwoOffers    == {{<<"billing", "manage">>}, {<<"wfm", "read">>}}
Check(stage, check, action) == [stage |-> stage, check |-> check, action |-> action]
OneGuardrail == {[rules |-> <<Check("input", "pii", "mask"), Check("output", "groundedness", "flag"),
                              Check("output", "pii", "flag"), Check("output", "content_policy", "handoff")>>,
                  maskPii |-> TRUE, groundednessMode |-> "block"]}

(* The other parts. *)

VARIABLES
  part,
  menu, place, heard,
  flow, route, task, asked, excuse,
  call, control, callTask, callAsked, conversations, spoken, callExcuse,
  article, history, doc, queued, indexing, indexAsked, edits, indexExcuse, uploads,
  policy, cached, models, spend, total, calling, update, callsAsked, policyEdits, slack,
  role, custom, token, key, req, due, edited, handed, more, wrote,
  owner, guards, saving, turn, answers, ran, moves, sent, beside, broken, late
menuVars  == <<menu, place, heard>>
routeVars == <<flow, route, task, asked, excuse>>
callVars  == <<call, control, callTask, callAsked, conversations, spoken, callExcuse>>
indexVars == <<article, history, doc, queued, indexing, indexAsked, edits, indexExcuse, uploads>>
modelVars == <<policy, cached, models, spend, total, calling, update, callsAsked, policyEdits, slack>>
rightVars == <<role, custom, token, key, req, due, edited, handed, more, wrote>>
turnVars  == <<owner, guards, saving, turn, answers, ran, moves, sent, beside, broken, late>>

M == INSTANCE IvrMenus WITH
       Nodes <- MenuNodes, Ends <- MenuEnds, Entry <- MenuEntry, flow <- menu
P == INSTANCE PhoneRoutes WITH Admins <- Requests, MaxAsked <- MaxRoutings
C == INSTANCE Calls WITH
       task <- callTask, asked <- callAsked, excuse <- callExcuse, MaxAsked <- MaxCalling
K == INSTANCE Knowledge WITH
       task <- indexing, asked <- indexAsked, excuse <- indexExcuse,
       MaxAsked <- MaxIndexing, MaxEdits <- MaxRewrites
G == INSTANCE AiGovernance WITH
       Callers <- Requests, Kinds <- Asked, Policies <- AiPolicies,
       route <- models, call <- calling, asked <- callsAsked, edits <- policyEdits,
       MaxAsked <- MaxModelCalls, MaxEdits <- MaxPolicies, Nothing <- None
R == INSTANCE AccessRights WITH Nobody <- None
T == INSTANCE AgentTurns WITH
       Turns <- Requests, Policies <- Guardrails, Nothing <- None,
       policy <- guards, answer <- answers, nodes <- ran

AllVars == <<vars, part, menuVars, routeVars, callVars, indexVars, modelVars, rightVars, turnVars>>
AllInit ==
  /\ part \in {"graph", "menu", "routes", "call", "index", "models", "rights", "turns"}
  /\ Init /\ M!Init /\ P!Init /\ C!Init /\ K!Init /\ G!Init /\ R!Init /\ T!Init
  /\ part # "graph" => nodes = <<>> /\ adj = [i \in Ids |-> <<>>]
  /\ part # "call" => ~call.made
  /\ part # "turns" => owner = "agent" /\ guards = None
AllNext ==
  \/ /\ part = "graph" /\ Next
     /\ UNCHANGED <<part, menuVars, routeVars, callVars, indexVars, modelVars, rightVars, turnVars>>
  \/ /\ part = "menu" /\ M!Next
     /\ UNCHANGED <<part, vars, routeVars, callVars, indexVars, modelVars, rightVars, turnVars>>
  \/ /\ part = "routes" /\ P!Next
     /\ UNCHANGED <<part, vars, menuVars, callVars, indexVars, modelVars, rightVars, turnVars>>
  \/ /\ part = "call" /\ C!Next
     /\ UNCHANGED <<part, vars, menuVars, routeVars, indexVars, modelVars, rightVars, turnVars>>
  \/ /\ part = "index" /\ K!Next
     /\ UNCHANGED <<part, vars, menuVars, routeVars, callVars, modelVars, rightVars, turnVars>>
  \/ /\ part = "models" /\ G!Next
     /\ UNCHANGED <<part, vars, menuVars, routeVars, callVars, indexVars, rightVars, turnVars>>
  \/ /\ part = "rights" /\ R!Next
     /\ UNCHANGED <<part, vars, menuVars, routeVars, callVars, indexVars, modelVars, turnVars>>
  \/ /\ part = "turns" /\ T!Next
     /\ UNCHANGED <<part, vars, menuVars, routeVars, callVars, indexVars, modelVars, rightVars>>
AllSpec == AllInit /\ [][AllNext]_AllVars

Symmetry == Permutations(Requests)

\* A caller never hears one menu node more than its retries allow and is never led to a
\* node that is not there; a number routes to a flow that is there, and one flow is active,
\* but for the overlaps each names (ivr.ts:96-104, 235-273, ivr.service.ts:46-146, 204-237).
CallersAreLed == M!PromptsBounded /\ M!NeverBroken /\ P!RoutesLead /\ P!OneActive
\* A call that is over stays over, one conversation is opened for it, and the AI agent
\* answers no more turns than it may, but for the overlaps each names
\* (calls.service.ts:97-213, 297-302, 471-500, voice-agent.service.ts:104-119).
CallsKeepOrder == C!EndedStaysEnded /\ C!OneConversation /\ C!TurnsBounded
\* Once nothing runs retrieval finds what is published, unless a job failed or held a text
\* that changed; earlier versions are kept as they were (knowledge.service.ts:258-359).
KnowledgeIsWhole == K!IndexFollows /\ K!HistoryIsWhole
ChangesBind == G!ChangesBind
OwnersKeepTheirs == R!OwnersKeepTheirs
ReadersOnlyRead == R!ReadersOnlyRead
ScreenedBeforeSent == T!ScreenedBeforeSent
HandedOverMeansSilent == T!HandedOverMeansSilent
=============================================================================
