------------------------------ MODULE AgentTurns ------------------------------
(* Turns of an AI agent in one conversation. A visitor's message starts an       *)
(* execution if the agent owns the conversation; its nodes follow each other as  *)
(* some workflow has it, so any node may be next: they screen the question and   *)
(* the answer by the guardrail policy, send, wait, fail, or hand the             *)
(* conversation to people, each write of a hand-off a step of its own. Turns     *)
(* overlap, staff take the conversation over, the policy changes (its cache is   *)
(* that of AiGovernance). A text is the set of what the detectors find in it.    *)
EXTENDS Naturals, Sequences

CONSTANTS
  Turns, Questions, \* turns, and what questions carry
  Policies,         \* guardrail policies: rules, maskPii, groundednessMode
  Nothing,          \* no policy, no answer, no reply
  MaxNodes,         \* bound: nodes of all executions
  MaxMoves          \* bound: moves of staff, edits of the policy

VARIABLES
  owner,   \* the conversation's assignee: the agent, a person, or nobody while it is queued
  policy,  \* the default policy
  saving,  \* the policy an edit is about to make the default
  turn,    \* turn -> how far it is
  answer,  \* turn -> the answer in its execution's state
  nodes,   \* how many nodes ran
  moves,   \* how much staff have done
  sent,    \* the message the agent sent last
  beside,  \* history: turns running when the conversation left the agent
  broken,  \* history: turns whose hand-off failed half way
  late     \* history: turns that sent while the agent did not own the conversation
vars == <<owner, policy, saving, turn, answer, nodes, moves, sent, beside, broken, late>>

-----------------------------------------------------------------------------
Rule(stage, check, action) == [stage |-> stage, check |-> check, action |-> action]
DEFAULT_RULES == <<Rule("input", "prompt_injection", "handoff"), Rule("input", "max_length", "block"),
                   Rule("output", "pii", "mask"), Rule("output", "content_policy", "block")>>

\* The detectors: a text is what they find in it.
detectPromptInjection(text) == "injection" \in text
detectPii(text)             == "pii" \in text
detectContentPolicy(text)   == "breach" \in text
maskPii(text)               == text \ {"pii"}

\* The list that is screened by: the default one unless the policy has rules for the stage.
rulesFor(p, stage) ==
  IF p # Nothing /\ \E i \in DOMAIN p.rules : p.rules[i].stage = stage THEN p.rules ELSE DEFAULT_RULES
MasksPii(p) == p = Nothing \/ p.maskPii
groundednessMode(p) == IF p = Nothing THEN "flag" ELSE p.groundednessMode

Allow(text) == [text |-> text, blocked |-> FALSE, handoff |-> FALSE]
apply(verdict, action) ==
  [verdict EXCEPT !.blocked = @ \/ action = "block", !.handoff = @ \/ action = "handoff"]
\* The rules of the stage in order, up to a block by a check that stops.
Screen(rules, stage, text, Triggers(_, _), Effect(_, _), Stops) ==
  LET at[k \in 0 .. Len(rules)] ==
        IF k = 0 THEN [verdict |-> Allow(text), over |-> FALSE]
        ELSE LET v == at[k - 1]
                 w == Effect(v.verdict, rules[k])
             IN  IF v.over \/ rules[k].stage # stage \/ ~Triggers(v.verdict, rules[k]) THEN v
                 ELSE [verdict |-> w, over |-> w.blocked /\ rules[k].check \in Stops]
  IN  at[Len(rules)].verdict

checkInput(text, p) ==
  Screen(rulesFor(p, "input"), "input", text,
         LAMBDA v, r : \/ r.check = "prompt_injection" /\ detectPromptInjection(text)
                       \/ r.check = "max_length" /\ "long" \in text
                       \/ r.check = "pii" /\ detectPii(v.text),
         LAMBDA v, r : apply([v EXCEPT !.text = IF r.check = "pii" /\ r.action = "mask"
                                                THEN maskPii(@) ELSE @], r.action),
         {"prompt_injection", "max_length"})

\* Mutant: the reply is masked as the question is, by a rule whose action says so.
MasksAsTold(v, r) == apply([v EXCEPT !.text = IF r.action = "mask" THEN maskPii(@) ELSE @], r.action)
Masks(v, r) == apply([v EXCEPT !.text = maskPii(@)], r.action)
checkOutput(text, p, grounded, confident) ==
  LET v == Screen(rulesFor(p, "output"), "output", text,
             LAMBDA w, r : \/ r.check = "pii" /\ MasksPii(p) /\ detectPii(w.text)
                           \/ r.check = "content_policy" /\ detectContentPolicy(w.text)
                           \/ r.check = "groundedness" /\ ~grounded,
             LAMBDA w, r : CASE r.check = "pii" -> Masks(w, r)
                             [] r.check = "content_policy" -> apply(w, r.action)
                             [] OTHER -> apply(w, IF groundednessMode(p) = "block" THEN "block" ELSE "flag"),
             {"content_policy", "groundedness"})
  IN  IF confident THEN v ELSE apply(v, "handoff")

-----------------------------------------------------------------------------
\* A turn: not yet, its message stored, its execution at a node, waiting for the model's
\* answer, suspended, among the writes of a hand-off, over; over is also a message left
\* to people.
Running == {"node", "model", "suspended", "handing"}
NoTurn == [exec |-> "none", byStaff |-> FALSE]
NoMessage == [by |-> "nobody", text |-> {}, under |-> Nothing]

Init ==
  /\ owner \in {"agent", "nobody"}
  /\ policy \in Policies \cup {Nothing} /\ saving = Nothing
  /\ turn = [t \in Turns |-> NoTurn] /\ answer = [t \in Turns |-> Nothing]
  /\ nodes = 0 /\ moves = 0 /\ sent = NoMessage
  /\ beside = {} /\ broken = {} /\ late = {}

\* The conversation gets another owner, by one turn or by none of them.
Moves(o, by) ==
  /\ owner' = o
  /\ beside' = IF o = "agent" THEN beside
               ELSE beside \cup {t \in Turns \ by : turn[t].exec \in Running}
policyVars == <<policy, saving>>
OthersStay == UNCHANGED <<owner, policyVars, moves, sent, beside, broken, late>>
RestStays == OthersStay /\ UNCHANGED answer

\* The widget: the message is stored; then the owner is read, and the agent runs only if
\* the conversation is its own.
Receives(t) ==
  /\ turn[t].exec = "none"
  /\ turn' = [turn EXCEPT ![t].exec = "accepted"]
  /\ UNCHANGED nodes /\ RestStays
Starts(t) ==
  /\ turn[t].exec = "accepted"
  /\ turn' = [turn EXCEPT ![t].exec = IF owner = "agent" THEN "node" ELSE "over"]
  /\ UNCHANGED nodes /\ RestStays
\* Staff may run the agent on the conversation too, whoever owns it.
StaffRuns(t) ==
  /\ turn[t].exec = "none"
  /\ turn' = [turn EXCEPT ![t].exec = "node", ![t].byStaff = TRUE]
  /\ UNCHANGED nodes /\ RestStays

-----------------------------------------------------------------------------
\* The nodes.
AtNode(t) == turn[t].exec = "node" /\ nodes < MaxNodes /\ nodes' = nodes + 1
Then(t, exec) == [turn EXCEPT ![t].exec = exec]

\* An agent node screens the question: blocked or handed off, it names that branch.
Asks(t, q) ==
  /\ AtNode(t)
  /\ LET v == checkInput(q, policy)
     IN turn' = Then(t, IF v.blocked \/ v.handoff THEN "node" ELSE "model")
  /\ RestStays
\* Then the model's answer; one that is refused leaves the answer of an earlier node.
Answers(t, text, grounded, confident) ==
  /\ turn[t].exec = "model"
  /\ LET v == checkOutput(text, policy, grounded, confident)
     IN answer' = [answer EXCEPT ![t] = IF v.blocked \/ v.handoff THEN @
                                        ELSE [by |-> "agent", text |-> v.text, under |-> policy]]
  /\ turn' = Then(t, "node")
  /\ UNCHANGED nodes /\ OthersStay
\* A plain model node, or a node that sets variables, writes the answer as it is.
Sets(t) ==
  /\ AtNode(t)
  /\ turn' = Then(t, "node")
  /\ answer' = [answer EXCEPT ![t] = [by |-> "workflow", text |-> {}, under |-> Nothing]]
  /\ OthersStay
\* A send node, or the tool that sends.
Sends(t) ==
  /\ AtNode(t) /\ answer[t] # Nothing
  /\ turn' = Then(t, "node")
  /\ sent' = answer[t]
  /\ late' = IF owner = "agent" THEN late ELSE late \cup {t}
  /\ UNCHANGED <<owner, policyVars, answer, moves, beside, broken>>
\* A tool is refused, waits for an approval, or is called and may fail.
checkToolCall(allowed, approval) ==
  LET v == IF allowed THEN Allow({}) ELSE apply(Allow({}), "block")
  IN  IF approval THEN apply(v, "handoff") ELSE v
CallsTool(t, allowed, approval) ==
  /\ AtNode(t)
  /\ LET v == checkToolCall(allowed, approval)
     IN \E exec \in IF v.handoff /\ ~v.blocked THEN {"suspended"} ELSE {"node", "over"} :
          turn' = Then(t, exec)
  /\ RestStays
\* A node that names a branch or changes other things; it may fail.
Passes(t) ==
  /\ AtNode(t)
  /\ \E exec \in {"node", "over"} : turn' = Then(t, exec)
  /\ RestStays
Classifies(t) == Passes(t) \* intent, category, sentiment
Decides(t)    == Passes(t) \* retrieval, conditions, switches, loops
Acts(t)       == Passes(t) \* tickets, customers, HTTP; a hand-off to somebody who left
\* A delay; resumed, the execution goes on after the node.
Suspends(t) ==
  /\ AtNode(t)
  /\ turn' = Then(t, "suspended")
  /\ RestStays
Resumes(t) ==
  /\ turn[t].exec = "suspended"
  /\ turn' = [turn EXCEPT ![t].exec = "node"]
  /\ UNCHANGED nodes /\ RestStays
\* A node that fails goes on along its error edge or ends the execution.
Errs(t) ==
  /\ turn[t].exec = "model"
  /\ \E exec \in {"node", "over"} : turn' = [turn EXCEPT ![t].exec = exec]
  /\ UNCHANGED nodes /\ RestStays
\* A node without an edge ends the execution, and so does a statement that throws.
Ends(t) ==
  /\ turn[t].exec = "node"
  /\ turn' = [turn EXCEPT ![t].exec = "over"]
  /\ UNCHANGED nodes /\ RestStays

\* A hand-off: assign or transfer; then the reason, the note, the event and the priority,
\* any of which may fail as a node may.
HandsOff(t, o) ==
  /\ AtNode(t)
  /\ Moves(o, {t})
  /\ turn' = Then(t, "handing")
  /\ UNCHANGED <<policyVars, answer, moves, sent, broken, late>>
\* Mutant: the node after a hand-off runs as after any other.
GoesOn == "node"
Terminal == "over"
Hands(t) ==
  /\ turn[t].exec = "handing"
  /\ turn' = [turn EXCEPT ![t].exec = Terminal]
  /\ UNCHANGED nodes /\ RestStays
Breaks(t) ==
  /\ turn[t].exec = "handing"
  /\ \E exec \in {"node", "over"} : turn' = [turn EXCEPT ![t].exec = exec]
  /\ broken' = broken \cup {t}
  /\ UNCHANGED <<owner, policyVars, answer, nodes, moves, sent, beside, late>>

-----------------------------------------------------------------------------
Staff == moves < MaxMoves /\ moves' = moves + 1
Assigns(o) ==
  /\ Staff /\ o # owner
  /\ Moves(o, {})
  /\ UNCHANGED <<policyVars, turn, answer, nodes, sent, broken, late>>
\* createPolicy, updatePolicy: the old default is cleared, then the new one written;
\* between the two there is none, and an edit may die there.
Clears(p) ==
  /\ Staff /\ saving = Nothing
  /\ policy' = Nothing /\ saving' = p
  /\ UNCHANGED <<owner, turn, answer, nodes, sent, beside, broken, late>>
Saves ==
  /\ saving # Nothing
  /\ policy' = saving /\ saving' = Nothing
  /\ UNCHANGED <<owner, turn, answer, nodes, moves, sent, beside, broken, late>>
Dies ==
  /\ saving # Nothing
  /\ saving' = Nothing
  /\ UNCHANGED <<owner, policy, turn, answer, nodes, moves, sent, beside, broken, late>>
Next ==
  \/ \E t \in Turns :
       \/ Receives(t) \/ StaffRuns(t) \/ Starts(t)
       \/ \E q \in Questions : Asks(t, q)
       \/ Classifies(t) \/ Decides(t) \/ Acts(t)
       \/ \E allowed, approval \in BOOLEAN : CallsTool(t, allowed, approval)
       \/ Sets(t) \/ Sends(t) \/ Suspends(t) \/ Resumes(t) \/ Errs(t) \/ Ends(t)
       \/ \E text \in SUBSET {"pii", "breach"}, g, c \in BOOLEAN : Answers(t, text, g, c)
       \/ \E o \in {"person", "nobody"} : HandsOff(t, o)
       \/ Hands(t) \/ Breaks(t)
  \/ \E o \in {"agent", "person", "nobody"} : Assigns(o)
  \/ \E p \in Policies : Clears(p)
  \/ Saves \/ Dies

Spec == Init /\ [][Next]_vars

-----------------------------------------------------------------------------
TypeOK ==
  /\ owner \in {"agent", "person", "nobody"}
  /\ turn \in [Turns -> [exec : {"none", "accepted", "over"} \cup Running, byStaff : BOOLEAN]]
  /\ beside \cup broken \cup late \subseteq Turns

\* Whatever nodes ran before, whatever they refused, failed at or waited for, and however
\* the policy changed meanwhile: an agent's answer that is sent carries nothing that the
\* policy it was screened by masks or refuses (guardrails.service.ts:155-226,
\* node-executors.ts:326-426).
Actions == {"flag", "mask", "handoff", "block"}
Has(p, check, actions) ==
  \E i \in DOMAIN rulesFor(p, "output") :
    LET r == rulesFor(p, "output")[i] IN r.stage = "output" /\ r.check = check /\ r.action \in actions
ScreenedBeforeSent ==
  sent.by = "agent" =>
    /\ detectPii(sent.text) => ~(MasksPii(sent.under) /\ Has(sent.under, "pii", Actions))
    /\ detectContentPolicy(sent.text) => ~Has(sent.under, "content_policy", {"block", "handoff"})

\* While people own the conversation no turn writes to the customer but one that was
\* running when another gave it to them, one that staff asked for, or one whose own
\* hand-off failed half way
\* (widget.service.ts:111-112, node-executors.ts:731-734, 770-806, runtime.service.ts:311-319).
HandedOverMeansSilent ==
  \A t \in late : t \in beside \cup broken \/ turn[t].byStaff
=============================================================================
