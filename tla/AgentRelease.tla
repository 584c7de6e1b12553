---------------------------- MODULE AgentRelease ----------------------------
(***************************************************************************)
(* The life of one AI agent's versions: AgentsService.updateDraft, publish,*)
(* rollback and run, and the evaluation run whose verdict gates promotion  *)
(* to production, over the workflow that some versions attach.             *)
(*                                                                         *)
(* Every statement that touches the database is a step, except where a row *)
(* read cannot change before it is used.  What a version configures is one *)
(* value, its text; what an evaluation thinks of an answer is membership   *)
(* in Passing.  create is the initial state; delete is left out.           *)
(***************************************************************************)
EXTENDS WorkflowVersions

CONSTANTS
  Operators,   \* concurrent requests to the agent routes
  Users,       \* who may stand behind them
  NoOne,
  Texts,       \* what a version may configure
  Flowing,     \* those that attach the workflow
  NoText,
  Passing,     \* the texts and graphs whose answers an evaluation accepts
  FourEyes,    \* the tenant's requireHumanApproval
  PageSize,    \* get reads that many versions
  MaxVersions  \* bound: versions of the agent

ASSUME AgentReleaseAssumption ==
  /\ NoOne \notin Users \cup Operators
  /\ Flowing \subseteq Texts
  /\ NoText \notin Texts
  /\ FourEyes \in BOOLEAN
  /\ PageSize \in Nat \ {0}
  /\ MaxVersions \in Nat \ {0}

VARIABLES
  ver,     \* the agent_versions rows, by version number
  agent,   \* activeVersionId and draftVersionId, as version numbers; 0 is null
  inline,  \* the inline workflow kept for each version without one
  gate,    \* the latest run of the agent's gate dataset: whose, of which version,
           \* and its verdict
  op,      \* the local state of each request
  frozen,  \* history: versions published while no edit held them as a draft
  tried    \* history: versions that were run before they were published

agentVars == <<ver, agent, inline, gate, op, frozen, tried>>
vars      == <<wfVars, agentVars, asked>>
history   == <<frozen, tried>>

PC == {"idle", "edit", "fork", "point", "workflow", "gates", "approve", "commit",
       "answer", "case", "score", "finish"}
Version == [text : Texts, author : Users, published : BOOLEAN, production : BOOLEAN,
            publisher : Users \cup {NoOne}]
Op      == [pc : PC, who : Users \cup {NoOne}, seen : Nat, text : Texts \cup {NoText},
            production : BOOLEAN, verdict : BOOLEAN]

NoOp == [pc |-> "idle", who |-> NoOne, seen |-> 0, text |-> NoText,
         production |-> FALSE, verdict |-> FALSE]

ATypeOK ==
  /\ ver \in Seq(Version)
  /\ agent \in [active : Nat, draft : Nat]
  /\ inline \in [1..MaxVersions -> Texts \cup {NoText}]
  /\ gate \in [by : Operators \cup {NoOne}, of : Nat, passed : BOOLEAN]
  /\ op \in [Operators -> Op]
  /\ frozen \subseteq (Nat \X Texts)
  /\ tried \subseteq Nat

TypeOK == WTypeOK /\ ATypeOK

\* Mutant: createdById is not written.
UnsignedDraft(t, u) == [text |-> t, author |-> NoOne, published |-> FALSE,
                        production |-> FALSE, publisher |-> NoOne]

Draft(t, u) == [text |-> t, author |-> u, published |-> FALSE, production |-> FALSE,
                publisher |-> NoOne]

\* create writes the agent, its version 1 and the draft pointer in one transaction.
Init ==
  /\ WInit
  /\ \E t \in Texts, u \in Users : ver = <<Draft(t, u)>>
  /\ agent = [active |-> 0, draft |-> 1]
  /\ inline = [v \in 1..MaxVersions |-> NoText]
  /\ gate = [by |-> NoOne, of |-> 0, passed |-> FALSE]
  /\ op = [i \in Operators |-> NoOp]
  /\ frozen = {} /\ tried = {}

-----------------------------------------------------------------------------
Latest == Len(ver)

\* get lists the latest PageSize versions and looks the two pointers up in that list.
Listed(v) == v # 0 /\ v + PageSize > Latest

OpBecomes(i, r) == op' = [op EXCEPT ![i] = r] /\ UNCHANGED asked
OpEnds(i)    == OpBecomes(i, NoOp)
OpGoes(i, s) == OpBecomes(i, [op[i] EXCEPT !.pc = s])
At(i, s)     == op[i].pc = s

Begins(i, r) ==
  /\ At(i, "idle") /\ Asks
  /\ op' = [op EXCEPT ![i] = r]
  /\ UNCHANGED <<ver, agent, inline, gate>>

-----------------------------------------------------------------------------
(* updateDraft.                                                            *)

\* Mutant: the draft pointer is believed without looking at publishedAt, and
\* the active version is edited when there is no draft.
EditReadsAnything(i) ==
  \E u \in Users, t \in Texts :
    LET d == IF agent.draft = 0 THEN agent.active ELSE agent.draft IN
    /\ Begins(i, [NoOp EXCEPT !.pc = "edit", !.who = u, !.seen = d, !.text = t])
    /\ UNCHANGED history

\* The draft as read decides whether the patch edits it or forks a new version.
EditReads(i) ==
  \E u \in Users, t \in Texts :
    LET d == agent.draft
        drafting == Listed(d) /\ ~ver[d].published
    IN /\ Begins(i, [NoOp EXCEPT !.pc = IF drafting THEN "edit" ELSE "fork",
                                 !.who = IF drafting THEN NoOne ELSE u,
                                 !.seen = IF drafting THEN d ELSE Latest, !.text = t])
       /\ UNCHANGED history

\* The write is by row id: it does not ask again whether the row is a draft.
\* createdById stays what it was.
EditInPlace(i) ==
  /\ At(i, "edit")
  /\ ver' = [ver EXCEPT ![op[i].seen].text = op[i].text]
  /\ OpEnds(i)
  /\ UNCHANGED <<agent, inline, gate, history>>

\* The new version is created; pointing the agent at it is a second statement.
ForkCreates(i) ==
  /\ At(i, "fork") /\ op[i].seen = Latest /\ Latest < MaxVersions
  /\ ver' = Append(ver, Draft(op[i].text, op[i].who))
  /\ OpBecomes(i, [NoOp EXCEPT !.pc = "point", !.seen = Latest + 1])
  /\ UNCHANGED <<agent, inline, gate, history>>

\* Another request took the number: the unique index refuses this one.
ForkRefused(i) ==
  /\ At(i, "fork") /\ op[i].seen < Latest
  /\ OpEnds(i)
  /\ UNCHANGED <<ver, agent, inline, gate, history>>

ForkPoints(i) ==
  /\ At(i, "point")
  /\ agent' = [agent EXCEPT !.draft = op[i].seen]
  /\ OpEnds(i)
  /\ UNCHANGED <<ver, inline, gate, history>>

\* The process dies between the two statements: no pointer names the version.
ForkDies(i) ==
  /\ At(i, "point")
  /\ OpEnds(i)
  /\ UNCHANGED <<ver, agent, inline, gate, history>>

-----------------------------------------------------------------------------
(* publish and rollback.                                                   *)

\* The draft is copied.  Its author never changes; its workflow is asked for here.
PublishReadsDraft(i) ==
  \E u \in Users, prod \in BOOLEAN :
    LET d == agent.draft IN
    /\ Listed(d)
    /\ Begins(i, [NoOp EXCEPT !.pc = IF ver[d].text \in Flowing THEN "workflow"
                                     ELSE IF prod THEN "gates" ELSE "approve",
                              !.who = u, !.seen = d, !.production = prod])
    /\ UNCHANGED history

\* The attached workflow's latest version must be publishable, published or not.
CheckWorkflow(i) ==
  /\ At(i, "workflow")
  /\ IF ~wgone /\ wver[WLatest].graph \in Publishable
     THEN OpGoes(i, IF op[i].production THEN "gates" ELSE "approve")
     ELSE OpEnds(i)
  /\ UNCHANGED <<ver, agent, inline, gate, history>>

\* The latest run of the gate dataset must have passed, whatever it ran.
CheckGates(i) ==
  /\ At(i, "gates")
  /\ IF gate.passed THEN OpGoes(i, "approve") ELSE OpEnds(i)
  /\ UNCHANGED <<ver, agent, inline, gate, history>>

\* Mutant: the publisher is compared with the author of the live version.
CheckApprovalOfActive(i) ==
  /\ At(i, "approve")
  /\ IF FourEyes /\ agent.active # 0 /\ ver[agent.active].author = op[i].who
     THEN OpEnds(i) ELSE OpGoes(i, "commit")
  /\ UNCHANGED <<ver, agent, inline, gate, history>>

\* assertApprovalSatisfied: the publisher must not have created the draft.
CheckApproval(i) ==
  /\ At(i, "approve")
  /\ IF FourEyes /\ ver[op[i].seen].author = op[i].who
     THEN OpEnds(i) ELSE OpGoes(i, "commit")
  /\ UNCHANGED <<ver, agent, inline, gate, history>>

\* An updateDraft that read version v as a draft and has not written yet.
EditHolds(v) == \E j \in Operators : At(j, "edit") /\ op[j].seen = v

\* One transaction: the version is published and active, and no draft remains,
\* whichever draft the agent points at by now.
PublishDraft(i) ==
  /\ At(i, "commit")
  /\ LET v == op[i].seen IN
       /\ ver' = [ver EXCEPT ![v] = [@ EXCEPT !.published = TRUE, !.publisher = op[i].who,
                                             !.production = op[i].production]]
       /\ agent' = [active |-> v, draft |-> 0]
       /\ frozen' = IF ver[v].published \/ EditHolds(v)
                    THEN frozen ELSE frozen \cup {<<v, ver[v].text>>}
  /\ OpEnds(i)
  /\ UNCHANGED <<inline, gate, tried>>

\* Mutant: any version can be rolled back to.
RollbackAnywhere(i) ==
  \E v \in 1..Latest :
    /\ At(i, "idle") /\ Asks /\ agent.active # v
    /\ agent' = [agent EXCEPT !.active = v]
    /\ UNCHANGED <<ver, op, inline, gate, history>>

\* rollback: a published version stays published, so its two statements are one step.
Rollback(i) ==
  \E v \in 1..Latest :
    /\ At(i, "idle") /\ Asks /\ ver[v].published /\ agent.active # v
    /\ agent' = [agent EXCEPT !.active = v]
    /\ UNCHANGED <<ver, op, inline, gate, history>>

-----------------------------------------------------------------------------
(* run, ensureInlineWorkflow and EvaluationService.run.                    *)

\* The version a run answers with: the active one, else the draft, of those listed.
Answering == IF Listed(agent.active) THEN agent.active
             ELSE IF Listed(agent.draft) THEN agent.draft ELSE 0

MarksTried(v) ==
  /\ tried' = IF ver[v].published THEN tried ELSE tried \cup {v}
  /\ UNCHANGED frozen

\* Runs of a version with a workflow change nothing here and are left out.
RunReads(i) ==
  LET v == Answering IN
  /\ v # 0 /\ ver[v].text \notin Flowing
  /\ Begins(i, [NoOp EXCEPT !.pc = "answer", !.seen = v, !.text = ver[v].text])
  /\ MarksTried(v)

\* Mutant: the inline workflow is kept for the agent, not for the version.
KeptPerAgent(v, t) ==
  [w \in 1..MaxVersions |-> IF inline[1] = NoText THEN t ELSE inline[1]]

\* The inline workflow of version v is made at its first run and kept.  Of two
\* first runs the unique key lets one insert; the other one fails.
Kept(v, t) == [inline EXCEPT ![v] = IF @ = NoText THEN t ELSE @]

RunAnswers(i) ==
  /\ At(i, "answer")
  /\ inline' = Kept(op[i].seen, op[i].text)
  /\ OpEnds(i)
  /\ UNCHANGED <<ver, agent, gate, history>>

\* The run is recorded with passed = false, and is the gate's latest from now on.
EvalStarts(i) ==
  /\ At(i, "idle") /\ Asks /\ Answering # 0
  /\ gate' = [by |-> i, of |-> Answering, passed |-> FALSE]
  /\ op' = [op EXCEPT ![i].pc = "case"]
  /\ UNCHANGED <<ver, agent, inline, history>>

\* A case is answered by agents.run, which picks the version again.
EvalReads(i) ==
  /\ At(i, "case")
  /\ LET v == Answering IN
     IF v = 0 THEN /\ OpGoes(i, "finish")
                   /\ UNCHANGED history
     ELSE /\ OpBecomes(i, [op[i] EXCEPT !.pc = "score", !.seen = v, !.text = ver[v].text])
          /\ MarksTried(v)
  /\ UNCHANGED <<ver, agent, inline, gate>>

\* The answer is the workflow's latest graph or the inline one; a case that
\* throws, or one the model answers badly, does not pass.
EvalScores(i) ==
  /\ At(i, "score")
  /\ LET v     == op[i].seen
         flows == op[i].text \in Flowing
     IN /\ inline' = IF flows THEN inline ELSE Kept(v, op[i].text)
        /\ \E ok \in BOOLEAN :
             /\ ok => IF flows THEN ~wgone /\ wver[WLatest].graph \in Passing
                              ELSE inline'[v] \in Passing
             /\ OpBecomes(i, [NoOp EXCEPT !.pc = "finish", !.verdict = ok])
  /\ UNCHANGED <<ver, agent, gate, history>>

EvalFinishes(i) ==
  /\ At(i, "finish")
  /\ gate' = IF gate.by = i THEN [gate EXCEPT !.passed = op[i].verdict] ELSE gate
  /\ OpEnds(i)
  /\ UNCHANGED <<ver, agent, inline, history>>

-----------------------------------------------------------------------------
OperatorStep(i) ==
  \/ EditReads(i) \/ EditInPlace(i)
  \/ ForkCreates(i) \/ ForkRefused(i) \/ ForkPoints(i) \/ ForkDies(i)
  \/ PublishReadsDraft(i) \/ CheckWorkflow(i) \/ CheckGates(i) \/ CheckApproval(i)
  \/ PublishDraft(i) \/ Rollback(i)
  \/ RunReads(i) \/ RunAnswers(i)
  \/ EvalStarts(i) \/ EvalReads(i) \/ EvalScores(i) \/ EvalFinishes(i)

\* WorkflowsService.delete counts the agent versions that name the workflow.
WorkflowInUse == \E v \in 1..Latest : ver[v].text \in Flowing

Next ==
  \/ \E i \in Operators : OperatorStep(i) /\ UNCHANGED wfVars
  \/ \E b \in Builders : BuildStep(b, WorkflowInUse) /\ UNCHANGED agentVars

Spec == Init /\ [][Next]_vars

-----------------------------------------------------------------------------
(* Properties.                                                             *)

\* What serves traffic was published, whatever publish, rollback and a fork whose
\* pointer is late do to the two pointers meanwhile.
ActiveIsPublished ==
  /\ agent.active # 0 => ver[agent.active].published
  /\ wactive # 0 => wver[wactive].published

\* The draft pointer never names a published version, though the fork moves it
\* in a statement of its own and publish clears it whatever it names.
DraftIsUnpublished == agent.draft # 0 => ~ver[agent.draft].published

\* "A published version is never modified", as far as the code keeps it: one
\* published while no updateDraft held it as a draft keeps its text for ever.
PublishedTextIsFrozen == \A f \in frozen : ver[f[1]].text = f[2]

\* With four-eyes on, nobody publishes a version they created, however long ago
\* the request read it and whoever edited or published it since.
SecondPerson == FourEyes => \A v \in 1..Latest : ver[v].publisher # ver[v].author

\* A published version without a workflow answers with the text that was
\* published, unless it was run as a draft or published under a late edit:
\* ensureInlineWorkflow trusts that "the version is immutable once published".
AnswersAsPublished ==
  \A f \in frozen :
    f[1] \notin tried /\ inline[f[1]] # NoText => inline[f[1]] = f[2]

\* "An agent version must pass its gate suite before it can be promoted to the
\* production environment" (docs/ai/architecture.md:114-115): a publication gets
\* past the gates on a passing run of the version it is about to publish.
GatesVetTheDraft ==
  [][\A i \in Operators :
       At(i, "gates") /\ op'[i].pc = "approve" => gate.of = op[i].seen]_vars
=============================================================================
