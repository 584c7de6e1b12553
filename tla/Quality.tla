------------------------------- MODULE Quality -------------------------------
(* Evaluations of one conversation against one template: a model or a person scores   *)
(* the criteria, the scores are disputed, and disputes are resolved, with or without   *)
(* a new score, while the template's passing score may be edited.                        *)
EXTENDS Naturals, Sequences, FiniteSetsExt

CONSTANTS
  Requests,
  Criteria,    \* of the template, in order: weight, together 100, and critical
  Marks,       \* scores a criterion can get
  PassingScores,
  None,
  MaxEvaluations, MaxDisputes  \* bounds

VARIABLES
  passingScore,  \* of the template
  evaluations,   \* rows in order: kind, marks, score, passed, status
  disputes,      \* rows in order: of, open
  job,
  crossed        \* history: evaluations whose disputes were raised and resolved across one another
vars == <<passingScore, evaluations, disputes, job, crossed>>

Idle == [op |-> "none", pc |-> "none", of |-> 0, score |-> None, passing |-> 0]
Init ==
  /\ passingScore \in PassingScores
  /\ evaluations = <<>> /\ disputes = <<>> /\ crossed = {}
  /\ job = [r \in Requests |-> Idle]

Weighted(marks) == MapThenSumSet(LAMBDA c : marks[c] * Criteria[c].weight, DOMAIN Criteria) \div 100
FailedCritical(marks) == {c \in DOMAIN Criteria : Criteria[c].critical /\ marks[c] < 50}
\* A failed critical criterion caps the total.
\* Mutant: it is averaged away.
Average(marks) == Weighted(marks)
Overall(marks) ==
  LET w == Weighted(marks) IN
  IF FailedCritical(marks) = {} \/ w < 50 THEN w ELSE 49

\* The template is read before the conversation is judged, and may change meanwhile.
ReadsTemplate(r, kind) ==
  /\ job[r] = Idle
  /\ Len(evaluations) + Cardinality({q \in Requests : job[q].pc = "judge"}) < MaxEvaluations
  /\ job' = [job EXCEPT ![r] = [Idle EXCEPT !.op = kind, !.pc = "judge", !.passing = passingScore]]
  /\ UNCHANGED <<passingScore, evaluations, disputes, crossed>>
\* evaluateConversation and manualEvaluation: the row and its scores in one transaction;
\* a person's total is not capped.
Evaluates(r) ==
  /\ job[r].pc = "judge"
  /\ \E marks \in [DOMAIN Criteria -> Marks] :
       LET total == IF job[r].op = "ai" THEN Overall(marks) ELSE Weighted(marks) IN
       evaluations' = Append(evaluations,
         [kind |-> job[r].op, marks |-> marks, score |-> total, passed |-> total >= job[r].passing,
          status |-> "final"])
  /\ job' = [job EXCEPT ![r] = Idle]
  /\ UNCHANGED <<passingScore, disputes, crossed>>
UpdateTemplate ==
  /\ passingScore' \in PassingScores \ {passingScore}
  /\ UNCHANGED <<evaluations, disputes, job, crossed>>

Others(r, e) == {q \in Requests \ {r} : job[q].of = e}
Status(e, s) == evaluations' = [evaluations EXCEPT ![e].status = s]
OpenOf(e) == {d \in DOMAIN disputes : disputes[d].of = e /\ disputes[d].open}
\* raiseDispute: the dispute, then the status of the evaluation.
CreatesDispute(r) ==
  /\ job[r] = Idle /\ Len(disputes) < MaxDisputes
  /\ \E e \in DOMAIN evaluations :
       /\ disputes' = Append(disputes, [of |-> e, open |-> TRUE])
       /\ job' = [job EXCEPT ![r] = [Idle EXCEPT !.op = "raise", !.pc = "status", !.of = e]]
       /\ crossed' = IF Others(r, e) # {} \/ OpenOf(e) # {} THEN crossed \cup {e} ELSE crossed
  /\ UNCHANGED <<passingScore, evaluations>>
MarksDisputed(r) ==
  /\ job[r].op = "raise"
  /\ Status(job[r].of, "disputed")
  /\ job' = [job EXCEPT ![r] = Idle]
  /\ UNCHANGED <<passingScore, disputes, crossed>>
\* resolveDispute: the dispute by its id, resolved before or not, then the evaluation,
\* with a passing score read in between when there is a new score.
ResolvesDispute(r) ==
  /\ job[r] = Idle
  /\ \E d \in DOMAIN disputes, s \in Marks \cup {None} :
       /\ disputes' = [disputes EXCEPT ![d].open = FALSE]
       /\ job' = [job EXCEPT ![r] = [Idle EXCEPT !.op = "resolve", !.of = disputes[d].of, !.score = s,
                                      !.pc = IF s = None THEN "final" ELSE "template"]]
       /\ LET e == disputes[d].of IN
          crossed' = IF Others(r, e) # {} \/ OpenOf(e) \ {d} # {} THEN crossed \cup {e} ELSE crossed
  /\ UNCHANGED <<passingScore, evaluations>>
ReadsPassingScore(r) ==
  /\ job[r].pc = "template"
  /\ job' = [job EXCEPT ![r].pc = "score", ![r].passing = passingScore]
  /\ UNCHANGED <<passingScore, evaluations, disputes, crossed>>
Rescored(e, score, passing) ==
  [e EXCEPT !.score = score, !.passed = score >= passing, !.status = "final"]
WritesScore(r) ==
  /\ job[r].pc = "score"
  /\ evaluations' = [evaluations EXCEPT ![job[r].of] = Rescored(@, job[r].score, job[r].passing)]
  /\ job' = [job EXCEPT ![r] = Idle]
  /\ UNCHANGED <<passingScore, disputes, crossed>>
\* Mutant: without a new score the evaluation is left as it is.
LeavesStatus(e) == e
Finalises(e) == [e EXCEPT !.status = "final"]
WritesFinal(r) ==
  /\ job[r].pc = "final"
  /\ evaluations' = [evaluations EXCEPT ![job[r].of] = Finalises(@)]
  /\ job' = [job EXCEPT ![r] = Idle]
  /\ UNCHANGED <<passingScore, disputes, crossed>>

Next ==
  \/ UpdateTemplate
  \/ \E r \in Requests :
       \/ \E kind \in {"ai", "manual"} : ReadsTemplate(r, kind)
       \/ Evaluates(r) \/ CreatesDispute(r) \/ MarksDisputed(r) \/ ResolvesDispute(r)
       \/ ReadsPassingScore(r) \/ WritesScore(r) \/ WritesFinal(r)
Spec == Init /\ [][Next]_vars
-----------------------------------------------------------------------------
\* An evaluation is disputed exactly as long as one of its disputes is open, when
\* requests about it do not cross and no dispute is raised or resolved beside an open one.
StatusFollowsDisputes ==
  \A e \in DOMAIN evaluations :
    (evaluations[e].status = "disputed" <=> OpenOf(e) # {})
    \/ e \in crossed \/ \E r \in Requests : job[r].of = e

\* Whatever the other criteria earn, a failed critical one keeps the score of an
\* evaluation by the model below 50, until a person resolves a dispute otherwise.
CriticalIsNotAveragedAway ==
  \A e \in DOMAIN evaluations :
    /\ evaluations[e].kind = "ai" /\ ~ \E d \in DOMAIN disputes : disputes[d].of = e
    /\ FailedCritical(evaluations[e].marks) # {}
    => evaluations[e].score < 50
=============================================================================
