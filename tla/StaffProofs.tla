---------------------------- MODULE StaffProofs ----------------------------
(***************************************************************************)
(* Proofs about who may do what, for any number of requests, users, texts, *)
(* graphs, roles, plans and keys: what publication keeps although every    *)
(* handler acts on what it read several statements ago, what plans and     *)
(* single sign-on bind, and whom the guard lets in.                        *)
(***************************************************************************)
EXTENDS MCStaff, FiniteSetTheorems, SequenceTheorems, TLAPS

-----------------------------------------------------------------------------
(* The inductive invariant of the workflow.                                *)

\* What a builder's request relies on until it writes.
BuildOK(r) ==
  /\ r.pc # "idle" => r.seen \in 1..WLatest
  /\ r.pc = "save" => r.graph \in Graphs
  /\ r.pc = "save" /\ r.wasPublished => wver[r.seen].published

WPointer == WLatest >= 1 /\ wactive \in 0..WLatest /\ (wactive # 0 => wver[wactive].published)

\* No save holds a frozen version as its draft: that keeps the freeze inductive.
WFrozenOK ==
  \A f \in wfrozen : /\ f[1] \in 1..WLatest
                     /\ wver[f[1]].published /\ wver[f[1]].graph = f[2]
                     /\ ~EditInFlight(f[1])

WInv ==
  /\ WTypeOK
  /\ \A i \in Builders : BuildOK(build[i])
  /\ WPointer
  /\ OnlyLastIsDraft
  /\ WFrozenOK

USE AgentReleaseAssumption, WorkflowVersionsAssumption
    DEF AgentReleaseAssumption, WorkflowVersionsAssumption

LEMMA WInitEstablishes == WInit => WInv
<1> SUFFICES ASSUME WInit PROVE WInv
  OBVIOUS
<1>1. PICK g \in Graphs : wver = <<[graph |-> g, published |-> FALSE]>>
  BY DEF WInit
<1>2. wver \in Seq(WVersion) /\ Len(wver) = 1
  BY <1>1 DEF WVersion
<1>3. NoBuild \in Build
  BY DEF NoBuild, Build
<1>4. WTypeOK
  <2>1. 0 \in Nat /\ 0 \in 0..MaxRequests
    OBVIOUS
  <2>2. build \in [Builders -> Build]
    BY <1>3 DEF WInit
  <2> QED BY <1>2, <2>1, <2>2 DEF WInit, WTypeOK
<1>5. \A i \in Builders : BuildOK(build[i])
  BY DEF WInit, BuildOK, NoBuild
<1>6. WPointer /\ OnlyLastIsDraft /\ WFrozenOK
  BY <1>2 DEF WInit, WPointer, OnlyLastIsDraft, WFrozenOK, WLatest
<1> QED BY <1>4, <1>5, <1>6 DEF WInv

\* A request that only moves itself, to a state that fits, disturbs nothing.
LEMMA BuildMoves ==
  ASSUME WInv, NEW i \in Builders, NEW r \in Build, build' = [build EXCEPT ![i] = r],
         UNCHANGED kept, asked' \in 0..MaxRequests, BuildOK(r),
         r.pc = "save" /\ ~r.wasPublished => ~wver[r.seen].published
  PROVE  WInv'
<1> USE DEF kept
<1>1. \A j \in Builders : build'[j] = IF j = i THEN r ELSE build[j]
  BY DEF WInv, WTypeOK
<1>2. WTypeOK'
  BY DEF WInv, WTypeOK
<1>3. (\A j \in Builders : BuildOK(build[j]))'
  BY <1>1 DEF WInv, BuildOK, WLatest
<1>4. WFrozenOK'
  BY <1>1 DEF WInv, WFrozenOK, EditInFlight, WLatest
<1>5. WPointer' /\ OnlyLastIsDraft'
  BY DEF WInv, WPointer, OnlyLastIsDraft, WLatest
<1> QED BY <1>2, <1>3, <1>4, <1>5 DEF WInv

LEMMA BuildReads ==
  ASSUME WInv, NEW i \in Builders, NEW pc \in {"save", "publish", "delete"},
         NEW g \in Graphs \cup {NoGraph}, pc = "save" => g \in Graphs, ReadsLatest(i, pc, g)
  PROVE  WInv'
<1> DEFINE r == [pc |-> pc, seen |-> WLatest, wasPublished |-> wver[WLatest].published,
                 graph |-> g]
<1>1. WLatest \in 1..WLatest /\ WLatest \in Nat /\ wver[WLatest] \in WVersion
  BY DEF WInv, WTypeOK, WPointer, WLatest
<1>2. r \in Build
  BY <1>1 DEF Build, WVersion
<1>3. BuildOK(r)
  BY <1>1 DEF BuildOK
<1>4. asked' \in 0..MaxRequests
  BY DEF WInv, WTypeOK, ReadsLatest, Asks
<1>5. /\ build' = [build EXCEPT ![i] = r] /\ UNCHANGED kept
      /\ r.pc = "save" /\ ~r.wasPublished => ~wver[r.seen].published
  BY DEF ReadsLatest
<1> HIDE DEF r
<1> QED BY <1>2, <1>3, <1>4, <1>5, BuildMoves

LEMMA BuildEndsKeeps ==
  ASSUME WInv, NEW i \in Builders, BuildEnds(i), UNCHANGED kept
  PROVE  WInv'
<1>1. NoBuild \in Build /\ BuildOK(NoBuild) /\ NoBuild.pc = "idle"
  BY DEF NoBuild, Build, BuildOK
<1>2. asked' \in 0..MaxRequests
  BY DEF BuildEnds, WInv, WTypeOK
<1> QED BY <1>1, <1>2, BuildMoves DEF BuildEnds

\* A request that ends leaves the others where they were.
LEMMA OthersStay ==
  ASSUME WInv, NEW i \in Builders, BuildEnds(i)
  PROVE  /\ \A j \in Builders : build'[j] = IF j = i THEN NoBuild ELSE build[j]
         /\ build' \in [Builders -> Build] /\ asked' \in 0..MaxRequests
<1>1. NoBuild \in Build
  BY DEF NoBuild, Build
<1> QED BY <1>1 DEF WInv, WTypeOK, BuildEnds

LEMMA SaveInPlaceKeeps == ASSUME WInv, NEW i \in Builders, SaveInPlace(i) PROVE WInv'
<1> DEFINE v == build[i].seen
           g == build[i].graph
<1>1. v \in 1..WLatest /\ g \in Graphs /\ EditInFlight(v)
  BY DEF SaveInPlace, WInv, BuildOK, EditInFlight
<1>2. wver \in Seq(WVersion) /\ wver[v] \in WVersion
  BY <1>1 DEF WInv, WTypeOK, WLatest
<1>3. wver' = [wver EXCEPT ![v] = [wver[v] EXCEPT !.graph = g]]
  BY DEF SaveInPlace
<1>4. [wver[v] EXCEPT !.graph = g] \in WVersion
  BY <1>1, <1>2 DEF WVersion
<1> HIDE DEF v, g
<1>5. wver' \in Seq(WVersion) /\ Len(wver') = Len(wver)
  BY <1>1, <1>2, <1>3, <1>4 DEF WLatest
<1>6. \A w \in 1..Len(wver) : /\ wver'[w].published = wver[w].published
                              /\ w # v => wver'[w] = wver[w]
  BY <1>1, <1>2, <1>3 DEF WLatest, WVersion
<1>7. UNCHANGED <<wactive, wgone, wfrozen>> /\ BuildEnds(i)
  BY DEF SaveInPlace
<1>8. WTypeOK'
  BY <1>5, <1>7, OthersStay DEF WTypeOK, WInv
<1>9. (\A j \in Builders : BuildOK(build[j]))'
  BY <1>5, <1>6, <1>7, OthersStay DEF BuildOK, WInv, NoBuild, WLatest
<1>10. WPointer' /\ OnlyLastIsDraft'
  BY <1>5, <1>6, <1>7 DEF WInv, WPointer, OnlyLastIsDraft, WLatest
<1>11. WFrozenOK'
  <2> SUFFICES ASSUME NEW f \in wfrozen
               PROVE  /\ f[1] \in 1..Len(wver')
                      /\ wver'[f[1]].published /\ wver'[f[1]].graph = f[2]
                      /\ ~EditInFlight(f[1])'
    BY <1>7 DEF WFrozenOK, WLatest
  <2>1. f[1] \in 1..Len(wver) /\ wver[f[1]].published /\ wver[f[1]].graph = f[2]
        /\ ~EditInFlight(f[1])
    BY DEF WInv, WFrozenOK, WLatest
  <2>2. f[1] # v
    BY <1>1, <2>1
  <2>3. ~EditInFlight(f[1])'
    BY <1>7, <2>1, OthersStay DEF EditInFlight, NoBuild
  <2> QED BY <1>5, <1>6, <2>1, <2>2, <2>3
<1> QED BY <1>8, <1>9, <1>10, <1>11 DEF WInv

LEMMA SaveNextKeeps == ASSUME WInv, NEW i \in Builders, SaveNext(i) PROVE WInv'
<1> DEFINE n == [graph |-> build[i].graph, published |-> FALSE]
<1>1. build[i].seen = WLatest /\ wver[WLatest].published /\ n \in WVersion
  BY DEF SaveNext, WInv, BuildOK, WVersion
<1>2. wver \in Seq(WVersion) /\ Len(wver) \in Nat /\ wver' = Append(wver, n)
  BY DEF WInv, WTypeOK, SaveNext
<1> HIDE DEF n
<1>3. /\ wver' \in Seq(WVersion) /\ Len(wver') = Len(wver) + 1
      /\ \A w \in 1..Len(wver) : wver'[w] = wver[w]
  BY <1>1, <1>2
<1>4. UNCHANGED <<wactive, wgone, wfrozen>> /\ BuildEnds(i)
  BY DEF SaveNext
<1>5. WTypeOK'
  BY <1>3, <1>4, OthersStay DEF WTypeOK, WInv
<1>6. (\A j \in Builders : BuildOK(build[j]))'
  BY <1>2, <1>3, <1>4, OthersStay DEF BuildOK, WInv, NoBuild, WLatest
<1>7. WPointer' /\ OnlyLastIsDraft'
  BY <1>1, <1>2, <1>3, <1>4 DEF WInv, WPointer, OnlyLastIsDraft, WLatest
<1>8. WFrozenOK'
  BY <1>2, <1>3, <1>4, OthersStay DEF WInv, WFrozenOK, EditInFlight, NoBuild, WLatest
<1> QED BY <1>5, <1>6, <1>7, <1>8 DEF WInv

LEMMA PublishCommitsKeeps == ASSUME WInv, NEW i \in Builders, PublishCommits(i) PROVE WInv'
<1> DEFINE v == build[i].seen
<1>1. v \in 1..WLatest
  BY DEF PublishCommits, WInv, BuildOK
<1>2. wver \in Seq(WVersion) /\ wver[v] \in WVersion /\ Len(wver) \in Nat
  BY <1>1 DEF WInv, WTypeOK, WLatest
<1>3. wver' = [wver EXCEPT ![v] = [wver[v] EXCEPT !.published = TRUE]]
  BY DEF PublishCommits
<1>4. [wver[v] EXCEPT !.published = TRUE] \in WVersion
  BY <1>2 DEF WVersion
<1>5. /\ wactive' = v
      /\ wfrozen' = IF wver[v].published \/ EditInFlight(v)
                    THEN wfrozen ELSE wfrozen \cup {<<v, wver[v].graph>>}
      /\ BuildEnds(i) /\ UNCHANGED wgone
  BY DEF PublishCommits
<1> HIDE DEF v
<1>6. wver' \in Seq(WVersion) /\ Len(wver') = Len(wver)
  BY <1>1, <1>2, <1>3, <1>4 DEF WLatest
<1>7. \A w \in 1..Len(wver) : /\ wver'[w].graph = wver[w].graph
                              /\ wver[w].published => wver'[w].published
                              /\ wver'[v].published
  BY <1>1, <1>2, <1>3 DEF WLatest, WVersion
<1>8. WTypeOK'
  <2>1. wver[v].graph \in Graphs
    BY <1>2 DEF WVersion
  <2>2. wfrozen' \subseteq Nat \X Graphs
    BY <1>1, <1>2, <1>5, <2>1 DEF WInv, WTypeOK, WLatest
  <2> QED BY <1>1, <1>2, <1>5, <1>6, <2>2, OthersStay DEF WTypeOK, WInv, WLatest
<1>9. (\A j \in Builders : BuildOK(build[j]))'
  BY <1>5, <1>6, <1>7, OthersStay DEF BuildOK, WInv, NoBuild, WLatest
<1>10. WPointer' /\ OnlyLastIsDraft'
  BY <1>1, <1>2, <1>5, <1>6, <1>7 DEF WInv, WPointer, OnlyLastIsDraft, WLatest
<1>11. WFrozenOK'
  <2> SUFFICES ASSUME NEW f \in wfrozen'
               PROVE  /\ f[1] \in 1..Len(wver')
                      /\ wver'[f[1]].published /\ wver'[f[1]].graph = f[2]
                      /\ ~EditInFlight(f[1])'
    BY DEF WFrozenOK, WLatest
  <2>1. \A w : ~EditInFlight(w) => ~EditInFlight(w)'
    BY <1>5, OthersStay DEF EditInFlight, NoBuild
  <2>2. CASE f \in wfrozen
    <3>1. f[1] \in 1..Len(wver) /\ wver[f[1]].published /\ wver[f[1]].graph = f[2]
          /\ ~EditInFlight(f[1])
      BY <2>2 DEF WInv, WFrozenOK, WLatest
    <3> QED BY <1>6, <1>7, <2>1, <3>1
  <2>3. CASE f \notin wfrozen
    <3>1. ~EditInFlight(v) /\ f = <<v, wver[v].graph>>
      BY <1>5, <2>3
    <3> QED BY <1>1, <1>6, <1>7, <2>1, <3>1 DEF WLatest
  <2> QED BY <2>2, <2>3
<1> QED BY <1>8, <1>9, <1>10, <1>11 DEF WInv

LEMMA DeleteKeeps == ASSUME WInv, NEW i \in Builders, DeleteCommits(i) PROVE WInv'
<1>1. wgone' = TRUE /\ BuildEnds(i) /\ UNCHANGED <<wver, wactive, wfrozen>>
  BY DEF DeleteCommits
<1>2. WTypeOK'
  BY <1>1, OthersStay DEF WTypeOK, WInv
<1>3. (\A j \in Builders : BuildOK(build[j]))'
  BY <1>1, OthersStay DEF BuildOK, WInv, NoBuild, WLatest
<1>4. WPointer' /\ OnlyLastIsDraft' /\ WFrozenOK'
  BY <1>1, OthersStay DEF WInv, WPointer, OnlyLastIsDraft, WFrozenOK, EditInFlight, NoBuild,
     WLatest
<1> QED BY <1>2, <1>3, <1>4 DEF WInv

LEMMA BuildStepKeeps ==
  ASSUME WInv, NEW i \in Builders, NEW u \in BOOLEAN, BuildStep(i, u)
  PROVE  WInv'
<1> USE DEF kept
<1>1. CASE SaveReads(i)
  BY <1>1, BuildReads DEF SaveReads
<1>2. CASE PublishReads(i) \/ CountsUses(i, u)
  BY <1>2, BuildReads DEF PublishReads, CountsUses
<1>3. CASE SaveRefused(i) \/ PublishRefused(i)
  BY <1>3, BuildEndsKeeps DEF SaveRefused, PublishRefused
<1> QED BY <1>1, <1>2, <1>3, SaveInPlaceKeeps, SaveNextKeeps, PublishCommitsKeeps, DeleteKeeps
        DEF BuildStep

LEMMA WStutters == ASSUME WInv, UNCHANGED wfVars, asked' \in 0..MaxRequests PROVE WInv'
<1> USE DEF wfVars
<1>1. WTypeOK'
  BY DEF WTypeOK, WInv
<1>2. (\A j \in Builders : BuildOK(build[j]))'
  BY DEF BuildOK, WInv, WLatest
<1>3. WPointer' /\ OnlyLastIsDraft' /\ WFrozenOK'
  BY DEF WInv, WPointer, OnlyLastIsDraft, WFrozenOK, EditInFlight, WLatest
<1> QED BY <1>1, <1>2, <1>3 DEF WInv

-----------------------------------------------------------------------------
(* The inductive invariant of the agent.                                   *)

Publishing == {"workflow", "gates", "approve", "commit"}

\* What an operator's request relies on until its next statement.
OpOK(r) ==
  /\ r.pc \in {"edit", "fork", "point", "answer", "score"} \cup Publishing
       => r.seen \in 1..Latest
  /\ r.pc \in {"edit", "fork", "answer", "score"} => r.text \in Texts
  /\ r.pc \in {"fork"} \cup Publishing => r.who \in Users
  /\ r.pc = "point" => ~ver[r.seen].published /\ agent.draft # r.seen
  /\ r.pc = "commit" /\ FourEyes => ver[r.seen].author # r.who

\* A run of a version that no run (of those in T) took as a draft read it published.
AnswerOK(r, T) ==
  r.pc \in {"answer", "score"} /\ r.seen \notin T =>
    /\ ver[r.seen].published
    /\ \A f \in frozen : f[1] = r.seen => r.text = f[2]

\* A version that a fork has still to point at is nobody else's business yet.
PointsApart ==
  \A i, j \in Operators :
    i # j /\ At(i, "point") /\ op[j].pc \in {"point"} \cup Publishing =>
      op[i].seen # op[j].seen

Pointers ==
  /\ Latest \in 1..MaxVersions
  /\ agent.active \in 0..Latest /\ agent.draft \in 0..Latest
  /\ agent.active # 0 => ver[agent.active].published
  /\ DraftIsUnpublished

FrozenOK ==
  \A f \in frozen : /\ f[1] \in 1..Latest
                    /\ ver[f[1]].published /\ ver[f[1]].text = f[2]
                    /\ ~EditHolds(f[1])

\* What was never run as a draft has no inline workflow before it is published.
InlineOK ==
  \A v \in 1..MaxVersions \ tried :
    /\ inline[v] = NoText \/ (v <= Latest /\ ver[v].published)
    /\ \A f \in frozen : f[1] = v => inline[v] \in {NoText, f[2]}

AInv ==
  /\ ATypeOK
  /\ \A i \in Operators : OpOK(op[i]) /\ AnswerOK(op[i], tried)
  /\ PointsApart
  /\ Pointers
  /\ FrozenOK
  /\ InlineOK
  /\ SecondPerson

LEMMA NoOpIsOp == NoOp \in Op /\ NoOp.pc = "idle"
  BY DEF NoOp, Op, PC

\* The types of the states a request goes to.
LEMMA EditOps ==
  ASSUME NEW p \in PC, NEW u \in Users \cup {NoOne}, NEW v \in Nat, NEW t \in Texts
  PROVE  [NoOp EXCEPT !.pc = p, !.who = u, !.seen = v, !.text = t] \in Op
  BY DEF NoOp, Op

LEMMA PublishOps ==
  ASSUME NEW p \in PC, NEW u \in Users, NEW v \in Nat, NEW b \in BOOLEAN
  PROVE  [NoOp EXCEPT !.pc = p, !.who = u, !.seen = v, !.production = b] \in Op
  BY DEF NoOp, Op

LEMMA RunOps ==
  ASSUME NEW p \in PC, NEW v \in Nat, NEW t \in Texts
  PROVE  [NoOp EXCEPT !.pc = p, !.seen = v, !.text = t] \in Op
  BY DEF NoOp, Op

LEMMA PointOps ==
  ASSUME NEW p \in PC, NEW v \in Nat
  PROVE  [NoOp EXCEPT !.pc = p, !.seen = v] \in Op
  BY DEF NoOp, Op

LEMMA VerdictOps ==
  ASSUME NEW p \in PC, NEW b \in BOOLEAN
  PROVE  [NoOp EXCEPT !.pc = p, !.verdict = b] \in Op
  BY DEF NoOp, Op

LEMMA LaterOps ==
  ASSUME NEW r \in Op, NEW p \in PC
  PROVE  [r EXCEPT !.pc = p] \in Op
  BY DEF Op

LEMMA ScoreOps ==
  ASSUME NEW r \in Op, NEW p \in PC, NEW v \in Nat, NEW t \in Texts
  PROVE  [r EXCEPT !.pc = p, !.seen = v, !.text = t] \in Op
  BY DEF Op

\* A request that only moves itself: it may have run a version meanwhile.
LEMMA OpMoves ==
  ASSUME AInv, NEW i \in Operators, NEW r \in Op, op' = [op EXCEPT ![i] = r],
         UNCHANGED <<ver, agent, inline, frozen>>,
         tried \subseteq tried', tried' \subseteq Nat,
         gate' \in [by : Operators \cup {NoOne}, of : Nat, passed : BOOLEAN],
         OpOK(r), AnswerOK(r, tried'), r.pc # "point", r.pc = "edit" => ~ver[r.seen].published,
         r.pc \in Publishing => \A j \in Operators : At(j, "point") => op[j].seen # r.seen
  PROVE  AInv'
<1>1. \A j \in Operators : op'[j] = IF j = i THEN r ELSE op[j]
  BY DEF AInv, ATypeOK
<1>2. ATypeOK'
  BY DEF AInv, ATypeOK
<1>3. (\A j \in Operators : OpOK(op[j]) /\ AnswerOK(op[j], tried))'
  <2> SUFFICES ASSUME NEW j \in Operators PROVE (OpOK(op[j]) /\ AnswerOK(op[j], tried))'
    OBVIOUS
  <2>1. OpOK(op'[j]) /\ AnswerOK(op'[j], tried')
    <3>1. CASE j = i
      BY <1>1, <3>1
    <3>2. CASE j # i
      <4>1. op'[j] = op[j] /\ OpOK(op[j]) /\ AnswerOK(op[j], tried)
        BY <1>1, <3>2 DEF AInv
      <4> QED BY <4>1 DEF AnswerOK
    <3> QED BY <3>1, <3>2
  <2> QED BY <2>1 DEF OpOK, AnswerOK, Latest
<1>4. PointsApart'
  BY <1>1 DEF AInv, PointsApart, At, Publishing
<1>5. FrozenOK'
  BY <1>1 DEF AInv, FrozenOK, EditHolds, At, Latest
<1>6. Pointers' /\ SecondPerson'
  BY DEF AInv, Pointers, DraftIsUnpublished, SecondPerson, Latest
<1>7. InlineOK'
  BY DEF AInv, InlineOK, Latest
<1> QED BY <1>2, <1>3, <1>4, <1>5, <1>6, <1>7 DEF AInv

LEMMA OpEndsKeeps ==
  ASSUME AInv, NEW i \in Operators, op' = [op EXCEPT ![i] = NoOp],
         UNCHANGED <<ver, agent, inline, history>>,
         gate' \in [by : Operators \cup {NoOne}, of : Nat, passed : BOOLEAN]
  PROVE  AInv'
<1>1. OpOK(NoOp) /\ AnswerOK(NoOp, tried')
  BY NoOpIsOp DEF OpOK, AnswerOK, Publishing
<1> QED BY <1>1, NoOpIsOp, OpMoves DEF history, AInv, ATypeOK, Publishing

-----------------------------------------------------------------------------
(* The operator's actions.                                                 *)

LEMMA EditReadsKeeps == ASSUME AInv, NEW i \in Operators, EditReads(i) PROVE AInv'
<1> DEFINE d == agent.draft
           drafting == Listed(d) /\ ~ver[d].published
<1>1. PICK u \in Users, t \in Texts :
        /\ Begins(i, [NoOp EXCEPT !.pc = IF drafting THEN "edit" ELSE "fork",
                                  !.who = IF drafting THEN NoOne ELSE u,
                                  !.seen = IF drafting THEN d ELSE Latest, !.text = t])
        /\ UNCHANGED history
  BY DEF EditReads
<1> DEFINE r == [NoOp EXCEPT !.pc = IF drafting THEN "edit" ELSE "fork",
                             !.who = IF drafting THEN NoOne ELSE u,
                             !.seen = IF drafting THEN d ELSE Latest, !.text = t]
<1>2. Latest \in 1..MaxVersions /\ d \in 0..Latest /\ (drafting => d \in 1..Latest)
  BY DEF AInv, Pointers, Listed
<1>3. /\ r.pc \in {"edit", "fork"} /\ r.text = t /\ (r.pc = "fork" => r.who = u)
      /\ r.seen \in 1..Latest /\ (r.pc = "edit" => ~ver[r.seen].published)
  BY <1>2 DEF NoOp
<1>4. r \in Op
  <2>1. /\ (IF drafting THEN "edit" ELSE "fork") \in PC
        /\ (IF drafting THEN NoOne ELSE u) \in Users \cup {NoOne}
        /\ (IF drafting THEN d ELSE Latest) \in Nat
    BY <1>2 DEF PC
  <2> QED BY <2>1, EditOps
<1>5. op' = [op EXCEPT ![i] = r] /\ UNCHANGED <<ver, agent, inline, gate, frozen, tried>>
  BY <1>1 DEF Begins, history
<1> HIDE DEF r
<1>6. OpOK(r) /\ AnswerOK(r, tried')
  BY <1>3 DEF OpOK, AnswerOK, Publishing
<1> QED BY <1>3, <1>4, <1>5, <1>6, OpMoves DEF AInv, ATypeOK, Publishing

LEMMA EditInPlaceKeeps == ASSUME AInv, NEW i \in Operators, EditInPlace(i) PROVE AInv'
<1> DEFINE v == op[i].seen
           t == op[i].text
<1>1. v \in 1..Len(ver) /\ t \in Texts /\ EditHolds(v)
  BY DEF EditInPlace, AInv, OpOK, EditHolds, At, Latest
<1>2. ver \in Seq(Version) /\ ver[v] \in Version
  BY <1>1 DEF AInv, ATypeOK
<1>3. ver' = [ver EXCEPT ![v] = [ver[v] EXCEPT !.text = t]]
  BY DEF EditInPlace
<1>4. [ver[v] EXCEPT !.text = t] \in Version
  BY <1>1, <1>2 DEF Version
<1>5. /\ UNCHANGED <<agent, inline, gate, frozen, tried, asked>>
      /\ op' = [op EXCEPT ![i] = NoOp]
  BY DEF EditInPlace, OpEnds, OpBecomes, history
<1> HIDE DEF v, t
<1>6. ver' \in Seq(Version) /\ Len(ver') = Len(ver)
  BY <1>1, <1>2, <1>3, <1>4
<1>7. \A w \in 1..Len(ver) :
        /\ ver'[w].published = ver[w].published /\ ver'[w].author = ver[w].author
        /\ ver'[w].publisher = ver[w].publisher /\ (w # v => ver'[w] = ver[w])
  BY <1>1, <1>2, <1>3 DEF Version
<1>8. \A j \in Operators : op'[j] = IF j = i THEN NoOp ELSE op[j]
  BY <1>5 DEF AInv, ATypeOK
<1>9. ATypeOK'
  BY <1>5, <1>6, NoOpIsOp DEF AInv, ATypeOK
<1>10. (\A j \in Operators : OpOK(op[j]) /\ AnswerOK(op[j], tried))'
  <2> SUFFICES ASSUME NEW j \in Operators PROVE (OpOK(op[j]) /\ AnswerOK(op[j], tried))'
    OBVIOUS
  <2>1. CASE j = i
    BY <1>8, <2>1, NoOpIsOp DEF OpOK, AnswerOK, Publishing
  <2>2. CASE j # i
    <3>1. op'[j] = op[j] /\ OpOK(op[j]) /\ AnswerOK(op[j], tried)
      BY <1>8, <2>2 DEF AInv
    <3> QED BY <1>5, <1>6, <1>7, <3>1 DEF OpOK, AnswerOK, Latest, Publishing
  <2> QED BY <2>1, <2>2
<1>11. PointsApart'
  BY <1>8, NoOpIsOp DEF AInv, PointsApart, At, Publishing
<1>12. Pointers' /\ SecondPerson'
  BY <1>5, <1>6, <1>7 DEF AInv, Pointers, DraftIsUnpublished, SecondPerson, Latest
<1>13. FrozenOK'
  <2> SUFFICES ASSUME NEW f \in frozen
               PROVE  /\ f[1] \in 1..Len(ver') /\ ver'[f[1]].published
                      /\ ver'[f[1]].text = f[2] /\ ~EditHolds(f[1])'
    BY <1>5 DEF FrozenOK, Latest
  <2>1. /\ f[1] \in 1..Len(ver) /\ ver[f[1]].published
        /\ ver[f[1]].text = f[2] /\ ~EditHolds(f[1])
    BY DEF AInv, FrozenOK, Latest
  <2>2. f[1] # v
    BY <1>1, <2>1
  <2>3. ~EditHolds(f[1])'
    BY <1>8, <2>1, NoOpIsOp DEF EditHolds, At
  <2> QED BY <1>6, <1>7, <2>1, <2>2, <2>3
<1>14. InlineOK'
  BY <1>5, <1>6, <1>7 DEF AInv, InlineOK, Latest
<1> QED BY <1>9, <1>10, <1>11, <1>12, <1>13, <1>14 DEF AInv

LEMMA ForkCreatesKeeps == ASSUME AInv, NEW i \in Operators, ForkCreates(i) PROVE AInv'
<1> DEFINE n == Draft(op[i].text, op[i].who)
           r == [NoOp EXCEPT !.pc = "point", !.seen = Latest + 1]
<1>1. ver \in Seq(Version) /\ Len(ver) \in 1..MaxVersions /\ Len(ver) < MaxVersions
  BY DEF AInv, ATypeOK, Pointers, Latest, ForkCreates
<1>2. n \in Version /\ ~n.published /\ n.publisher = NoOne /\ n.author \in Users
  BY DEF ForkCreates, AInv, OpOK, At, Draft, Version
<1>3. r \in Op /\ r.pc = "point" /\ r.seen = Len(ver) + 1
  <2>1. "point" \in PC /\ Latest + 1 \in Nat
    BY <1>1 DEF PC, Latest
  <2>2. r \in Op
    BY <2>1, PointOps
  <2> QED BY <2>2 DEF NoOp, Latest
<1>4. /\ ver' = Append(ver, n) /\ op' = [op EXCEPT ![i] = r]
      /\ UNCHANGED <<agent, inline, gate, frozen, tried>>
  BY DEF ForkCreates, OpBecomes, history
<1> HIDE DEF n, r
<1>5. /\ ver' \in Seq(Version) /\ Len(ver') = Len(ver) + 1
      /\ ver'[Len(ver) + 1] = n /\ \A w \in 1..Len(ver) : ver'[w] = ver[w]
  BY <1>1, <1>2, <1>4
<1>6. \A j \in Operators : op'[j] = IF j = i THEN r ELSE op[j]
  BY <1>4 DEF AInv, ATypeOK
<1>7. \A j \in Operators :
        op[j].pc \in {"point"} \cup Publishing => op[j].seen \in 1..Len(ver)
  BY DEF AInv, OpOK, Latest
<1>8. ATypeOK'
  BY <1>3, <1>4, <1>5 DEF AInv, ATypeOK
<1>9. agent.draft \in 0..Len(ver) /\ agent.active \in 0..Len(ver)
  BY DEF AInv, Pointers, Latest
<1>10. (\A j \in Operators : OpOK(op[j]) /\ AnswerOK(op[j], tried))'
  <2> SUFFICES ASSUME NEW j \in Operators PROVE (OpOK(op[j]) /\ AnswerOK(op[j], tried))'
    OBVIOUS
  <2>1. CASE j = i
    <3>1. r.seen \in 1..Len(ver') /\ ~ver'[r.seen].published /\ agent'.draft # r.seen
      BY <1>1, <1>2, <1>3, <1>4, <1>5, <1>9
    <3> QED BY <1>3, <1>6, <2>1, <3>1 DEF OpOK, AnswerOK, Latest, Publishing
  <2>2. CASE j # i
    <3>1. op'[j] = op[j] /\ OpOK(op[j]) /\ AnswerOK(op[j], tried)
      BY <1>6, <2>2 DEF AInv
    <3> QED BY <1>1, <1>4, <1>5, <3>1 DEF OpOK, AnswerOK, Latest, Publishing
  <2> QED BY <2>1, <2>2
<1>11. PointsApart'
  <2> SUFFICES ASSUME NEW j \in Operators, NEW k \in Operators, j # k, op'[j].pc = "point",
                      op'[k].pc \in {"point"} \cup Publishing
               PROVE  op'[j].seen # op'[k].seen
    BY DEF PointsApart, At
  <2> QED BY <1>1, <1>3, <1>6, <1>7 DEF AInv, PointsApart, At
<1>12. Pointers' /\ SecondPerson'
  BY <1>1, <1>2, <1>4, <1>5, <1>9 DEF AInv, Pointers, DraftIsUnpublished, SecondPerson, Latest
<1>13. FrozenOK'
  BY <1>1, <1>3, <1>4, <1>5, <1>6 DEF AInv, FrozenOK, EditHolds, At, Latest
<1>14. InlineOK'
  BY <1>1, <1>4, <1>5 DEF AInv, InlineOK, Latest
<1> QED BY <1>8, <1>10, <1>11, <1>12, <1>13, <1>14 DEF AInv

\* The new draft is unpublished, and no other fork or publication is about it.
LEMMA ForkPointsKeeps == ASSUME AInv, NEW i \in Operators, ForkPoints(i) PROVE AInv'
<1> DEFINE v == op[i].seen
<1>1. v \in 1..Latest /\ ~ver[v].published
  BY DEF ForkPoints, AInv, OpOK, At
<1>2. /\ agent' = [agent EXCEPT !.draft = v] /\ op' = [op EXCEPT ![i] = NoOp]
      /\ UNCHANGED <<ver, inline, gate, frozen, tried>>
  BY DEF ForkPoints, OpEnds, OpBecomes, history
<1>3. \A j \in Operators \ {i} : op[j].pc = "point" => op[j].seen # v
  BY DEF AInv, PointsApart, At, ForkPoints
<1> HIDE DEF v
<1>4. agent \in [active : Nat, draft : Nat] /\ Latest \in Nat
  BY DEF AInv, ATypeOK, Pointers
<1>5. agent'.active = agent.active /\ agent'.draft = v /\ agent' \in [active : Nat, draft : Nat]
  BY <1>1, <1>2, <1>4
<1>6. \A j \in Operators : op'[j] = IF j = i THEN NoOp ELSE op[j]
  BY <1>2 DEF AInv, ATypeOK
<1>7. ATypeOK'
  BY <1>2, <1>5, NoOpIsOp DEF AInv, ATypeOK
<1>8. (\A j \in Operators : OpOK(op[j]) /\ AnswerOK(op[j], tried))'
  <2> SUFFICES ASSUME NEW j \in Operators PROVE (OpOK(op[j]) /\ AnswerOK(op[j], tried))'
    OBVIOUS
  <2>1. CASE j = i
    BY <1>6, <2>1, NoOpIsOp DEF OpOK, AnswerOK, Publishing
  <2>2. CASE j # i
    <3>1. op'[j] = op[j] /\ OpOK(op[j]) /\ AnswerOK(op[j], tried)
      BY <1>6, <2>2 DEF AInv
    <3> QED BY <1>2, <1>3, <1>5, <2>2, <3>1 DEF OpOK, AnswerOK, Latest, Publishing
  <2> QED BY <2>1, <2>2
<1>9. PointsApart'
  BY <1>6, NoOpIsOp DEF AInv, PointsApart, At, Publishing
<1>10. Pointers' /\ SecondPerson'
  BY <1>1, <1>2, <1>5 DEF AInv, Pointers, DraftIsUnpublished, SecondPerson, Latest
<1>11. FrozenOK' /\ InlineOK'
  BY <1>2, <1>6, NoOpIsOp DEF AInv, FrozenOK, EditHolds, InlineOK, At, Latest
<1> QED BY <1>7, <1>8, <1>9, <1>10, <1>11 DEF AInv

LEMMA PublishReadsKeeps == ASSUME AInv, NEW i \in Operators, PublishReadsDraft(i) PROVE AInv'
<1> DEFINE d == agent.draft
<1>1. PICK u \in Users, prod \in BOOLEAN :
        /\ Listed(d)
        /\ Begins(i, [NoOp EXCEPT !.pc = IF ver[d].text \in Flowing THEN "workflow"
                                         ELSE IF prod THEN "gates" ELSE "approve",
                                  !.who = u, !.seen = d, !.production = prod])
        /\ UNCHANGED history
  BY DEF PublishReadsDraft
<1> DEFINE p == IF ver[d].text \in Flowing THEN "workflow"
                ELSE IF prod THEN "gates" ELSE "approve"
           r == [NoOp EXCEPT !.pc = p, !.who = u, !.seen = d, !.production = prod]
<1>2. d \in 1..Latest /\ d \in Nat /\ p \in {"workflow", "gates", "approve"} /\ p \in PC
  BY <1>1 DEF AInv, Pointers, Listed, PC
<1> HIDE DEF p, d
<1>3. r \in Op
  BY <1>2, PublishOps
<1>4. r.pc = p /\ r.who = u /\ r.seen = d
  BY DEF NoOp
<1>5. op' = [op EXCEPT ![i] = r] /\ UNCHANGED <<ver, agent, inline, gate, frozen, tried>>
  BY <1>1 DEF Begins, history, p, d
<1> HIDE DEF r
<1>6. OpOK(r) /\ AnswerOK(r, tried')
  BY <1>2, <1>4 DEF OpOK, AnswerOK, Publishing
<1>7. \A j \in Operators : At(j, "point") => op[j].seen # r.seen
  BY <1>4 DEF AInv, OpOK, At, d
<1> QED BY <1>2, <1>3, <1>4, <1>5, <1>6, <1>7, OpMoves DEF AInv, ATypeOK

\* A check that passes sends the request on, one that fails ends it.
LEMMA CheckKeeps ==
  ASSUME AInv, NEW i \in Operators, NEW p \in Publishing, op[i].pc \in Publishing,
         op' = [op EXCEPT ![i] = [op[i] EXCEPT !.pc = p]],
         UNCHANGED <<ver, agent, inline, gate, history>>,
         p = "commit" /\ FourEyes => ver[op[i].seen].author # op[i].who
  PROVE  AInv'
<1> DEFINE r == [op[i] EXCEPT !.pc = p]
<1>1. op[i] \in Op /\ p \in PC /\ OpOK(op[i])
  BY DEF AInv, ATypeOK, Publishing, PC
<1>2. r \in Op /\ r.pc = p /\ r.seen = op[i].seen /\ r.who = op[i].who
  BY <1>1 DEF Op
<1>3. OpOK(r) /\ AnswerOK(r, tried')
  BY <1>1, <1>2 DEF OpOK, AnswerOK, Publishing
<1>4. \A j \in Operators : At(j, "point") => op[j].seen # r.seen
  BY <1>2 DEF AInv, PointsApart, At, Publishing
<1>5. op' = [op EXCEPT ![i] = r] /\ r.pc \notin {"edit", "point"}
  BY <1>2 DEF Publishing
<1> HIDE DEF r
<1> QED BY <1>2, <1>3, <1>4, <1>5, OpMoves DEF history, AInv, ATypeOK

LEMMA ChecksKeep ==
  ASSUME AInv, NEW i \in Operators, CheckWorkflow(i) \/ CheckGates(i) \/ CheckApproval(i)
  PROVE  AInv'
<1> USE DEF OpEnds, OpGoes, OpBecomes, At
<1>1. CASE CheckWorkflow(i)
  <2>1. CASE op' = [op EXCEPT ![i] = NoOp]
    BY <1>1, <2>1, OpEndsKeeps DEF CheckWorkflow, AInv, ATypeOK
  <2>2. CASE op' # [op EXCEPT ![i] = NoOp]
    <3>1. PICK p \in {"gates", "approve"} : op' = [op EXCEPT ![i] = [op[i] EXCEPT !.pc = p]]
      BY <1>1, <2>2 DEF CheckWorkflow
    <3> QED BY <1>1, <3>1, CheckKeeps DEF CheckWorkflow, Publishing
  <2> QED BY <2>1, <2>2
<1>2. CASE CheckGates(i)
  <2>1. CASE ~gate.passed
    BY <1>2, <2>1, OpEndsKeeps DEF CheckGates, AInv, ATypeOK
  <2>2. CASE gate.passed
    BY <1>2, <2>2, CheckKeeps DEF CheckGates, Publishing
  <2> QED BY <2>1, <2>2
<1>3. CASE CheckApproval(i)
  <2>1. CASE FourEyes /\ ver[op[i].seen].author = op[i].who
    BY <1>3, <2>1, OpEndsKeeps DEF CheckApproval, AInv, ATypeOK
  <2>2. CASE ~(FourEyes /\ ver[op[i].seen].author = op[i].who)
    BY <1>3, <2>2, CheckKeeps DEF CheckApproval, Publishing
  <2> QED BY <2>1, <2>2
<1> QED BY <1>1, <1>2, <1>3

LEMMA PublishDraftKeeps == ASSUME AInv, NEW i \in Operators, PublishDraft(i) PROVE AInv'
<1> DEFINE v == op[i].seen
           w == op[i].who
           n == [ver[v] EXCEPT !.published = TRUE, !.publisher = w,
                               !.production = op[i].production]
<1>1. /\ v \in 1..Len(ver) /\ w \in Users /\ (FourEyes => ver[v].author # w)
      /\ op[i].production \in BOOLEAN
  BY DEF PublishDraft, AInv, ATypeOK, OpOK, Op, At, Latest, Publishing
<1>2. ver \in Seq(Version) /\ ver[v] \in Version
  BY <1>1 DEF AInv, ATypeOK
<1>3. ver' = [ver EXCEPT ![v] = n]
  BY DEF PublishDraft
<1>4. /\ n \in Version /\ n.published /\ n.publisher = w
      /\ n.author = ver[v].author /\ n.text = ver[v].text
  BY <1>1, <1>2 DEF Version
<1>5. /\ agent' = [active |-> v, draft |-> 0] /\ UNCHANGED <<inline, gate, tried>>
      /\ op' = [op EXCEPT ![i] = NoOp]
      /\ frozen' = IF ver[v].published \/ EditHolds(v)
                   THEN frozen ELSE frozen \cup {<<v, ver[v].text>>}
  BY DEF PublishDraft, OpEnds, OpBecomes
<1>6. \A j \in Operators \ {i} : op[j].pc = "point" => op[j].seen # v
  BY DEF AInv, PointsApart, At, PublishDraft, Publishing
<1> HIDE DEF v, w, n
<1>7. ver' \in Seq(Version) /\ Len(ver') = Len(ver) /\ ver'[v] = n
  BY <1>1, <1>2, <1>3, <1>4
<1>8. \A x \in 1..Len(ver) :
        /\ ver'[x].text = ver[x].text /\ ver'[x].author = ver[x].author
        /\ (ver[x].published => ver'[x].published) /\ (x # v => ver'[x] = ver[x])
  BY <1>1, <1>2, <1>3, <1>4
<1>9. \A j \in Operators : op'[j] = IF j = i THEN NoOp ELSE op[j]
  BY <1>5 DEF AInv, ATypeOK
<1>10. ATypeOK'
  <2>1. ver[v].text \in Texts
    BY <1>2 DEF Version
  <2>2. frozen' \subseteq Nat \X Texts
    BY <1>1, <1>5, <2>1 DEF AInv, ATypeOK
  <2> QED BY <1>1, <1>5, <1>7, <2>2, NoOpIsOp DEF AInv, ATypeOK
\* A version not tried has been published before anybody runs it.
<1>11. (\A j \in Operators : OpOK(op[j]) /\ AnswerOK(op[j], tried))'
  <2> SUFFICES ASSUME NEW j \in Operators PROVE (OpOK(op[j]) /\ AnswerOK(op[j], tried))'
    OBVIOUS
  <2>1. CASE j = i
    BY <1>9, <2>1, NoOpIsOp DEF OpOK, AnswerOK, Publishing
  <2>2. CASE j # i
    <3>1. op'[j] = op[j] /\ OpOK(op[j]) /\ AnswerOK(op[j], tried)
      BY <1>9, <2>2 DEF AInv
    <3>2. OpOK(op[j])'
      BY <1>5, <1>6, <1>7, <1>8, <2>2, <3>1 DEF OpOK, Latest, Publishing
    <3>3. ASSUME op[j].pc \in {"answer", "score"}, op[j].seen \notin tried
          PROVE  /\ ver'[op[j].seen].published
                 /\ \A f \in frozen' : f[1] = op[j].seen => op[j].text = f[2]
      <4>1. op[j].seen \in 1..Len(ver) /\ ver[op[j].seen].published
        BY <3>1, <3>3 DEF OpOK, AnswerOK, Latest
      <4>2. \A f \in frozen' : f[1] = op[j].seen => f \in frozen
        BY <1>5, <4>1
      <4> QED BY <1>8, <3>1, <3>3, <4>1, <4>2 DEF AnswerOK
    <3> QED BY <1>5, <3>1, <3>2, <3>3 DEF AnswerOK
  <2> QED BY <2>1, <2>2
<1>12. PointsApart'
  BY <1>9, NoOpIsOp DEF AInv, PointsApart, At, Publishing
<1>13. Pointers'
  BY <1>1, <1>4, <1>5, <1>7 DEF AInv, Pointers, DraftIsUnpublished, Latest
<1>14. SecondPerson'
  BY <1>1, <1>4, <1>7, <1>8 DEF AInv, SecondPerson, Latest
<1>15. FrozenOK'
  <2> SUFFICES ASSUME NEW f \in frozen'
               PROVE  /\ f[1] \in 1..Len(ver') /\ ver'[f[1]].published
                      /\ ver'[f[1]].text = f[2] /\ ~EditHolds(f[1])'
    BY DEF FrozenOK, Latest
  <2>1. \A x : ~EditHolds(x) => ~EditHolds(x)'
    BY <1>9, NoOpIsOp DEF EditHolds, At
  <2>2. CASE f \in frozen
    <3>1. /\ f[1] \in 1..Len(ver) /\ ver[f[1]].published
          /\ ver[f[1]].text = f[2] /\ ~EditHolds(f[1])
      BY <2>2 DEF AInv, FrozenOK, Latest
    <3> QED BY <1>7, <1>8, <2>1, <3>1
  <2>3. CASE f \notin frozen
    <3>1. ~EditHolds(v) /\ f = <<v, ver[v].text>>
      BY <1>5, <2>3
    <3> QED BY <1>1, <1>4, <1>7, <1>8, <2>1, <3>1
  <2> QED BY <2>2, <2>3
<1>16. InlineOK'
  <2> SUFFICES ASSUME NEW x \in 1..MaxVersions, x \notin tried
               PROVE  /\ inline[x] = NoText \/ (x <= Len(ver') /\ ver'[x].published)
                      /\ \A f \in frozen' : f[1] = x => inline[x] \in {NoText, f[2]}
    BY <1>5 DEF InlineOK, Latest
  <2>1. /\ inline[x] = NoText \/ (x <= Len(ver) /\ ver[x].published)
        /\ \A f \in frozen : f[1] = x => inline[x] \in {NoText, f[2]}
    BY DEF AInv, InlineOK, Latest
  <2>2. Len(ver) \in Nat
    BY <1>2
  <2>3. inline[x] = NoText \/ (x <= Len(ver') /\ ver'[x].published)
    BY <1>7, <1>8, <2>1, <2>2
  <2>4. ASSUME NEW f \in frozen', f[1] = x PROVE inline[x] \in {NoText, f[2]}
    <3>1. CASE f \in frozen
      BY <2>1, <2>4, <3>1
    <3>2. CASE f \notin frozen
      BY <1>5, <2>1, <2>4, <3>2
    <3> QED BY <3>1, <3>2
  <2> QED BY <2>3, <2>4
<1> QED BY <1>10, <1>11, <1>12, <1>13, <1>14, <1>15, <1>16 DEF AInv

LEMMA RollbackKeeps == ASSUME AInv, NEW i \in Operators, Rollback(i) PROVE AInv'
<1>1. PICK v \in 1..Latest : ver[v].published /\ agent' = [agent EXCEPT !.active = v]
  BY DEF Rollback
<1>2. UNCHANGED <<ver, op, inline, gate, frozen, tried>>
  BY DEF Rollback, history
<1>3. agent \in [active : Nat, draft : Nat] /\ Latest \in Nat
  BY DEF AInv, ATypeOK, Pointers
<1>4. agent'.active = v /\ agent'.draft = agent.draft /\ agent' \in [active : Nat, draft : Nat]
  BY <1>1, <1>3
<1>5. ATypeOK'
  BY <1>2, <1>4 DEF AInv, ATypeOK
<1>6. (\A j \in Operators : OpOK(op[j]) /\ AnswerOK(op[j], tried))'
  BY <1>2, <1>4 DEF AInv, OpOK, AnswerOK, Latest
<1>7. PointsApart' /\ FrozenOK' /\ InlineOK' /\ SecondPerson'
  BY <1>2 DEF AInv, PointsApart, FrozenOK, EditHolds, InlineOK, SecondPerson, At, Latest
<1>8. Pointers'
  BY <1>1, <1>2, <1>3, <1>4 DEF AInv, Pointers, DraftIsUnpublished, Latest
<1> QED BY <1>5, <1>6, <1>7, <1>8 DEF AInv

-----------------------------------------------------------------------------
(* Runs and evaluations.                                                   *)

LEMMA AnsweringOK ==
  ASSUME AInv, Answering # 0
  PROVE  Answering \in 1..Latest /\ ver[Answering].text \in Texts
<1>1. Answering \in 1..Latest
  BY DEF Answering, Listed, AInv, Pointers
<1>2. ver \in Seq(Version)
  BY DEF AInv, ATypeOK
<1> HIDE DEF Answering
<1>3. ver[Answering] \in Version
  BY <1>1, <1>2 DEF Latest
<1> QED BY <1>1, <1>3 DEF Version

\* A request that has just read the answering version marks it if it is a draft.
LEMMA ReadToAnswer ==
  ASSUME AInv, NEW i \in Operators, NEW r \in Op, r.pc \in {"answer", "score"},
         Answering # 0, r.seen = Answering, r.text = ver[Answering].text,
         op' = [op EXCEPT ![i] = r], MarksTried(Answering),
         UNCHANGED <<ver, agent, inline, gate>>
  PROVE  AInv'
<1> DEFINE v == Answering
<1>1. v \in 1..Latest /\ Latest \in Nat /\ ver[v].text \in Texts
  BY AnsweringOK DEF AInv, Pointers
<1>2. /\ tried' = IF ver[v].published THEN tried ELSE tried \cup {v}
      /\ UNCHANGED frozen
  BY DEF MarksTried
<1> HIDE DEF v
<1>3. r.seen = v /\ r.text = ver[v].text
  BY DEF v
<1>4. tried \subseteq tried' /\ tried' \subseteq Nat
  BY <1>1, <1>2 DEF AInv, ATypeOK
<1>5. OpOK(r)
  BY <1>1, <1>3 DEF OpOK, Publishing
<1>6. AnswerOK(r, tried')
  BY <1>2, <1>3 DEF AnswerOK, AInv, FrozenOK
<1> QED BY <1>2, <1>4, <1>5, <1>6, OpMoves DEF AInv, ATypeOK, Publishing

LEMMA RunReadsKeeps == ASSUME AInv, NEW i \in Operators, RunReads(i) PROVE AInv'
<1> DEFINE v == Answering
           r == [NoOp EXCEPT !.pc = "answer", !.seen = v, !.text = ver[v].text]
<1>1. v # 0 /\ op' = [op EXCEPT ![i] = r] /\ MarksTried(v) /\ UNCHANGED <<ver, agent, inline, gate>>
  BY DEF RunReads, Begins
<1>2. v \in Nat /\ ver[v].text \in Texts /\ "answer" \in PC
  BY <1>1, AnsweringOK DEF AInv, Pointers, PC
<1>3. r \in Op /\ r.pc = "answer" /\ r.seen = v /\ r.text = ver[v].text
  <2> HIDE DEF v
  <2>1. r \in Op
    BY <1>2, RunOps
  <2> QED BY <2>1 DEF NoOp
<1> HIDE DEF r
<1> QED BY <1>1, <1>3, ReadToAnswer

LEMMA EvalStartsKeeps == ASSUME AInv, NEW i \in Operators, EvalStarts(i) PROVE AInv'
<1> DEFINE r == [op[i] EXCEPT !.pc = "case"]
<1>1. op[i] \in Op /\ "case" \in PC
  BY DEF AInv, ATypeOK, PC
<1>2. r \in Op /\ r.pc = "case"
  BY <1>1 DEF Op
<1>3. op' = [op EXCEPT ![i] = r]
  BY DEF EvalStarts
<1>4. Answering \in Nat
  BY AnsweringOK DEF EvalStarts, AInv, Pointers
<1>5. gate' \in [by : Operators \cup {NoOne}, of : Nat, passed : BOOLEAN]
  BY <1>4 DEF EvalStarts
<1>6. UNCHANGED <<ver, agent, inline, frozen, tried>>
  BY DEF EvalStarts, history
<1> HIDE DEF r
<1>7. OpOK(r) /\ AnswerOK(r, tried')
  BY <1>2 DEF OpOK, AnswerOK, Publishing
<1> QED BY <1>2, <1>3, <1>5, <1>6, <1>7, OpMoves DEF AInv, ATypeOK, Publishing

LEMMA EvalReadsKeeps == ASSUME AInv, NEW i \in Operators, EvalReads(i) PROVE AInv'
<1> DEFINE v == Answering
<1>1. op[i] \in Op /\ op[i].pc = "case" /\ {"score", "finish"} \subseteq PC
  BY DEF AInv, ATypeOK, PC, EvalReads, At
<1>2. CASE v = 0
  <2> DEFINE r == [op[i] EXCEPT !.pc = "finish"]
  <2>1. r \in Op /\ r.pc = "finish"
    BY <1>1 DEF Op
  <2>2. op' = [op EXCEPT ![i] = r] /\ UNCHANGED <<ver, agent, inline, gate, frozen, tried>>
    BY <1>2 DEF EvalReads, OpGoes, OpBecomes, history
  <2> HIDE DEF r
  <2>3. OpOK(r) /\ AnswerOK(r, tried')
    BY <2>1 DEF OpOK, AnswerOK, Publishing
  <2> QED BY <2>1, <2>2, <2>3, OpMoves DEF AInv, ATypeOK, Publishing
<1>3. CASE v # 0
  <2> DEFINE r == [op[i] EXCEPT !.pc = "score", !.seen = v, !.text = ver[v].text]
  <2>1. v \in Nat /\ ver[v].text \in Texts
    BY <1>3, AnsweringOK DEF AInv, Pointers
  <2>2. op' = [op EXCEPT ![i] = r] /\ MarksTried(v) /\ UNCHANGED <<ver, agent, inline, gate>>
    BY <1>3 DEF EvalReads, OpBecomes
  <2>3. r \in Op /\ r.pc = "score" /\ r.seen = v /\ r.text = ver[v].text
    <3> HIDE DEF v
    <3>1. r \in Op
      BY <1>1, <2>1, ScoreOps
    <3> QED BY <1>1, <3>1 DEF Op
  <2> HIDE DEF r
  <2> QED BY <1>3, <2>2, <2>3, ReadToAnswer
<1> QED BY <1>2, <1>3

\* Keeping the inline workflow of a version read to be answered, and moving on.
LEMMA Keeps ==
  ASSUME AInv, NEW i \in Operators, NEW r \in Op, r.pc \in {"idle", "finish"},
         NEW v \in 1..Latest, NEW t \in Texts,
         v \notin tried =>
           ver[v].published /\ \A f \in frozen : f[1] = v => t = f[2],
         op' = [op EXCEPT ![i] = r],
         inline' = inline \/ inline' = Kept(v, t),
         UNCHANGED <<ver, agent, gate, frozen, tried>>
  PROVE  AInv'
<1>1. inline \in [1..MaxVersions -> Texts \cup {NoText}] /\ Latest \in 1..MaxVersions
  BY DEF AInv, ATypeOK, Pointers
<1>2. v \in 1..MaxVersions
  BY <1>1
<1>3. /\ inline' \in [1..MaxVersions -> Texts \cup {NoText}]
      /\ \A x \in 1..MaxVersions : x # v => inline'[x] = inline[x]
      /\ inline'[v] \in {inline[v], t} /\ (inline[v] # NoText => inline'[v] = inline[v])
  BY <1>1, <1>2 DEF Kept
<1>4. \A j \in Operators : op'[j] = IF j = i THEN r ELSE op[j]
  BY DEF AInv, ATypeOK
<1>5. ATypeOK'
  BY <1>3 DEF AInv, ATypeOK
<1>6. (\A j \in Operators : OpOK(op[j]) /\ AnswerOK(op[j], tried))'
  BY <1>4 DEF AInv, OpOK, AnswerOK, Publishing, Latest
<1>7. PointsApart' /\ FrozenOK' /\ SecondPerson' /\ Pointers'
  BY <1>4 DEF AInv, PointsApart, FrozenOK, EditHolds, SecondPerson, Pointers,
     DraftIsUnpublished, At, Publishing, Latest
<1>8. InlineOK'
  <2> SUFFICES ASSUME NEW x \in 1..MaxVersions, x \notin tried
               PROVE  /\ inline'[x] = NoText \/ (x <= Len(ver) /\ ver[x].published)
                      /\ \A f \in frozen : f[1] = x => inline'[x] \in {NoText, f[2]}
    BY DEF InlineOK, Latest
  <2>1. /\ inline[x] = NoText \/ (x <= Len(ver) /\ ver[x].published)
        /\ \A f \in frozen : f[1] = x => inline[x] \in {NoText, f[2]}
    BY DEF AInv, InlineOK, Latest
  <2>2. CASE x # v
    BY <1>3, <2>1, <2>2
  <2>3. CASE x = v
    <3>1. x <= Len(ver) /\ ver[x].published
      BY <2>3 DEF Latest
    <3>2. \A f \in frozen : f[1] = x => inline'[x] \in {NoText, f[2]}
      BY <1>3, <2>1, <2>3
    <3> QED BY <3>1, <3>2
  <2> QED BY <2>2, <2>3
<1> QED BY <1>5, <1>6, <1>7, <1>8 DEF AInv

LEMMA RunAnswersKeeps == ASSUME AInv, NEW i \in Operators, RunAnswers(i) PROVE AInv'
<1>1. OpOK(op[i]) /\ AnswerOK(op[i], tried) /\ op[i].pc = "answer"
  BY DEF AInv, RunAnswers, At
<1>2. /\ op[i].seen \in 1..Latest /\ op[i].text \in Texts
      /\ op[i].seen \notin tried =>
           ver[op[i].seen].published /\ \A f \in frozen : f[1] = op[i].seen => op[i].text = f[2]
  BY <1>1 DEF OpOK, AnswerOK
<1> QED BY <1>2, NoOpIsOp, Keeps DEF RunAnswers, OpEnds, OpBecomes, history

LEMMA EvalScoresKeeps == ASSUME AInv, NEW i \in Operators, EvalScores(i) PROVE AInv'
<1>1. OpOK(op[i]) /\ AnswerOK(op[i], tried) /\ op[i].pc = "score"
  BY DEF AInv, EvalScores, At
<1>2. /\ op[i].seen \in 1..Latest /\ op[i].text \in Texts
      /\ op[i].seen \notin tried =>
           ver[op[i].seen].published /\ \A f \in frozen : f[1] = op[i].seen => op[i].text = f[2]
  BY <1>1 DEF OpOK, AnswerOK
<1>3. PICK ok \in BOOLEAN : op' = [op EXCEPT ![i] = [NoOp EXCEPT !.pc = "finish", !.verdict = ok]]
  BY DEF EvalScores, OpBecomes
<1> DEFINE r == [NoOp EXCEPT !.pc = "finish", !.verdict = ok]
<1>4. r \in Op /\ r.pc = "finish"
  <2>1. "finish" \in PC
    BY DEF PC
  <2>2. r \in Op
    BY <2>1, VerdictOps
  <2> QED BY <2>2 DEF NoOp
<1>5. /\ inline' = inline \/ inline' = Kept(op[i].seen, op[i].text)
      /\ UNCHANGED <<ver, agent, gate, frozen, tried>>
  BY DEF EvalScores, history
<1> HIDE DEF r
<1> QED BY <1>2, <1>3, <1>4, <1>5, Keeps DEF r

LEMMA OperatorStepKeeps ==
  ASSUME AInv, NEW i \in Operators, OperatorStep(i)
  PROVE  AInv'
<1>1. CASE ForkRefused(i)
  BY <1>1, OpEndsKeeps DEF ForkRefused, OpEnds, OpBecomes, AInv, ATypeOK
<1>2. CASE ForkDies(i)
  BY <1>2, OpEndsKeeps DEF ForkDies, OpEnds, OpBecomes, AInv, ATypeOK
<1>3. CASE EvalFinishes(i)
  <2>1. op[i] \in Op
    BY DEF AInv, ATypeOK
  <2>2. gate' \in [by : Operators \cup {NoOne}, of : Nat, passed : BOOLEAN]
    BY <1>3, <2>1 DEF EvalFinishes, AInv, ATypeOK, Op
  <2> QED BY <1>3, <2>2, OpEndsKeeps DEF EvalFinishes, OpEnds, OpBecomes
<1> QED BY <1>1, <1>2, <1>3, EditReadsKeeps, EditInPlaceKeeps, ForkCreatesKeeps,
        ForkPointsKeeps, PublishReadsKeeps, ChecksKeep, PublishDraftKeeps, RollbackKeeps,
        RunReadsKeeps, RunAnswersKeeps, EvalStartsKeeps, EvalReadsKeeps, EvalScoresKeeps
        DEF OperatorStep

LEMMA AStutters == ASSUME AInv, UNCHANGED agentVars PROVE AInv'
<1> USE DEF agentVars
<1>1. ATypeOK'
  BY DEF AInv, ATypeOK
<1>2. (\A j \in Operators : OpOK(op[j]) /\ AnswerOK(op[j], tried))'
  BY DEF AInv, OpOK, AnswerOK, Latest
<1>3. PointsApart' /\ FrozenOK' /\ InlineOK' /\ SecondPerson' /\ Pointers'
  BY DEF AInv, PointsApart, FrozenOK, EditHolds, InlineOK, SecondPerson, Pointers,
     DraftIsUnpublished, At, Latest
<1> QED BY <1>1, <1>2, <1>3 DEF AInv

LEMMA InitEstablishes == Init => WInv /\ AInv
<1> SUFFICES ASSUME Init PROVE WInv /\ AInv
  OBVIOUS
<1>1. PICK t \in Texts, u \in Users : ver = <<Draft(t, u)>>
  BY DEF Init
<1>2. Draft(t, u) \in Version /\ ~Draft(t, u).published /\ Draft(t, u).publisher = NoOne
      /\ Draft(t, u).author = u
  BY DEF Draft, Version
<1>3. ver \in Seq(Version) /\ Len(ver) = 1 /\ ver[1] = Draft(t, u)
  BY <1>1, <1>2
<1>4. /\ agent = [active |-> 0, draft |-> 1]
      /\ inline = [v \in 1..MaxVersions |-> NoText]
      /\ gate = [by |-> NoOne, of |-> 0, passed |-> FALSE]
      /\ op = [i \in Operators |-> NoOp]
      /\ frozen = {} /\ tried = {}
  BY DEF Init
<1>5. ATypeOK
  BY <1>3, <1>4, NoOpIsOp DEF ATypeOK
<1>6. (\A j \in Operators : OpOK(op[j]) /\ AnswerOK(op[j], tried)) /\ PointsApart
  BY <1>4, NoOpIsOp DEF OpOK, AnswerOK, PointsApart, At, Publishing
<1>7. Pointers /\ FrozenOK /\ InlineOK /\ SecondPerson
  BY <1>2, <1>3, <1>4 DEF Pointers, DraftIsUnpublished, FrozenOK, InlineOK, SecondPerson, Latest
<1> QED BY <1>5, <1>6, <1>7, WInitEstablishes DEF Init, AInv

LEMMA Inductive == WInv /\ AInv /\ [Next]_vars => WInv' /\ AInv'
<1> SUFFICES ASSUME WInv, AInv, [Next]_vars PROVE WInv' /\ AInv'
  OBVIOUS
<1>1. ASSUME NEW i \in Operators, OperatorStep(i), UNCHANGED wfVars PROVE WInv' /\ AInv'
  <2>1. asked' = asked \/ Asks
    BY <1>1 DEF OperatorStep, EditReads, EditInPlace, ForkCreates, ForkRefused, ForkPoints,
       ForkDies, PublishReadsDraft, CheckWorkflow, CheckGates, CheckApproval, PublishDraft,
       Rollback, RunReads, RunAnswers, EvalStarts, EvalReads, EvalScores, EvalFinishes,
       Begins, OpEnds, OpGoes, OpBecomes
  <2>2. asked' \in 0..MaxRequests
    BY <2>1 DEF Asks, WInv, WTypeOK
  <2> QED BY <1>1, <2>2, OperatorStepKeeps, WStutters
<1>2. ASSUME NEW b \in Builders, BuildStep(b, WorkflowInUse), UNCHANGED agentVars
      PROVE  WInv' /\ AInv'
  <2>1. WorkflowInUse \in BOOLEAN
    BY DEF WorkflowInUse
  <2> QED BY <1>2, <2>1, BuildStepKeeps, AStutters
<1>3. CASE UNCHANGED vars
  <2>1. UNCHANGED wfVars /\ UNCHANGED agentVars /\ asked' \in 0..MaxRequests
    BY <1>3 DEF vars, WInv, WTypeOK
  <2> QED BY <2>1, WStutters, AStutters
<1> QED BY <1>1, <1>2, <1>3 DEF Next

LEMMA Invariance == Spec => [](WInv /\ AInv)
  BY InitEstablishes, Inductive, PTL DEF Spec

-----------------------------------------------------------------------------
\* Every variable keeps its type: versions are numbered 1, 2, ... whatever overlaps.
THEOREM TypeCorrect == Spec => []TypeOK
<1>1. WInv /\ AInv => TypeOK
  BY DEF WInv, AInv, TypeOK
<1> QED BY <1>1, Invariance, PTL

\* What serves traffic was published: the active agent version and the active
\* workflow version, for any number of overlapping publishes, forks and rollbacks.
THEOREM ActiveIsPublishedHolds == Spec => []ActiveIsPublished
<1>1. WInv /\ AInv => ActiveIsPublished
  BY DEF WInv, WPointer, AInv, Pointers, ActiveIsPublished
<1> QED BY <1>1, Invariance, PTL

\* The draft pointer never names a published version, though it is written in a
\* statement of its own and cleared by publishers who may have read another one.
THEOREM DraftIsUnpublishedHolds == Spec => []DraftIsUnpublished
<1>1. WInv /\ AInv => DraftIsUnpublished
  BY DEF AInv, Pointers
<1> QED BY <1>1, Invariance, PTL

\* Of a workflow's versions only the last can be a draft.
THEOREM OnlyLastIsDraftHolds == Spec => []OnlyLastIsDraft
<1>1. WInv /\ AInv => OnlyLastIsDraft
  BY DEF WInv
<1> QED BY <1>1, Invariance, PTL

\* A graph published while no save held it as a draft never changes.
THEOREM PublishedGraphIsFrozenHolds == Spec => []PublishedGraphIsFrozen
<1>1. WInv /\ AInv => PublishedGraphIsFrozen
  BY DEF WInv, WFrozenOK, PublishedGraphIsFrozen
<1> QED BY <1>1, Invariance, PTL

\* A version published while no updateDraft held it as a draft keeps its text.
THEOREM PublishedTextIsFrozenHolds == Spec => []PublishedTextIsFrozen
<1>1. WInv /\ AInv => PublishedTextIsFrozen
  BY DEF AInv, FrozenOK, PublishedTextIsFrozen
<1> QED BY <1>1, Invariance, PTL

\* Under four-eyes nobody ever publishes a version they created.
THEOREM SecondPersonHolds == Spec => []SecondPerson
<1>1. WInv /\ AInv => SecondPerson
  BY DEF AInv
<1> QED BY <1>1, Invariance, PTL

\* An inline workflow made only after publication answers with the published text.
THEOREM AnswersAsPublishedHolds == Spec => []AnswersAsPublished
<1>1. WInv /\ AInv => AnswersAsPublished
  <2> SUFFICES ASSUME AInv, NEW f \in frozen, f[1] \notin tried, inline[f[1]] # NoText
               PROVE  inline[f[1]] = f[2]
    BY DEF AnswersAsPublished
  <2>1. f[1] \in 1..MaxVersions
    BY DEF AInv, FrozenOK, Pointers
  <2> QED BY <2>1 DEF AInv, InlineOK
<1> QED BY <1>1, Invariance, PTL

HIDE DEF AgentReleaseAssumption, WorkflowVersionsAssumption

-----------------------------------------------------------------------------
(* Accounts, single sign-on and plans move by themselves.                  *)

LEMMA StartsEveryPart == AllInit => Init /\ M!Init /\ S!Init /\ L!Init
  BY Zenon DEF AllInit

LEMMA StepsOnePart == [AllNext]_AllVars =>
  /\ Next \/ UNCHANGED vars
  /\ M!Next \/ UNCHANGED memberVars
  /\ S!Next \/ UNCHANGED ssoVars
  /\ L!Next \/ UNCHANGED planVars
  BY Zenon DEF AllNext, AllVars

-----------------------------------------------------------------------------
(* Seats and plans.                                                        *)

Limits == [L!Keys -> Nat \cup {NoKeys}]
SubRow == [plan : DOMAIN Tiers, limits : Limits]
IsAsk(j) ==
  /\ j \in [op : {j.op}, pc : {j.pc}, tier : {j.tier}, over : {j.over}, sub : {j.sub},
            seen : {j.seen}, stale : {j.stale}]
  /\ j.stale \in BOOLEAN

\* What a request that nobody overtook knows is so: the row it has read is the latest
\* one, there is a seat for whom it lets in, and the plan it takes has enough of them.
AskOK(j) ==
  /\ j.op = "change" => j.tier \in DOMAIN Tiers
  /\ j.op = "override" => j.over \in Overrides
  /\ j.pc \in {"write", "column"} => j.op = "change"
  /\ j.pc = "create" => /\ j.seen \in SubRow
                        /\ subs = <<>> => j.seen = [plan |-> orgPlan, limits |-> L!Nothing]
  /\ j.pc \in {"check", "join", "write", "column"} => j.seen \in SubRow /\ j.sub \in 1 .. Len(subs)
  /\ j.pc \in {"check", "join", "write"} /\ ~j.stale => j.sub = Len(subs) /\ j.seen = L!Latest
  /\ j.pc = "join" /\ ~j.stale => seats + 1 <= L!Effective(j.seen)
  /\ j.pc = "write" /\ ~j.stale => seats <= SeatsOf[j.tier] \/ j.tier >= j.seen.plan

PlanInv ==
  /\ subs \in Seq(SubRow) /\ orgPlan \in DOMAIN Tiers /\ seats \in Nat \ {0}
  /\ joined \in BOOLEAN /\ overtaken \in BOOLEAN /\ lowered \in BOOLEAN
  /\ promised \in Limits
  /\ planJob \in [Builders -> {planJob[r] : r \in Builders}]
  /\ \A r \in Builders : IsAsk(planJob[r]) /\ AskOK(planJob[r])
  /\ subs = <<>> => promised = L!Nothing /\ (~joined => seats = 1)
  /\ L!SeatsWithinLimit
  /\ L!ExceptionsAreKept

LEMMA PlansAre ==
  /\ DOMAIN Tiers = 1 .. Len(Tiers) /\ Len(Tiers) \in Nat
  /\ SeatsOf \in [DOMAIN Tiers -> Nat \ {0}]
  /\ \A i, j \in DOMAIN Tiers : i <= j => SeatsOf[i] <= SeatsOf[j]
  /\ \A over \in Overrides : over \in Limits
  /\ L!Keys = {"seats", "workflows"} /\ L!Nothing \in Limits
<1>1. Tiers \in Seq({Tiers[i] : i \in DOMAIN Tiers})
  BY StaffAssumption DEF StaffAssumption
<1>2. DOMAIN Tiers = 1 .. Len(Tiers) /\ Len(Tiers) \in Nat
  <2> DEFINE T == {Tiers[i] : i \in DOMAIN Tiers}
  <2>1. Tiers \in Seq(T)
    BY <1>1
  <2> HIDE DEF T
  <2> QED BY <2>1
<1> QED BY <1>2, StaffAssumption DEF StaffAssumption, Limits, L!Keys, L!Nothing

LEMMA EffectiveIs ==
  ASSUME NEW x \in SubRow
  PROVE  /\ L!Effective(x) \in Nat
         /\ x.limits["seats"] = NoKeys => L!Effective(x) = SeatsOf[x.plan]
         /\ x.limits["seats"] # NoKeys => L!Effective(x) = x.limits["seats"]
  BY PlansAre DEF L!Effective, SubRow, Limits

LEMMA RowsAre ==
  ASSUME NEW s \in Seq(SubRow)
  PROVE  /\ Len(s) \in Nat /\ DOMAIN s = 1 .. Len(s) /\ (s = <<>> <=> Len(s) = 0)
         /\ s # <<>> => s[Len(s)] \in SubRow /\ Len(s) \in 1 .. Len(s)
  OBVIOUS

LEMMA PlanInit == L!Init => PlanInv
<1> SUFFICES ASSUME L!Init PROVE PlanInv
  OBVIOUS
<1>1. /\ subs = <<>> /\ orgPlan \in 1 .. Len(Tiers) /\ seats = 1 /\ promised = L!Nothing
      /\ joined = FALSE /\ overtaken = FALSE /\ lowered = FALSE
      /\ planJob = [r \in Builders |-> L!Idle]
  BY DEF L!Init
<1>2. IsAsk(L!Idle) /\ AskOK(L!Idle)
  BY DEF IsAsk, AskOK, L!Idle
<1>3. /\ planJob \in [Builders -> {planJob[r] : r \in Builders}]
      /\ \A r \in Builders : IsAsk(planJob[r]) /\ AskOK(planJob[r])
  BY <1>1, <1>2
<1>4. L!SeatsWithinLimit /\ L!ExceptionsAreKept
  BY <1>1 DEF L!SeatsWithinLimit, L!ExceptionsAreKept
<1>5. subs \in Seq(SubRow) /\ orgPlan \in DOMAIN Tiers /\ promised \in Limits /\ seats \in Nat \ {0}
  BY <1>1, PlansAre
<1>6. joined \in BOOLEAN /\ overtaken \in BOOLEAN /\ lowered \in BOOLEAN
  BY <1>1
<1> QED BY <1>1, <1>3, <1>4, <1>5, <1>6, Zenon DEF PlanInv

\* A request goes on by itself: the others keep what they have, and what they know.
LEMMA PlanByGoing ==
  ASSUME PlanInv, NEW r \in Builders, NEW j, IsAsk(j), AskOK(j)', planJob' = [planJob EXCEPT ![r] = j],
         subs' = subs, seats' = seats, (orgPlan' = orgPlan \/ subs # <<>>)
  PROVE  /\ planJob' \in [Builders -> {planJob'[q] : q \in Builders}]
         /\ \A q \in Builders : IsAsk(planJob'[q]) /\ AskOK(planJob[q])'
<1>1. planJob \in [Builders -> {planJob[q] : q \in Builders}] /\ \A q \in Builders : IsAsk(planJob[q]) /\ AskOK(planJob[q])
  BY DEF PlanInv
<1>2. \A q \in Builders : planJob'[q] = IF q = r THEN j ELSE planJob[q]
  BY <1>1
<1>3. planJob' \in [Builders -> {planJob'[q] : q \in Builders}]
  BY <1>1
<1>4. ASSUME NEW q \in Builders, q # r PROVE AskOK(planJob[q])'
  <2>1. AskOK(planJob[q]) /\ planJob'[q] = planJob[q]
    BY <1>1, <1>2, <1>4
  <2> QED BY <2>1 DEF AskOK, L!Latest, L!Effective
<1>5. ASSUME NEW q \in Builders, q = r PROVE AskOK(planJob[q])'
  BY <1>2, <1>5
<1> QED BY <1>1, <1>2, <1>3, <1>4, <1>5

\* It overtakes the others: whoever has read anything cannot rely on it.
LEMMA PlanByOvertaking ==
  ASSUME PlanInv, NEW r \in Builders, NEW j, IsAsk(j), AskOK(j)', L!Overtakes(r, j),
         subs' \in Seq(SubRow), Len(subs) <= Len(subs'), orgPlan' = orgPlan
  PROVE  /\ planJob' \in [Builders -> {planJob'[q] : q \in Builders}]
         /\ \A q \in Builders : IsAsk(planJob'[q]) /\ AskOK(planJob[q])'
<1>1. planJob \in [Builders -> {planJob[q] : q \in Builders}] /\ \A q \in Builders : IsAsk(planJob[q]) /\ AskOK(planJob[q])
  BY DEF PlanInv
<1>2. planJob' = [q \in Builders |-> IF q = r THEN j ELSE [planJob[q] EXCEPT !.stale = @ \/ L!HasRead(q)]]
  BY DEF L!Overtakes
<1>3. planJob' \in [Builders -> {planJob'[q] : q \in Builders}]
  BY <1>2
<1>4. ASSUME NEW q \in Builders, q # r PROVE IsAsk(planJob'[q]) /\ AskOK(planJob[q])'
  <2> DEFINE x == planJob[q]
             b == x.stale \/ L!HasRead(q)
  <2>1. IsAsk(x) /\ AskOK(x) /\ planJob'[q] = [x EXCEPT !.stale = b]
    BY <1>1, <1>2, <1>4
  <2>2. b \in BOOLEAN /\ (x.pc \notin {"none", "find"} => b)
    BY DEF L!HasRead
  <2> HIDE DEF x, b
  <2>3. /\ IsAsk(planJob'[q]) /\ planJob'[q].stale = b
        /\ planJob'[q].op = x.op /\ planJob'[q].pc = x.pc /\ planJob'[q].tier = x.tier
        /\ planJob'[q].over = x.over /\ planJob'[q].sub = x.sub /\ planJob'[q].seen = x.seen
    BY <2>1, <2>2 DEF IsAsk
  <2>4. subs \in Seq(SubRow) /\ Len(subs) \in Nat /\ Len(subs') \in Nat /\ (subs' = <<>> => subs = <<>>)
    BY DEF PlanInv
  <2> QED BY <2>1, <2>2, <2>3, <2>4 DEF AskOK
<1>5. ASSUME NEW q \in Builders, q = r PROVE IsAsk(planJob'[q]) /\ AskOK(planJob[q])'
  BY <1>2, <1>5
<1> QED BY <1>3, <1>4, <1>5

\* What a request has read is whole, and the steps that only read or decide keep it so.
LEMMA AskHas ==
  ASSUME PlanInv, NEW r \in Builders
  PROVE  /\ IsAsk(planJob[r]) /\ AskOK(planJob[r])
         /\ subs \in Seq(SubRow) /\ Len(subs) \in Nat /\ (subs = <<>> <=> Len(subs) = 0)
         /\ subs # <<>> => L!Latest \in SubRow /\ Len(subs) \in 1 .. Len(subs)
         /\ seats \in Nat
  BY RowsAre DEF PlanInv, L!Latest

LEMMA PlanByItself ==
  ASSUME PlanInv, NEW r \in Builders, NEW j, IsAsk(j), AskOK(j)', planJob' = [planJob EXCEPT ![r] = j],
         UNCHANGED <<subs, seats, joined, overtaken, lowered, promised>>,
         (orgPlan' = orgPlan \/ subs # <<>>), orgPlan' \in DOMAIN Tiers
  PROVE  PlanInv'
<1>1. /\ planJob' \in [Builders -> {planJob'[q] : q \in Builders}]
      /\ \A q \in Builders : IsAsk(planJob'[q]) /\ AskOK(planJob[q])'
  BY PlanByGoing
<1>2. L!SeatsWithinLimit' /\ L!ExceptionsAreKept'
  BY DEF PlanInv, L!SeatsWithinLimit, L!ExceptionsAreKept, L!Latest, L!Effective
<1> QED BY <1>1, <1>2 DEF PlanInv

LEMMA PlanByBeginning == ASSUME PlanInv, NEW r \in Builders, L!Begins(r) PROVE PlanInv'
<1> orgPlan' = orgPlan /\ orgPlan \in DOMAIN Tiers /\ UNCHANGED <<subs, seats, joined, overtaken, lowered, promised>>
  BY DEF L!Begins, PlanInv
<1>1. ASSUME NEW j, IsAsk(j), j.pc = "find", j.stale = FALSE, planJob' = [planJob EXCEPT ![r] = j],
             j.op = "change" => j.tier \in DOMAIN Tiers, j.op = "override" => j.over \in Overrides
      PROVE  PlanInv'
  <2>1. AskOK(j)'
    BY <1>1 DEF AskOK
  <2> QED BY <1>1, <2>1, PlanByItself
<1>2. CASE L!Goes(r, [L!Idle EXCEPT !.op = "invite", !.pc = "find"])
  <2>1. PICK j : j = [L!Idle EXCEPT !.op = "invite", !.pc = "find"]
    OBVIOUS
  <2>2. IsAsk(j) /\ j.pc = "find" /\ j.stale = FALSE /\ j.op = "invite"
    BY <2>1 DEF IsAsk, L!Idle
  <2>3. planJob' = [planJob EXCEPT ![r] = j]
    BY <1>2, <2>1 DEF L!Goes
  <2> QED BY <1>1, <2>2, <2>3
<1>3. ASSUME NEW t \in 1 .. Len(Tiers), L!Goes(r, [L!Idle EXCEPT !.op = "change", !.pc = "find", !.tier = t])
      PROVE  PlanInv'
  <2>1. PICK j : j = [L!Idle EXCEPT !.op = "change", !.pc = "find", !.tier = t]
    OBVIOUS
  <2>2. IsAsk(j) /\ j.pc = "find" /\ j.stale = FALSE /\ j.op = "change" /\ j.tier = t
    BY <2>1 DEF IsAsk, L!Idle
  <2>3. planJob' = [planJob EXCEPT ![r] = j]
    BY <1>3, <2>1 DEF L!Goes
  <2> QED BY <1>1, <2>2, <2>3, PlansAre
<1>4. ASSUME NEW o \in Overrides, L!Goes(r, [L!Idle EXCEPT !.op = "override", !.pc = "find", !.over = o])
      PROVE  PlanInv'
  <2>1. PICK j : j = [L!Idle EXCEPT !.op = "override", !.pc = "find", !.over = o]
    OBVIOUS
  <2>2. IsAsk(j) /\ j.pc = "find" /\ j.stale = FALSE /\ j.op = "override" /\ j.over = o
    BY <2>1 DEF IsAsk, L!Idle
  <2>3. planJob' = [planJob EXCEPT ![r] = j]
    BY <1>4, <2>1 DEF L!Goes
  <2> QED BY <1>1, <2>2, <2>3
<1> QED BY <1>2, <1>3, <1>4 DEF L!Begins

LEMMA PlanByFinding == ASSUME PlanInv, NEW r \in Builders, L!Finds(r) PROVE PlanInv'
<1> /\ orgPlan' = orgPlan /\ orgPlan \in DOMAIN Tiers
    /\ UNCHANGED <<subs, seats, joined, overtaken, lowered, promised>>
  BY DEF L!Finds, PlanInv
<1>1. PICK x : x = planJob[r]
  OBVIOUS
<1>2. /\ IsAsk(x) /\ AskOK(x) /\ x.pc = "find"
      /\ subs # <<>> => L!Latest \in SubRow /\ Len(subs) \in 1 .. Len(subs)
  BY <1>1, AskHas DEF L!Finds
<1>3. CASE subs = <<>>
  <2>1. PICK j : j = [x EXCEPT !.pc = "organization"]
    OBVIOUS
  <2>2. planJob' = [planJob EXCEPT ![r] = j]
    BY <1>1, <1>3, <2>1 DEF L!Finds, L!Goes
  <2>3. IsAsk(j) /\ j.pc = "organization" /\ j.op = x.op /\ j.tier = x.tier /\ j.over = x.over
    BY <1>2, <2>1 DEF IsAsk
  <2>4. AskOK(j)'
    BY <1>2, <2>3 DEF AskOK
  <2> QED BY <2>2, <2>3, <2>4, PlanByItself
<1>4. CASE subs # <<>>
  <2>1. PICK j : j = [x EXCEPT !.pc = "check", !.sub = Len(subs), !.seen = L!Latest]
    OBVIOUS
  <2>2. planJob' = [planJob EXCEPT ![r] = j]
    BY <1>1, <1>4, <2>1 DEF L!Finds, L!Goes
  <2>3. /\ IsAsk(j) /\ j.pc = "check" /\ j.op = x.op /\ j.tier = x.tier /\ j.over = x.over
        /\ j.sub = Len(subs) /\ j.seen = L!Latest
    BY <1>2, <2>1 DEF IsAsk
  <2>4. AskOK(j)'
    BY <1>2, <1>4, <2>3 DEF AskOK, L!Latest
  <2> QED BY <2>2, <2>3, <2>4, PlanByItself
<1> QED BY <1>3, <1>4

LEMMA PlanByReading == ASSUME PlanInv, NEW r \in Builders, L!ReadsOrganization(r) PROVE PlanInv'
<1> /\ orgPlan' = orgPlan /\ orgPlan \in DOMAIN Tiers
    /\ UNCHANGED <<subs, seats, joined, overtaken, lowered, promised>>
  BY DEF L!ReadsOrganization, PlanInv
<1>1. PICK x, s, j : x = planJob[r] /\ s = [plan |-> orgPlan, limits |-> L!Nothing]
                     /\ j = [x EXCEPT !.pc = "create", !.seen = s]
  OBVIOUS
<1>2. IsAsk(x) /\ AskOK(x) /\ planJob' = [planJob EXCEPT ![r] = j]
  BY <1>1, AskHas DEF L!ReadsOrganization, L!Goes
<1>3. s \in SubRow /\ s = [plan |-> orgPlan', limits |-> L!Nothing]
  BY <1>1, PlansAre DEF SubRow
<1>4. IsAsk(j) /\ j.pc = "create" /\ j.op = x.op /\ j.tier = x.tier /\ j.over = x.over /\ j.seen = s
  BY <1>1, <1>2 DEF IsAsk
<1>5. AskOK(j)'
  BY <1>2, <1>3, <1>4 DEF AskOK
<1> QED BY <1>2, <1>4, <1>5, PlanByItself

LEMMA PlanByCreating == ASSUME PlanInv, NEW r \in Builders, L!Creates(r) PROVE PlanInv'
<1> /\ orgPlan' = orgPlan /\ orgPlan \in DOMAIN Tiers
    /\ UNCHANGED <<seats, joined, lowered, promised>>
    /\ joined \in BOOLEAN /\ overtaken \in BOOLEAN /\ lowered \in BOOLEAN /\ promised \in Limits
    /\ seats \in Nat \ {0}
  BY DEF L!Creates, PlanInv
<1>1. PICK x, j : x = planJob[r] /\ j = [x EXCEPT !.pc = "check", !.sub = Len(subs) + 1]
  OBVIOUS
<1>2. /\ IsAsk(x) /\ AskOK(x) /\ x.pc = "create" /\ subs \in Seq(SubRow) /\ Len(subs) \in Nat
      /\ (subs = <<>> <=> Len(subs) = 0)
  BY <1>1, AskHas DEF L!Creates
<1>3. x.seen \in SubRow
  BY <1>2 DEF AskOK
<1>4. /\ IsAsk(j) /\ j.pc = "check" /\ j.op = x.op /\ j.tier = x.tier /\ j.over = x.over
      /\ j.sub = Len(subs) + 1 /\ j.seen = x.seen
  BY <1>1, <1>2 DEF IsAsk
<1>5. subs' = Append(subs, x.seen) /\ L!Overtakes(r, j)
  BY <1>1 DEF L!Creates
<1>6. /\ subs' \in Seq(SubRow) /\ Len(subs') = Len(subs) + 1 /\ subs'[Len(subs) + 1] = x.seen
      /\ subs' # <<>>
  BY <1>2, <1>3, <1>5
<1>7. AskOK(j)'
  BY <1>2, <1>3, <1>4, <1>6 DEF AskOK, L!Latest
<1>8. /\ planJob' \in [Builders -> {planJob'[q] : q \in Builders}]
      /\ \A q \in Builders : IsAsk(planJob'[q]) /\ AskOK(planJob[q])'
  BY <1>2, <1>4, <1>5, <1>6, <1>7, PlanByOvertaking
<1>9. overtaken' \in BOOLEAN /\ (~overtaken' => subs = <<>>)
  BY DEF L!Creates
<1>10. (subs # <<>> /\ ~overtaken => L!Latest = x.seen)'
  BY <1>2, <1>6 DEF L!Latest
<1>11. subs = <<>> => /\ x.seen = [plan |-> orgPlan, limits |-> L!Nothing]
                      /\ promised = L!Nothing /\ (~joined => seats = 1)
  BY <1>2 DEF AskOK, PlanInv
<1>12. subs = <<>> => L!Effective(x.seen) >= 1
  BY <1>3, <1>11, EffectiveIs, PlansAre DEF L!Nothing
<1>13. L!Effective(x.seen) \in Nat
  BY <1>3, EffectiveIs
<1>14. L!SeatsWithinLimit'
  <2>1. ASSUME ~overtaken', ~joined PROVE seats <= L!Effective(x.seen)
    BY <1>9, <1>11, <1>12, <1>13, <2>1
  <2>2. L!Latest' = x.seen
    BY <1>6 DEF L!Latest
  <2>3. L!Effective(L!Latest)' = L!Effective(x.seen)
    BY <2>2 DEF L!Effective
  <2> QED BY <1>13, <2>1, <2>3 DEF L!SeatsWithinLimit
<1>15. L!ExceptionsAreKept'
  BY <1>6, <1>9, <1>11 DEF L!ExceptionsAreKept, L!Latest
<1> QED BY <1>6, <1>8, <1>9, <1>14, <1>15, Zenon DEF PlanInv

LEMMA PlanByChecking == ASSUME PlanInv, NEW r \in Builders, L!ChecksSeats(r) \/ L!ChecksPlan(r) PROVE PlanInv'
<1> /\ orgPlan' = orgPlan /\ orgPlan \in DOMAIN Tiers
    /\ UNCHANGED <<subs, seats, joined, overtaken, lowered, promised>>
  BY DEF L!ChecksSeats, L!ChecksPlan, PlanInv
<1>1. PICK x : x = planJob[r]
  OBVIOUS
<1>2. IsAsk(x) /\ AskOK(x) /\ x.pc = "check" /\ seats \in Nat /\ x.seen \in SubRow
  BY <1>1, AskHas DEF L!ChecksSeats, L!ChecksPlan, AskOK
<1>3. CASE planJob' = [planJob EXCEPT ![r] = L!Idle]
  <2>1. IsAsk(L!Idle) /\ AskOK(L!Idle)'
    BY DEF IsAsk, AskOK, L!Idle
  <2> QED BY <1>3, <2>1, PlanByItself
<1>4. CASE L!ChecksSeats(r) /\ planJob' # [planJob EXCEPT ![r] = L!Idle]
  <2>1. PICK j : j = [x EXCEPT !.pc = "join"]
    OBVIOUS
  <2>2. planJob' = [planJob EXCEPT ![r] = j] /\ ~(seats + 1 > L!Effective(x.seen))
    BY <1>1, <1>4, <2>1 DEF L!ChecksSeats, L!Goes, L!WouldExceed
  <2>3. /\ IsAsk(j) /\ j.pc = "join" /\ j.op = x.op /\ j.tier = x.tier /\ j.over = x.over
        /\ j.sub = x.sub /\ j.seen = x.seen /\ j.stale = x.stale
    BY <1>2, <2>1 DEF IsAsk
  <2>4. L!Effective(x.seen) \in Nat
    BY <1>2, EffectiveIs
  <2>5. AskOK(j)'
    BY <1>2, <2>2, <2>3, <2>4 DEF AskOK, L!Latest, L!Effective
  <2> QED BY <2>2, <2>3, <2>5, PlanByItself
<1>5. CASE L!ChecksPlan(r) /\ planJob' # [planJob EXCEPT ![r] = L!Idle]
  <2>1. PICK j : j = [x EXCEPT !.pc = "write"]
    OBVIOUS
  <2>2. planJob' = [planJob EXCEPT ![r] = j] /\ ~(seats > SeatsOf[x.tier] /\ x.tier < x.seen.plan) /\ x.op = "change"
    BY <1>1, <1>5, <2>1 DEF L!ChecksPlan, L!Goes, L!Breaches
  <2>3. /\ IsAsk(j) /\ j.pc = "write" /\ j.op = x.op /\ j.tier = x.tier /\ j.over = x.over
        /\ j.sub = x.sub /\ j.seen = x.seen /\ j.stale = x.stale
    BY <1>2, <2>1 DEF IsAsk
  <2>4. x.tier \in 1 .. Len(Tiers) /\ x.seen.plan \in 1 .. Len(Tiers) /\ Len(Tiers) \in Nat /\ SeatsOf[x.tier] \in Nat
    BY <1>2, <2>2, PlansAre DEF AskOK, SubRow
  <2>5. AskOK(j)'
    BY <1>2, <2>2, <2>3, <2>4 DEF AskOK, L!Latest
  <2> QED BY <2>2, <2>3, <2>5, PlanByItself
<1> QED BY <1>3, <1>4, <1>5

LEMMA PlanByColumn == ASSUME PlanInv, NEW r \in Builders, L!WritesColumn(r) PROVE PlanInv'
<1>1. PICK x : x = planJob[r]
  OBVIOUS
<1>2. /\ IsAsk(x) /\ AskOK(x) /\ x.pc = "column" /\ Len(subs) \in Nat /\ (subs = <<>> <=> Len(subs) = 0)
      /\ orgPlan' = x.tier /\ planJob' = [planJob EXCEPT ![r] = L!Idle]
      /\ UNCHANGED <<subs, seats, joined, overtaken, lowered, promised>>
  BY <1>1, AskHas DEF L!WritesColumn, L!Goes
<1>3. subs # <<>> /\ x.tier \in DOMAIN Tiers
  BY <1>2 DEF AskOK
<1>4. IsAsk(L!Idle) /\ AskOK(L!Idle)'
  BY DEF IsAsk, AskOK, L!Idle
<1> QED BY <1>2, <1>3, <1>4, PlanByItself

\* The step of a request that has acted: what it wrote is so, and what the others have
\* read is theirs no more.
LEMMA PlanByJoining == ASSUME PlanInv, NEW r \in Builders, L!Joins(r) PROVE PlanInv'
<1>1. PICK x : x = planJob[r]
  OBVIOUS
<1>2. /\ IsAsk(x) /\ AskOK(x) /\ x.pc = "join" /\ x.seen \in SubRow /\ x.sub \in 1 .. Len(subs)
      /\ Len(subs) \in Nat /\ subs \in Seq(SubRow) /\ (subs = <<>> <=> Len(subs) = 0)
      /\ x.stale \in BOOLEAN
  BY <1>1, AskHas DEF L!Joins, AskOK, IsAsk
<1>3. /\ seats' = seats + 1 /\ L!Overtakes(r, L!Idle) /\ overtaken' = (overtaken \/ x.stale)
      /\ UNCHANGED <<subs, orgPlan, joined, lowered, promised>>
  BY <1>1 DEF L!Joins
<1>4. IsAsk(L!Idle) /\ AskOK(L!Idle)'
  BY DEF IsAsk, AskOK, L!Idle
<1>5. /\ planJob' \in [Builders -> {planJob'[q] : q \in Builders}]
      /\ \A q \in Builders : IsAsk(planJob'[q]) /\ AskOK(planJob[q])'
  BY <1>2, <1>3, <1>4, PlanByOvertaking
<1>6. overtaken \in BOOLEAN /\ overtaken' \in BOOLEAN /\ (~overtaken' => ~overtaken /\ ~x.stale)
  BY <1>2, <1>3 DEF PlanInv
<1>7. subs # <<>> /\ (~x.stale => seats + 1 <= L!Effective(L!Latest)) /\ L!Effective(x.seen) \in Nat
  BY <1>2, EffectiveIs DEF AskOK
<1>8. L!SeatsWithinLimit'
  <2>1. L!Effective(L!Latest)' = L!Effective(L!Latest)
    BY <1>3 DEF L!Effective, L!Latest
  <2>2. L!Latest \in SubRow /\ seats \in Nat
    BY <1>1, <1>7, AskHas
  <2>3. L!Effective(L!Latest) \in Nat
    BY <2>2, EffectiveIs
  <2> QED BY <1>3, <1>6, <1>7, <2>1, <2>2, <2>3 DEF L!SeatsWithinLimit
<1>9. L!ExceptionsAreKept'
  BY <1>3, <1>6 DEF PlanInv, L!ExceptionsAreKept, L!Latest
<1>10. /\ subs' \in Seq(SubRow) /\ orgPlan' \in DOMAIN Tiers /\ seats' \in Nat \ {0} /\ subs' # <<>>
       /\ joined' \in BOOLEAN /\ lowered' \in BOOLEAN /\ promised' \in Limits
  BY <1>3, <1>7 DEF PlanInv
<1> QED BY <1>5, <1>6, <1>8, <1>9, <1>10, Zenon DEF PlanInv

LEMMA PlanByDirectory == ASSUME PlanInv, L!JoinsByDirectory PROVE PlanInv'
<1>1. /\ seats' = seats + 1 /\ joined' = TRUE
      /\ UNCHANGED <<subs, orgPlan, overtaken, lowered, promised>>
      /\ planJob' = [q \in Builders |-> [planJob[q] EXCEPT !.stale = @ \/ L!HasRead(q)]]
  BY DEF L!JoinsByDirectory
<1>2. planJob' \in [Builders -> {planJob'[q] : q \in Builders}]
  BY <1>1
<1>3. ASSUME NEW q \in Builders PROVE IsAsk(planJob'[q]) /\ AskOK(planJob[q])'
  <2>1. PICK x, b : x = planJob[q] /\ b = (x.stale \/ L!HasRead(q))
    OBVIOUS
  <2>2. /\ IsAsk(x) /\ AskOK(x) /\ planJob'[q] = [x EXCEPT !.stale = b] /\ b \in BOOLEAN
        /\ x.pc \notin {"none", "find"} => b
    BY <1>1, <2>1, AskHas DEF L!HasRead
  <2>3. /\ IsAsk(planJob'[q]) /\ planJob'[q].stale = b
        /\ planJob'[q].op = x.op /\ planJob'[q].pc = x.pc /\ planJob'[q].tier = x.tier
        /\ planJob'[q].over = x.over /\ planJob'[q].sub = x.sub /\ planJob'[q].seen = x.seen
    BY <2>2 DEF IsAsk
  <2> QED BY <1>1, <2>2, <2>3 DEF AskOK
<1>4. L!SeatsWithinLimit' /\ L!ExceptionsAreKept'
  BY <1>1 DEF PlanInv, L!SeatsWithinLimit, L!ExceptionsAreKept, L!Latest
<1>5. /\ subs' \in Seq(SubRow) /\ orgPlan' \in DOMAIN Tiers /\ seats' \in Nat \ {0}
      /\ joined' \in BOOLEAN /\ overtaken' \in BOOLEAN /\ lowered' \in BOOLEAN /\ promised' \in Limits
  BY <1>1 DEF PlanInv
<1>6. (subs = <<>> => promised = L!Nothing /\ (~joined => seats = 1))'
  BY <1>1 DEF PlanInv
<1> QED BY <1>2, <1>3, <1>4, <1>5, <1>6, Zenon DEF PlanInv

LEMMA PlanByRemoving == ASSUME PlanInv, L!RemoveUser PROVE PlanInv'
<1>1. /\ seats > 1 /\ seats' = seats - 1 /\ seats \in Nat /\ seats' \in Nat \ {0} /\ seats' <= seats
      /\ UNCHANGED <<subs, orgPlan, planJob, joined, overtaken, lowered, promised>>
  BY DEF L!RemoveUser, PlanInv
<1>2. ASSUME NEW q \in Builders PROVE IsAsk(planJob'[q]) /\ AskOK(planJob[q])'
  <2>1. PICK x : x = planJob[q]
    OBVIOUS
  <2>2. IsAsk(x) /\ AskOK(x) /\ planJob'[q] = x
    BY <1>1, <2>1, AskHas
  <2>3. x.pc \in {"join", "write"} => x.seen \in SubRow
    BY <2>2 DEF AskOK
  <2>4. x.pc = "join" => L!Effective(x.seen) \in Nat
    BY <2>3, EffectiveIs
  <2>5. (L!Effective(x.seen) = L!Effective(x.seen)') /\ (x.pc = "write" => SeatsOf[x.tier] \in Nat)
    BY <2>2, PlansAre DEF L!Effective, AskOK
  <2>6. AskOK(x)'
    BY <1>1, <2>2, <2>4, <2>5 DEF AskOK, L!Latest
  <2> QED BY <2>2, <2>6
<1>3. planJob' \in [Builders -> {planJob'[q] : q \in Builders}]
  BY <1>1 DEF PlanInv
<1>4. L!SeatsWithinLimit'
  <2>1. L!Effective(L!Latest)' = L!Effective(L!Latest)
    BY <1>1 DEF L!Effective, L!Latest
  <2>2. subs # <<>> => L!Effective(L!Latest) \in Nat
    BY RowsAre, EffectiveIs DEF PlanInv, L!Latest
  <2>3. L!SeatsWithinLimit
    BY DEF PlanInv
  <2> QED BY <1>1, <2>1, <2>2, <2>3 DEF L!SeatsWithinLimit
<1>5. L!ExceptionsAreKept'
  BY <1>1 DEF PlanInv, L!ExceptionsAreKept, L!Latest
<1>6. (subs = <<>> => promised = L!Nothing /\ (~joined => seats = 1))'
  BY <1>1 DEF PlanInv
<1>7. /\ subs' \in Seq(SubRow) /\ orgPlan' \in DOMAIN Tiers
      /\ joined' \in BOOLEAN /\ overtaken' \in BOOLEAN /\ lowered' \in BOOLEAN /\ promised' \in Limits
  BY <1>1 DEF PlanInv
<1> QED BY <1>1, <1>2, <1>3, <1>4, <1>5, <1>6, <1>7, Zenon DEF PlanInv

LEMMA ARowIsWritten ==
  ASSUME NEW s \in Seq(SubRow), NEW n \in 1 .. Len(s), NEW y \in SubRow, NEW t, t = [s EXCEPT ![n] = y]
  PROVE  /\ t \in Seq(SubRow) /\ Len(t) = Len(s) /\ t # <<>> /\ t[n] = y
         /\ \A i \in 1 .. Len(s) : i # n => t[i] = s[i]
  OBVIOUS

LEMMA PlanByWriting == ASSUME PlanInv, NEW r \in Builders, L!WritesPlan(r) PROVE PlanInv'
<1>1. PICK x, y, j : x = planJob[r] /\ y = [subs[x.sub] EXCEPT !.plan = x.tier] /\ j = [x EXCEPT !.pc = "column"]
  OBVIOUS
<1>2. /\ IsAsk(x) /\ AskOK(x) /\ x.pc = "write" /\ x.op = "change"
      /\ Len(subs) \in Nat /\ subs \in Seq(SubRow) /\ x.stale \in BOOLEAN /\ seats \in Nat
  BY <1>1, AskHas DEF L!WritesPlan, AskOK, IsAsk
<1>3. x.seen \in SubRow /\ x.sub \in 1 .. Len(subs) /\ x.tier \in DOMAIN Tiers
  BY <1>2 DEF AskOK
<1>4. subs[x.sub] \in SubRow
  BY <1>2, <1>3
<1>5. y \in SubRow /\ y.plan = x.tier /\ y.limits = subs[x.sub].limits
  BY <1>1, <1>3, <1>4 DEF SubRow
<1>6. /\ subs' = [subs EXCEPT ![x.sub] = y] /\ L!Overtakes(r, j) /\ overtaken' = (overtaken \/ x.stale)
      /\ UNCHANGED <<orgPlan, seats, joined, lowered, promised>>
  BY <1>1 DEF L!WritesPlan
<1>7. /\ subs' \in Seq(SubRow) /\ Len(subs') = Len(subs) /\ subs' # <<>> /\ subs'[x.sub] = y
  BY <1>2, <1>3, <1>5, <1>6, ARowIsWritten
<1>8. /\ IsAsk(j) /\ j.pc = "column" /\ j.op = x.op /\ j.tier = x.tier /\ j.over = x.over
      /\ j.sub = x.sub /\ j.seen = x.seen
  BY <1>1, <1>2 DEF IsAsk
<1>9. AskOK(j)'
  BY <1>2, <1>3, <1>7, <1>8 DEF AskOK
<1>10. /\ planJob' \in [Builders -> {planJob'[q] : q \in Builders}]
       /\ \A q \in Builders : IsAsk(planJob'[q]) /\ AskOK(planJob[q])'
  BY <1>2, <1>6, <1>7, <1>8, <1>9, PlanByOvertaking
<1>11. overtaken \in BOOLEAN /\ overtaken' \in BOOLEAN /\ (~overtaken' => ~overtaken /\ ~x.stale)
  BY <1>2, <1>6 DEF PlanInv
<1>12. ~x.stale => x.sub = Len(subs) /\ subs[x.sub] = x.seen /\ L!Latest = x.seen /\ L!Latest' = y
  BY <1>2, <1>7 DEF AskOK, L!Latest
<1>13. subs # <<>>
  BY <1>2, <1>3
<1>14. L!SeatsWithinLimit'
  <2> SUFFICES ASSUME ~overtaken', ~joined, ~lowered PROVE ~(seats > L!Effective(L!Latest)')
    BY <1>6 DEF L!SeatsWithinLimit
  <2>1. ~(seats > L!Effective(x.seen))
    BY <1>11, <1>12, <1>13 DEF PlanInv, L!SeatsWithinLimit
  <2>2. L!Effective(L!Latest)' = L!Effective(y)
    BY <1>11, <1>12 DEF L!Effective
  <2>3. y.limits = x.seen.limits
    BY <1>5, <1>11, <1>12
  <2>4. CASE y.limits["seats"] # NoKeys
    BY <1>3, <1>5, <2>1, <2>2, <2>3, <2>4, EffectiveIs
  <2>5. CASE y.limits["seats"] = NoKeys
    <3>1. L!Effective(y) = SeatsOf[x.tier] /\ L!Effective(x.seen) = SeatsOf[x.seen.plan]
      BY <1>3, <1>5, <2>3, <2>5, EffectiveIs
    <3>2. seats <= SeatsOf[x.tier] \/ x.tier >= x.seen.plan
      BY <1>2, <1>11 DEF AskOK
    <3>3. x.seen.plan \in DOMAIN Tiers
      BY <1>3 DEF SubRow
    <3>4. SeatsOf[x.tier] \in Nat /\ SeatsOf[x.seen.plan] \in Nat
      BY <1>3, <3>3, PlansAre
    <3>5. x.tier >= x.seen.plan => SeatsOf[x.seen.plan] <= SeatsOf[x.tier]
      BY <1>3, <3>3, PlansAre
    <3> QED BY <1>2, <2>1, <2>2, <3>1, <3>2, <3>4, <3>5
  <2> QED BY <2>4, <2>5
<1>15. L!ExceptionsAreKept'
  <2>1. ~overtaken' => \A k \in L!Keys : x.seen.limits[k] = promised[k]
    BY <1>11, <1>12, <1>13 DEF PlanInv, L!ExceptionsAreKept
  <2> QED BY <1>5, <1>6, <1>11, <1>12, <2>1 DEF L!ExceptionsAreKept
<1>16. /\ orgPlan' \in DOMAIN Tiers /\ seats' \in Nat \ {0}
       /\ joined' \in BOOLEAN /\ lowered' \in BOOLEAN /\ promised' \in Limits
  BY <1>6 DEF PlanInv
<1> QED BY <1>7, <1>10, <1>11, <1>14, <1>15, <1>16, Zenon DEF PlanInv

LEMMA PlanByOverriding == ASSUME PlanInv, NEW r \in Builders, L!SetsOverrides(r) PROVE PlanInv'
<1>1. PICK x : x = planJob[r]
  OBVIOUS
<1>2. PICK new, y : new = L!Merges(x.seen.limits, x.over) /\ y = [subs[x.sub] EXCEPT !.limits = new]
  OBVIOUS
<1>3. /\ IsAsk(x) /\ AskOK(x) /\ x.pc = "check" /\ x.op = "override"
      /\ Len(subs) \in Nat /\ subs \in Seq(SubRow) /\ x.stale \in BOOLEAN /\ seats \in Nat
  BY <1>1, AskHas DEF L!SetsOverrides, IsAsk
<1>4. x.seen \in SubRow /\ x.sub \in 1 .. Len(subs) /\ x.over \in Limits /\ x.seen.limits \in Limits
  BY <1>3, PlansAre DEF AskOK, SubRow
<1>5. subs[x.sub] \in SubRow
  BY <1>3, <1>4
<1>6. /\ new \in Limits
      /\ \A k \in L!Keys : new[k] = IF x.over[k] # NoKeys THEN x.over[k] ELSE x.seen.limits[k]
  BY <1>2, <1>4 DEF L!Merges, Limits
<1>7. y \in SubRow /\ y.plan = subs[x.sub].plan /\ y.limits = new
  BY <1>2, <1>5, <1>6 DEF SubRow
<1>8. /\ subs' = [subs EXCEPT ![x.sub] = y] /\ L!Overtakes(r, L!Idle) /\ overtaken' = (overtaken \/ x.stale)
      /\ lowered' = (lowered \/ (new["seats"] # NoKeys /\ new["seats"] < seats))
      /\ promised' = [k \in L!Keys |-> IF x.over[k] # NoKeys THEN x.over[k] ELSE promised[k]]
      /\ UNCHANGED <<orgPlan, seats, joined>>
  BY <1>1, <1>2 DEF L!SetsOverrides
<1>9. /\ subs' \in Seq(SubRow) /\ Len(subs') = Len(subs) /\ subs' # <<>> /\ subs'[x.sub] = y
  BY <1>3, <1>4, <1>7, <1>8, ARowIsWritten
<1>10. IsAsk(L!Idle) /\ AskOK(L!Idle)'
  BY DEF IsAsk, AskOK, L!Idle
<1>11. /\ planJob' \in [Builders -> {planJob'[q] : q \in Builders}]
       /\ \A q \in Builders : IsAsk(planJob'[q]) /\ AskOK(planJob[q])'
  BY <1>3, <1>8, <1>9, <1>10, PlanByOvertaking
<1>12. overtaken \in BOOLEAN /\ overtaken' \in BOOLEAN /\ (~overtaken' => ~overtaken /\ ~x.stale)
  BY <1>3, <1>8 DEF PlanInv
<1>13. /\ lowered \in BOOLEAN /\ lowered' \in BOOLEAN
       /\ ~lowered' => ~lowered /\ ~(new["seats"] # NoKeys /\ new["seats"] < seats)
  BY <1>8 DEF PlanInv
<1>14. ~x.stale => x.sub = Len(subs) /\ subs[x.sub] = x.seen /\ L!Latest = x.seen /\ L!Latest' = y
  BY <1>3, <1>9 DEF AskOK, L!Latest
<1>15. subs # <<>> /\ promised \in Limits
  BY <1>3, <1>4 DEF PlanInv
<1>16. L!SeatsWithinLimit'
  <2> SUFFICES ASSUME ~overtaken', ~joined, ~lowered' PROVE ~(seats > L!Effective(L!Latest)')
    BY <1>8 DEF L!SeatsWithinLimit
  <2>1. ~(seats > L!Effective(x.seen))
    BY <1>12, <1>13, <1>14, <1>15 DEF PlanInv, L!SeatsWithinLimit
  <2>2. L!Effective(L!Latest)' = L!Effective(y)
    BY <1>12, <1>14 DEF L!Effective
  <2>3. y.plan = x.seen.plan
    BY <1>7, <1>12, <1>14
  <2>4. CASE new["seats"] # NoKeys
    <3>1. L!Effective(y) = new["seats"] /\ L!Effective(y) \in Nat
      BY <1>7, <2>4, EffectiveIs
    <3> QED BY <1>3, <1>13, <2>2, <2>4, <3>1
  <2>5. CASE new["seats"] = NoKeys
    <3>1. x.seen.limits["seats"] = NoKeys
      BY <1>6, <2>5 DEF L!Keys
    <3>2. L!Effective(y) = SeatsOf[x.seen.plan] /\ L!Effective(x.seen) = SeatsOf[x.seen.plan]
      BY <1>4, <1>7, <2>3, <2>5, <3>1, EffectiveIs
    <3> QED BY <2>1, <2>2, <3>2
  <2> QED BY <2>4, <2>5
<1>17. L!ExceptionsAreKept'
  <2>1. ~overtaken' => \A k \in L!Keys : x.seen.limits[k] = promised[k]
    BY <1>12, <1>14, <1>15 DEF PlanInv, L!ExceptionsAreKept
  <2>2. ~overtaken' => L!Latest' = y /\ \A k \in L!Keys : y.limits[k] = promised'[k]
    BY <1>6, <1>7, <1>8, <1>12, <1>14, <2>1
  <2> QED BY <2>2 DEF L!ExceptionsAreKept
<1>18. promised' \in Limits
  BY <1>4, <1>8, <1>15 DEF Limits
<1>19. orgPlan' \in DOMAIN Tiers /\ seats' \in Nat \ {0} /\ joined' \in BOOLEAN
  BY <1>8 DEF PlanInv
<1> QED BY <1>9, <1>11, <1>12, <1>13, <1>16, <1>17, <1>18, <1>19, Zenon DEF PlanInv

LEMMA PlanByStanding == ASSUME PlanInv, UNCHANGED planVars PROVE PlanInv'
<1>1. UNCHANGED <<subs, orgPlan, seats, planJob, joined, overtaken, lowered, promised>>
  BY DEF planVars
<1>2. \A r \in Builders : AskOK(planJob[r])'
  BY <1>1 DEF PlanInv, AskOK, L!Latest, L!Effective
<1>3. L!SeatsWithinLimit' /\ L!ExceptionsAreKept'
  BY <1>1 DEF PlanInv, L!SeatsWithinLimit, L!ExceptionsAreKept, L!Latest, L!Effective
<1> QED BY <1>1, <1>2, <1>3 DEF PlanInv

\* Seats stay within the limit and the exceptions negotiated in force, however many
\* requests of whatever kind cross - but for the ways the two properties name
\* (billing.service.ts:97-199).
THEOREM PlansBindTheorem == AllSpec => []PlansBind
<1>1. PlanInv /\ [AllNext]_AllVars => PlanInv'
  <2> SUFFICES ASSUME PlanInv, L!Next \/ UNCHANGED planVars PROVE PlanInv'
    BY StepsOnePart
  <2>1. ASSUME NEW r \in Builders, L!Begins(r) \/ L!Finds(r) \/ L!ReadsOrganization(r) \/ L!Creates(r) PROVE PlanInv'
    BY <2>1, PlanByBeginning, PlanByFinding, PlanByReading, PlanByCreating
  <2>2. ASSUME NEW r \in Builders, L!ChecksSeats(r) \/ L!Joins(r) \/ L!ChecksPlan(r) \/ L!WritesPlan(r) PROVE PlanInv'
    BY <2>2, PlanByChecking, PlanByJoining, PlanByWriting
  <2>3. ASSUME NEW r \in Builders, L!WritesColumn(r) \/ L!SetsOverrides(r) PROVE PlanInv'
    BY <2>3, PlanByColumn, PlanByOverriding
  <2> QED BY <2>1, <2>2, <2>3, PlanByDirectory, PlanByRemoving, PlanByStanding DEF L!Next
<1>2. PlanInv => PlansBind
  BY DEF PlanInv, PlansBind
<1> QED BY <1>1, <1>2, StartsEveryPart, PlanInit, PTL DEF AllSpec

-----------------------------------------------------------------------------
(* One connection, its logins and its administration.                      *)

IsLogin(j) ==
  /\ j \in [pc : {j.pc}, state : {j.state}, uri : {j.uri}, sig : {j.sig}, keys : {j.keys},
            pass : {1, 2}, active : BOOLEAN]
IsQuiet(q) == q \in [pc : {q.pc}, uri : {q.uri}, scim : {q.scim}]

\* A key of one URI that the provider has published by now.
WasPublished(k, uri) == k = [uri |-> uri, key |-> k.key] /\ k.key \in 0 .. provider[uri]

\* What a login holds was published in the order it was read; one that was told its
\* person may enter has seen every suspension since.
LoginOK(j) ==
  /\ j.pc \in {"verify", "store", "judge"} => j.uri \in Uris /\ WasPublished(j.sig, j.uri)
  /\ j.pc \in {"store", "judge"} => WasPublished(j.keys, j.uri) /\ j.sig.key <= j.keys.key
  /\ j.pc = "activate" /\ j.active /\ told.suspended => "person" \in told.stale

SignOnInv ==
  /\ conn \in [exists : BOOLEAN, enabled : BOOLEAN, uri : Uris, scim : {conn.scim}]
  /\ provider \in [Uris -> Nat]
  /\ person \in [known : BOOLEAN, active : BOOLEAN]
  /\ told \in [suspended : BOOLEAN, outage : BOOLEAN, stale : SUBSET {"keys", "config", "person"}]
  /\ login \in [Logins -> {login[l] : l \in Logins}]
  /\ \A l \in Logins : IsLogin(login[l]) /\ LoginOK(login[l])
  /\ admin \in [Builders -> {admin[a] : a \in Builders}]
  /\ \A a \in Builders : IsQuiet(admin[a]) /\ admin[a].uri \in Uris
  /\ ~person.known => ~told.suspended
  /\ S!ChangesTakeEffect
  /\ S!RotationIsNoOutage

ConfigKept == conn.scim # shown => "config" \in told.stale
KeysKept ==
  cache # NoKeys /\ cache.uri # conn.uri /\ (\A a \in Builders : admin[a].pc # "forget") => "keys" \in told.stale
PersonKept == told.suspended /\ person.active => "person" \in told.stale
IsTold(x) == x \in [suspended : BOOLEAN, outage : BOOLEAN, stale : SUBSET {"keys", "config", "person"}]
IsPerson(x) == x \in [known : BOOLEAN, active : BOOLEAN]

LEMMA TakesEffectIs == S!ChangesTakeEffect <=> ConfigKept /\ KeysKept /\ PersonKept
  BY DEF S!ChangesTakeEffect, ConfigKept, KeysKept, PersonKept

LEMMA QuietIs == IsQuiet(S!Quiet) /\ S!Quiet.uri \in Uris /\ S!Quiet.pc = "idle"
  BY StaffAssumption DEF StaffAssumption, S!Quiet, IsQuiet

LEMMA NoLoginIs == IsLogin(S!NoLogin) /\ S!NoLogin.pc = "idle" /\ S!NoLogin.active = TRUE /\ S!NoLogin.pass = 1
  BY DEF IsLogin, S!NoLogin

LEMMA SignOnInit == S!Init => SignOnInv
<1> SUFFICES ASSUME S!Init PROVE SignOnInv
  OBVIOUS
<1>1. /\ conn = [exists |-> TRUE, enabled |-> TRUE, uri |-> S!Quiet.uri, scim |-> 0]
      /\ provider = [u \in Uris |-> 0] /\ cache = NoKeys /\ shown = 0
      /\ login = [l \in Logins |-> S!NoLogin] /\ admin = [a \in Builders |-> S!Quiet]
      /\ told = [suspended |-> FALSE, outage |-> FALSE, stale |-> {}]
      /\ person \in {[known |-> FALSE, active |-> TRUE], [known |-> TRUE, active |-> TRUE]}
  BY Zenon DEF S!Init
<1>2. \A l \in Logins : IsLogin(login[l]) /\ LoginOK(login[l])
  BY <1>1, NoLoginIs DEF LoginOK
<1>3. \A a \in Builders : IsQuiet(admin[a]) /\ admin[a].uri \in Uris
  BY <1>1, QuietIs
<1>4. ConfigKept /\ KeysKept /\ PersonKept /\ S!RotationIsNoOutage
  BY <1>1 DEF ConfigKept, KeysKept, PersonKept, S!RotationIsNoOutage
<1>5. person \in [known : BOOLEAN, active : BOOLEAN]
  <2>1. ASSUME NEW b \in BOOLEAN PROVE [known |-> b, active |-> TRUE] \in [known : BOOLEAN, active : BOOLEAN]
    OBVIOUS
  <2> QED BY <1>1, <2>1
<1> QED BY <1>1, <1>2, <1>3, <1>4, <1>5, QuietIs, TakesEffectIs DEF SignOnInv

\* What a login knows, it goes on knowing while keys are only ever added and what was
\* stale stays so.
LEMMA LoginStands ==
  ASSUME SignOnInv, NEW j, IsLogin(j), LoginOK(j), provider' \in [Uris -> Nat],
         \A u \in Uris : provider[u] <= provider'[u],
         j.pc = "activate" /\ j.active /\ told'.suspended =>
           told.suspended /\ told.stale \subseteq told'.stale
  PROVE  LoginOK(j)'
<1>1. provider \in [Uris -> Nat]
  BY DEF SignOnInv
<1>2. \A k : \A u \in Uris : WasPublished(k, u) => WasPublished(k, u)'
  BY <1>1 DEF WasPublished
<1> QED BY <1>2 DEF LoginOK

LEMMA SignOnByLogin ==
  ASSUME SignOnInv, NEW l \in Logins, NEW j, IsLogin(j), LoginOK(j)', login' = [login EXCEPT ![l] = j],
         S!OwnStep, IsPerson(person'), IsTold(told'), told'.suspended = told.suspended,
         told.stale \subseteq told'.stale, told'.outage = FALSE, ~person'.known => ~person.known,
         KeysKept', PersonKept'
  PROVE  SignOnInv'
<1>1. UNCHANGED <<conn, provider, admin, shown>>
  BY DEF S!OwnStep
<1>2. provider \in [Uris -> Nat] /\ \A u \in Uris : provider[u] <= provider'[u]
  BY <1>1 DEF SignOnInv
<1>3. ASSUME NEW m \in Logins PROVE IsLogin(login'[m]) /\ LoginOK(login[m])'
  <2>1. CASE m = l
    BY <2>1 DEF SignOnInv
  <2>2. CASE m # l
    <3>1. PICK x : x = login[m]
      OBVIOUS
    <3>2. login'[m] = x /\ IsLogin(x) /\ LoginOK(x)
      BY <2>2, <3>1 DEF SignOnInv
    <3>3. LoginOK(x)'
      BY <1>1, <1>2, <3>2, LoginStands
    <3> QED BY <3>2, <3>3
  <2> QED BY <2>1, <2>2
<1>4. login' \in [Logins -> {login'[m] : m \in Logins}]
  BY DEF SignOnInv
<1>5. ConfigKept'
  BY <1>1, TakesEffectIs DEF SignOnInv, ConfigKept
<1>6. S!ChangesTakeEffect'
  BY <1>5 DEF S!ChangesTakeEffect, ConfigKept, KeysKept, PersonKept
<1>7. S!RotationIsNoOutage'
  BY DEF S!RotationIsNoOutage
<1> QED BY <1>1, <1>3, <1>4, <1>6, <1>7 DEF SignOnInv, IsPerson, IsTold

LEMMA LoginHas ==
  ASSUME SignOnInv, NEW l \in Logins
  PROVE  /\ IsLogin(login[l]) /\ LoginOK(login[l]) /\ IsTold(told) /\ IsPerson(person)
         /\ told.outage = FALSE /\ KeysKept /\ PersonKept
  BY TakesEffectIs DEF SignOnInv, S!RotationIsNoOutage, IsTold, IsPerson

\* A login that only reads.
LEMMA SignOnByReading ==
  ASSUME SignOnInv, NEW l \in Logins, NEW j, IsLogin(j), LoginOK(j)', login' = [login EXCEPT ![l] = j],
         S!OwnStep, UNCHANGED <<cache, person, told>>
  PROVE  SignOnInv'
<1>1. KeysKept' /\ PersonKept'
  BY LoginHas DEF KeysKept, PersonKept, S!OwnStep
<1> QED BY <1>1, SignOnByLogin, LoginHas

\* It is over, or goes on with nothing it has to be right about.
LEMMA SignOnByMoving ==
  ASSUME SignOnInv, NEW l \in Logins, NEW j, IsLogin(j),
         j.pc \notin {"verify", "store", "judge", "activate"}, login' = [login EXCEPT ![l] = j],
         S!OwnStep, UNCHANGED <<cache, person, told>>
  PROVE  SignOnInv'
<1>1. LoginOK(j)'
  BY DEF LoginOK
<1> QED BY <1>1, SignOnByReading

LEMMA SignOnByFailing ==
  ASSUME SignOnInv, NEW l \in Logins, S!Fails(l), S!OwnStep, UNCHANGED <<cache, person, told>>
  PROVE  SignOnInv'
  BY NoLoginIs, SignOnByMoving DEF S!Fails, S!Becomes

LEMMA SignOnByPending ==
  ASSUME SignOnInv, UNCHANGED <<conn, provider, cache, person, login, admin, shown, told>>
  PROVE  SignOnInv'
<1>1. \A l \in Logins : LoginOK(login[l])'
  BY DEF SignOnInv, LoginOK, WasPublished
<1>2. S!ChangesTakeEffect' /\ S!RotationIsNoOutage'
  BY DEF SignOnInv, S!ChangesTakeEffect, S!RotationIsNoOutage
<1> QED BY <1>1, <1>2 DEF SignOnInv

LEMMA SignOnByCallingBack ==
  ASSUME SignOnInv, NEW l \in Logins, NEW s, S!CallsBack(l, s) PROVE SignOnInv'
<1>1. PICK j : j = [S!NoLogin EXCEPT !.pc = "delete", !.state = s]
  OBVIOUS
<1>2. IsLogin(j) /\ j.pc = "delete"
  BY <1>1, NoLoginIs DEF IsLogin
<1> QED BY <1>1, <1>2, SignOnByMoving DEF S!CallsBack, S!Becomes

LEMMA SignOnByConsuming == ASSUME SignOnInv, NEW l \in Logins, S!Consumes(l) PROVE SignOnInv'
<1>1. PICK x, j : x = login[l] /\ j = [x EXCEPT !.pc = "connect"]
  OBVIOUS
<1>2. IsLogin(x)
  BY <1>1, LoginHas
<1>3. IsLogin(j) /\ j.pc = "connect"
  BY <1>1, <1>2 DEF IsLogin
<1> QED BY <1>1, <1>3, SignOnByMoving DEF S!Consumes, S!Becomes

LEMMA SignOnByConnecting == ASSUME SignOnInv, NEW l \in Logins, S!Connects(l) PROVE SignOnInv'
<1>1. CASE S!Fails(l)
  BY <1>1, SignOnByFailing DEF S!Connects
<1>2. CASE ~S!Fails(l)
  <2>1. PICK x, j : x = login[l] /\ j = [x EXCEPT !.pc = "verify", !.uri = conn.uri, !.sig = S!Published(conn.uri)]
    OBVIOUS
  <2>2. IsLogin(x) /\ login' = [login EXCEPT ![l] = j] /\ S!OwnStep /\ UNCHANGED <<cache, person, told>>
    BY <1>2, <2>1, LoginHas DEF S!Connects, S!Becomes
  <2>3. IsLogin(j) /\ j.pc = "verify" /\ j.uri = conn.uri /\ j.sig = [uri |-> conn.uri, key |-> provider[conn.uri]]
    BY <2>1, <2>2 DEF IsLogin, S!Published
  <2>4. conn.uri \in Uris /\ provider \in [Uris -> Nat] /\ provider' = provider
    BY <2>2 DEF SignOnInv, S!OwnStep
  <2>5. LoginOK(j)'
    BY <2>3, <2>4 DEF LoginOK, WasPublished
  <2> QED BY <2>2, <2>3, <2>5, SignOnByReading
<1> QED BY <1>1, <1>2

\* Keys other than the one that signed: at the last pass they were fetched after it was
\* published, so the provider has published another one since.
LEMMA SignOnByJudging ==
  ASSUME SignOnInv, NEW l \in Logins, NEW keys, S!Judged(l, keys), login[l].pc \in {"verify", "judge"},
         login[l].pass # 1 => WasPublished(keys, login[l].uri) /\ login[l].sig.key <= keys.key,
         S!OwnStep, UNCHANGED <<cache, person>>
  PROVE  SignOnInv'
<1>1. PICK x : x = login[l]
  OBVIOUS
<1>2. /\ IsLogin(x) /\ LoginOK(x) /\ x.uri \in Uris /\ WasPublished(x.sig, x.uri) /\ x.pass \in {1, 2}
      /\ told.outage = FALSE /\ IsTold(told) /\ provider \in [Uris -> Nat] /\ provider' = provider
  BY <1>1, LoginHas DEF LoginOK, IsLogin, SignOnInv, S!OwnStep
<1>3. CASE keys = x.sig
  <2>1. PICK j : j = [x EXCEPT !.pc = "provision", !.keys = NoKeys]
    OBVIOUS
  <2>2. login' = [login EXCEPT ![l] = j] /\ UNCHANGED told
    BY <1>1, <1>3, <2>1 DEF S!Judged, S!Becomes
  <2>3. IsLogin(j) /\ j.pc = "provision"
    BY <1>2, <2>1 DEF IsLogin
  <2> QED BY <2>2, <2>3, SignOnByMoving
<1>4. CASE keys # x.sig /\ x.pass = 1
  <2>1. PICK j : j = [x EXCEPT !.pc = "verify", !.keys = NoKeys, !.pass = 2]
    OBVIOUS
  <2>2. login' = [login EXCEPT ![l] = j] /\ UNCHANGED told
    BY <1>1, <1>4, <2>1 DEF S!Judged, S!Becomes, S!LastPass
  <2>3. IsLogin(j) /\ j.pc = "verify" /\ j.uri = x.uri /\ j.sig = x.sig
    BY <1>2, <2>1 DEF IsLogin
  <2>4. LoginOK(j)'
    BY <1>2, <2>3 DEF LoginOK, WasPublished
  <2> QED BY <2>2, <2>3, <2>4, SignOnByReading
<1>5. CASE keys # x.sig /\ x.pass = 2
  <2>1. /\ S!Fails(l)
        /\ told' = [told EXCEPT !.outage = @ \/ x.sig = S!Published(x.uri)]
    BY <1>1, <1>5 DEF S!Judged, S!LastPass
  <2>2. x.sig # S!Published(x.uri)
    BY <1>1, <1>2, <1>5 DEF S!Published, WasPublished
  <2>3. told' = told
    BY <1>2, <2>1, <2>2 DEF IsTold
  <2> QED BY <2>1, <2>3, SignOnByFailing
<1> QED BY <1>2, <1>3, <1>4, <1>5

LEMMA SignOnByUsingCache == ASSUME SignOnInv, NEW l \in Logins, S!UsesCache(l) PROVE SignOnInv'
  BY SignOnByJudging DEF S!UsesCache

LEMMA SignOnByJudgingFresh == ASSUME SignOnInv, NEW l \in Logins, S!Judges(l) PROVE SignOnInv'
<1>1. login[l].pc = "judge" => WasPublished(login[l].keys, login[l].uri) /\ login[l].sig.key <= login[l].keys.key
  BY LoginHas DEF LoginOK
<1> QED BY <1>1, SignOnByJudging DEF S!Judges

LEMMA SignOnByFetching == ASSUME SignOnInv, NEW l \in Logins, S!Fetches(l) PROVE SignOnInv'
<1>1. PICK x, j : x = login[l] /\ j = [x EXCEPT !.pc = "store", !.keys = S!Published(x.uri)]
  OBVIOUS
<1>2. /\ IsLogin(x) /\ LoginOK(x) /\ x.pc = "verify" /\ login' = [login EXCEPT ![l] = j]
      /\ S!OwnStep /\ UNCHANGED <<cache, person, told>>
  BY <1>1, LoginHas DEF S!Fetches, S!Becomes
<1>3. /\ IsLogin(j) /\ j.pc = "store" /\ j.uri = x.uri /\ j.sig = x.sig
      /\ j.keys = [uri |-> x.uri, key |-> provider[x.uri]]
  BY <1>1, <1>2 DEF IsLogin, S!Published
<1>4. x.uri \in Uris /\ WasPublished(x.sig, x.uri) /\ provider \in [Uris -> Nat] /\ provider' = provider
  BY <1>2 DEF LoginOK, SignOnInv, S!OwnStep
<1>5. LoginOK(j)'
  BY <1>3, <1>4 DEF LoginOK, WasPublished
<1> QED BY <1>2, <1>3, <1>5, SignOnByReading

LEMMA StaleMore ==
  ASSUME IsTold(told), NEW s \in SUBSET {"keys", "config", "person"},
         told' = [told EXCEPT !.stale = @ \cup s]
  PROVE  /\ IsTold(told') /\ told'.suspended = told.suspended /\ told'.outage = told.outage
         /\ told'.stale = told.stale \cup s
  BY DEF IsTold

LEMMA SignOnByCaching == ASSUME SignOnInv, NEW l \in Logins, S!Caches(l) PROVE SignOnInv'
<1>1. PICK x, j, s : x = login[l] /\ j = [x EXCEPT !.pc = "judge"] /\ s = S!Stale(x.keys)
  OBVIOUS
<1>2. /\ IsLogin(x) /\ LoginOK(x) /\ x.pc = "store" /\ login' = [login EXCEPT ![l] = j]
      /\ S!OwnStep /\ UNCHANGED person /\ cache' = x.keys /\ told' = [told EXCEPT !.stale = @ \cup s]
      /\ IsTold(told) /\ told.outage = FALSE /\ PersonKept /\ IsPerson(person)
  BY <1>1, LoginHas DEF S!Caches, S!Becomes, S!Stores
<1>3. s \in SUBSET {"keys", "config", "person"} /\ (x.keys.uri # conn.uri => "keys" \in s)
  BY <1>1 DEF S!Stale
<1>4. /\ IsTold(told') /\ told'.suspended = told.suspended /\ told'.outage = FALSE
      /\ told'.stale = told.stale \cup s
  BY <1>2, <1>3, StaleMore
<1>5. IsLogin(j) /\ j.pc = "judge" /\ j.uri = x.uri /\ j.sig = x.sig /\ j.keys = x.keys
  BY <1>1, <1>2 DEF IsLogin
<1>6. LoginOK(j)'
  BY <1>2, <1>5 DEF LoginOK, WasPublished, S!OwnStep
<1>7. KeysKept' /\ PersonKept'
  BY <1>2, <1>3, <1>4 DEF KeysKept, PersonKept, S!OwnStep
<1> QED BY <1>2, <1>4, <1>5, <1>6, <1>7, SignOnByLogin

LEMMA SignOnByProvisioning == ASSUME SignOnInv, NEW l \in Logins, S!Provisions(l) PROVE SignOnInv'
<1>1. PICK x : x = login[l]
  OBVIOUS
<1>2. /\ IsLogin(x) /\ LoginOK(x) /\ IsTold(told) /\ told.outage = FALSE /\ PersonKept /\ IsPerson(person) /\ KeysKept
      /\ (~person.known => ~told.suspended)
      /\ S!OwnStep /\ UNCHANGED <<cache, told>>
  BY <1>1, LoginHas DEF S!Provisions, SignOnInv
<1>3. CASE S!Fails(l) /\ UNCHANGED person
  BY <1>2, <1>3, SignOnByFailing
<1>4. CASE person.known /\ person.active /\ S!Becomes(l, [login[l] EXCEPT !.pc = "activate"]) /\ UNCHANGED person
  <2>1. PICK j : j = [x EXCEPT !.pc = "activate"]
    OBVIOUS
  <2>2. login' = [login EXCEPT ![l] = j] /\ IsLogin(j) /\ j.pc = "activate"
    BY <1>1, <1>2, <1>4, <2>1 DEF S!Becomes, IsLogin
  <2>3. LoginOK(j)'
    BY <1>2, <1>4, <2>2 DEF LoginOK, PersonKept
  <2> QED BY <1>2, <1>4, <2>2, <2>3, SignOnByReading
<1>5. CASE ~person.known /\ person' = [known |-> TRUE, active |-> TRUE] /\ S!Becomes(l, [login[l] EXCEPT !.pc = "issue"])
  <2>1. PICK j : j = [x EXCEPT !.pc = "issue"]
    OBVIOUS
  <2>2. login' = [login EXCEPT ![l] = j] /\ IsLogin(j) /\ j.pc = "issue"
    BY <1>1, <1>2, <1>5, <2>1 DEF S!Becomes, IsLogin
  <2>3. LoginOK(j)'
    BY <2>2 DEF LoginOK
  <2>4. KeysKept' /\ PersonKept'
    BY <1>2, <1>5 DEF KeysKept, PersonKept, S!OwnStep
  <2>5. IsPerson(person') /\ (person'.known)
    BY <1>5 DEF IsPerson
  <2> QED BY <1>2, <2>2, <2>3, <2>4, <2>5, SignOnByLogin
<1> QED BY <1>3, <1>4, <1>5 DEF S!Provisions, S!MayEnter

LEMMA SignOnByActivating == ASSUME SignOnInv, NEW l \in Logins, S!Activates(l) PROVE SignOnInv'
<1>1. PICK x, j, s : x = login[l] /\ j = [x EXCEPT !.pc = "issue"] /\ s = IF x.active THEN {} ELSE {"person"}
  OBVIOUS
<1>2. /\ IsLogin(x) /\ LoginOK(x) /\ x.pc = "activate" /\ login' = [login EXCEPT ![l] = j]
      /\ S!OwnStep /\ UNCHANGED cache /\ person' = [person EXCEPT !.active = TRUE]
      /\ told' = [told EXCEPT !.stale = @ \cup s]
      /\ IsTold(told) /\ told.outage = FALSE /\ KeysKept /\ IsPerson(person)
  BY <1>1, LoginHas DEF S!Activates, S!Becomes
<1>3. s \in SUBSET {"keys", "config", "person"} /\ (~x.active => "person" \in s)
  BY <1>1
<1>4. /\ IsTold(told') /\ told'.suspended = told.suspended /\ told'.outage = FALSE
      /\ told'.stale = told.stale \cup s
  BY <1>2, <1>3, StaleMore
<1>5. IsLogin(j) /\ j.pc = "issue"
  BY <1>1, <1>2 DEF IsLogin
<1>6. LoginOK(j)'
  BY <1>5 DEF LoginOK
<1>7. IsPerson(person') /\ person'.known = person.known
  BY <1>2 DEF IsPerson
<1>8. KeysKept' /\ PersonKept'
  BY <1>2, <1>3, <1>4 DEF KeysKept, PersonKept, S!OwnStep, LoginOK
<1> QED BY <1>2, <1>4, <1>5, <1>6, <1>7, <1>8, SignOnByLogin

IsConn(c) == c \in [exists : BOOLEAN, enabled : BOOLEAN, uri : Uris, scim : {c.scim}]

LEMMA AdminHas ==
  ASSUME SignOnInv, NEW a \in Builders
  PROVE  /\ IsQuiet(admin[a]) /\ admin[a].uri \in Uris /\ IsTold(told) /\ told.outage = FALSE /\ IsConn(conn)
         /\ ConfigKept /\ KeysKept /\ PersonKept
  BY TakesEffectIs DEF SignOnInv, S!RotationIsNoOutage, IsTold, IsConn

LEMMA SignOnByAdmin ==
  ASSUME SignOnInv, NEW a \in Builders, NEW q, IsQuiet(q), q.uri \in Uris, admin' = [admin EXCEPT ![a] = q],
         S!AdminStep, UNCHANGED person, IsTold(told'), told'.suspended = told.suspended,
         told.stale \subseteq told'.stale, told'.outage = FALSE, IsConn(conn'), ConfigKept', KeysKept'
  PROVE  SignOnInv'
<1>1. UNCHANGED <<provider, login>>
  BY DEF S!AdminStep
<1>2. provider \in [Uris -> Nat] /\ \A u \in Uris : provider[u] <= provider'[u]
  BY <1>1 DEF SignOnInv
<1>3. ASSUME NEW l \in Logins PROVE LoginOK(login[l])'
  <2>1. PICK x : x = login[l]
    OBVIOUS
  <2>2. login'[l] = x /\ IsLogin(x) /\ LoginOK(x)
    BY <1>1, <2>1, LoginHas
  <2>3. LoginOK(x)'
    BY <1>1, <1>2, <2>2, LoginStands
  <2> QED BY <2>2, <2>3
<1>4. /\ admin' \in [Builders -> {admin'[b] : b \in Builders}]
      /\ \A b \in Builders : IsQuiet(admin'[b]) /\ admin'[b].uri \in Uris
  BY DEF SignOnInv
<1>5. S!ChangesTakeEffect' /\ S!RotationIsNoOutage'
  <2>1. PersonKept'
    BY AdminHas DEF PersonKept
  <2> QED BY <2>1 DEF S!ChangesTakeEffect, ConfigKept, KeysKept, PersonKept, S!RotationIsNoOutage
<1> QED BY <1>1, <1>3, <1>4, <1>5 DEF SignOnInv, IsTold, IsConn

\* One that leaves the connection, the cache and the history alone, its own keys forgotten.
LEMMA SignOnByAdminMoving ==
  ASSUME SignOnInv, NEW a \in Builders, NEW q, IsQuiet(q), q.uri \in Uris, admin' = [admin EXCEPT ![a] = q],
         S!AdminStep, UNCHANGED <<conn, cache, person, shown, told>>, admin[a].pc # "forget"
  PROVE  SignOnInv'
<1>1. ConfigKept'
  BY AdminHas DEF ConfigKept
<1>2. KeysKept'
  <2>1. KeysKept /\ \A b \in Builders : b # a => admin'[b] = admin[b]
    BY AdminHas DEF SignOnInv
  <2> QED BY <2>1 DEF KeysKept
<1> QED BY <1>1, <1>2, AdminHas, SignOnByAdmin

LEMMA SignOnByLoading == ASSUME SignOnInv, NEW a \in Builders, S!Loads(a) PROVE SignOnInv'
<1>1. PICK pc : admin[a].pc = "idle" /\ admin' = [admin EXCEPT ![a] = S!Loaded(pc)]
  BY DEF S!Loads, S!Asks
<1>2. PICK q : q = S!Loaded(pc)
  OBVIOUS
<1>3. IsQuiet(q) /\ q.uri \in Uris
  BY <1>2, AdminHas DEF S!Loaded, IsQuiet, IsConn
<1> QED BY <1>1, <1>2, <1>3, SignOnByAdminMoving DEF S!Loads

LEMMA SignOnByUpdating == ASSUME SignOnInv, NEW a \in Builders, NEW u \in Uris, S!Updates(a, u) PROVE SignOnInv'
<1>1. PICK x, q, s : x = admin[a] /\ q = [x EXCEPT !.pc = "forget"] /\ s = S!Overtaken(a)
  OBVIOUS
<1>2. /\ IsQuiet(x) /\ x.uri \in Uris /\ IsTold(told) /\ told.outage = FALSE /\ IsConn(conn) /\ ConfigKept
      /\ conn' = [conn EXCEPT !.uri = u, !.scim = x.scim] /\ admin' = [admin EXCEPT ![a] = q]
      /\ told' = [told EXCEPT !.stale = @ \cup s]
      /\ S!AdminStep /\ UNCHANGED <<cache, person, shown>>
  BY <1>1, AdminHas DEF S!Updates, S!Proceeds, S!AfterUpdate
<1>3. s \in SUBSET {"keys", "config", "person"} /\ (x.scim # conn.scim => "config" \in s)
  BY <1>1 DEF S!Overtaken
<1>4. /\ IsTold(told') /\ told'.suspended = told.suspended /\ told'.outage = FALSE
      /\ told'.stale = told.stale \cup s
  BY <1>2, <1>3, StaleMore
<1>5. IsQuiet(q) /\ q.uri \in Uris /\ q.pc = "forget"
  BY <1>1, <1>2 DEF IsQuiet
<1>6. IsConn(conn') /\ conn'.scim = x.scim
  BY <1>2 DEF IsConn
<1>7. ConfigKept'
  BY <1>2, <1>3, <1>4, <1>6 DEF ConfigKept
<1>8. admin'[a].pc = "forget"
  BY <1>2, <1>5 DEF SignOnInv
<1>9. KeysKept'
  BY <1>8 DEF KeysKept
<1> QED BY <1>2, <1>4, <1>5, <1>6, <1>7, <1>9, SignOnByAdmin

LEMMA SignOnByForgetting == ASSUME SignOnInv, NEW a \in Builders, S!Forgets(a) PROVE SignOnInv'
<1>1. /\ cache' = NoKeys /\ admin' = [admin EXCEPT ![a] = S!Quiet]
      /\ S!AdminStep /\ UNCHANGED <<conn, person, shown, told>>
  BY DEF S!Forgets, S!Proceeds
<1>2. ConfigKept' /\ KeysKept'
  BY <1>1, AdminHas DEF ConfigKept, KeysKept
<1> QED BY <1>1, <1>2, QuietIs, AdminHas, SignOnByAdmin

LEMMA SignOnByRotating == ASSUME SignOnInv, NEW a \in Builders, S!Rotates(a) PROVE SignOnInv'
<1>1. PICK x, s : x = admin[a] /\ s = S!Overtaken(a) \cup IF x.uri # conn.uri THEN {"keys"} ELSE {}
  OBVIOUS
<1>2. /\ IsQuiet(x) /\ x.uri \in Uris /\ x.pc = "rotate" /\ IsTold(told) /\ told.outage = FALSE /\ IsConn(conn)
      /\ KeysKept
      /\ conn' = [conn EXCEPT !.uri = x.uri, !.scim = shown + 1] /\ admin' = [admin EXCEPT ![a] = S!Quiet]
      /\ shown' = shown + 1
      /\ told'.stale = told.stale \cup s
      /\ S!AdminStep /\ UNCHANGED <<cache, person>>
  BY <1>1, AdminHas DEF S!Rotates, S!Proceeds, IsTold
<1>3. s \in SUBSET {"keys", "config", "person"} /\ (x.uri # conn.uri => "keys" \in s)
  BY <1>1 DEF S!Overtaken
<1>4. IsTold(told') /\ told'.suspended = told.suspended /\ told'.outage = FALSE
  BY <1>1, <1>2, <1>3 DEF IsTold, S!Rotates, S!Overtaken
<1>5. IsConn(conn') /\ conn'.scim = shown' /\ conn'.uri = x.uri
  BY <1>2 DEF IsConn
<1>6. ConfigKept'
  BY <1>5 DEF ConfigKept
<1>7. KeysKept'
  <2>1. admin[a].pc # "forget" /\ \A b \in Builders : b # a => admin'[b] = admin[b]
    BY <1>1, <1>2 DEF SignOnInv
  <2> QED BY <1>2, <1>3, <1>5, <2>1 DEF KeysKept
<1> QED BY <1>2, <1>4, <1>5, <1>6, <1>7, QuietIs, SignOnByAdmin

LEMMA SignOnByProbing == ASSUME SignOnInv, NEW a \in Builders, S!Probes(a) PROVE SignOnInv'
<1>1. PICK x, q, s : x = admin[a] /\ q = [x EXCEPT !.pc = "enabled"] /\ s = S!Stale(S!Published(x.uri))
  OBVIOUS
<1>2. /\ IsQuiet(x) /\ x.uri \in Uris /\ x.pc = "enable" /\ IsTold(told) /\ told.outage = FALSE /\ IsConn(conn)
      /\ ConfigKept
      /\ cache' = S!Published(x.uri) /\ admin' = [admin EXCEPT ![a] = q]
      /\ told' = [told EXCEPT !.stale = @ \cup s]
      /\ S!AdminStep /\ UNCHANGED <<conn, person, shown>>
  BY <1>1, AdminHas DEF S!Probes, S!Proceeds, S!Stores
<1>3. s \in SUBSET {"keys", "config", "person"} /\ (x.uri # conn.uri => "keys" \in s)
  BY <1>1 DEF S!Stale, S!Published
<1>4. /\ IsTold(told') /\ told'.suspended = told.suspended /\ told'.outage = FALSE
      /\ told'.stale = told.stale \cup s
  BY <1>2, <1>3, StaleMore
<1>5. IsQuiet(q) /\ q.uri \in Uris
  BY <1>1, <1>2 DEF IsQuiet
<1>6. ConfigKept' /\ KeysKept'
  BY <1>2, <1>3, <1>4 DEF ConfigKept, KeysKept, S!Published
<1> QED BY <1>2, <1>4, <1>5, <1>6, SignOnByAdmin

LEMMA SignOnByEnabling == ASSUME SignOnInv, NEW a \in Builders, S!SetsEnabled(a) PROVE SignOnInv'
<1>1. PICK b \in BOOLEAN : conn' = [conn EXCEPT !.enabled = b]
  BY DEF S!SetsEnabled
<1>2. /\ admin[a].pc # "forget" /\ admin' = [admin EXCEPT ![a] = S!Quiet]
      /\ S!AdminStep /\ UNCHANGED <<cache, person, shown, told>>
  BY DEF S!SetsEnabled, S!Proceeds
<1>3. IsConn(conn') /\ conn'.scim = conn.scim /\ conn'.uri = conn.uri
  BY <1>1, AdminHas DEF IsConn
<1>4. ConfigKept'
  BY <1>2, <1>3, AdminHas DEF ConfigKept
<1>5. KeysKept'
  <2>1. KeysKept /\ \A b2 \in Builders : b2 # a => admin'[b2] = admin[b2]
    BY <1>2, AdminHas DEF SignOnInv
  <2> QED BY <1>2, <1>3, <2>1 DEF KeysKept
<1> QED BY <1>2, <1>3, <1>4, <1>5, QuietIs, AdminHas, SignOnByAdmin

LEMMA SignOnByDeleting == ASSUME SignOnInv, NEW a \in Builders, S!Deletes(a) PROVE SignOnInv'
<1>1. PICK x, q : x = admin[a] /\ q = [x EXCEPT !.pc = "forget"]
  OBVIOUS
<1>2. /\ IsQuiet(x) /\ x.uri \in Uris /\ IsConn(conn) /\ ConfigKept
      /\ conn' = [conn EXCEPT !.exists = FALSE] /\ admin' = [admin EXCEPT ![a] = q]
      /\ S!AdminStep /\ UNCHANGED <<cache, person, shown, told>>
  BY <1>1, AdminHas DEF S!Deletes, S!Proceeds
<1>3. IsQuiet(q) /\ q.uri \in Uris /\ q.pc = "forget"
  BY <1>1, <1>2 DEF IsQuiet
<1>4. IsConn(conn') /\ conn'.scim = conn.scim
  BY <1>2 DEF IsConn
<1>5. ConfigKept'
  BY <1>2, <1>4 DEF ConfigKept
<1>6. admin'[a].pc = "forget"
  BY <1>2, <1>3 DEF SignOnInv
<1>7. KeysKept'
  BY <1>6 DEF KeysKept
<1> QED BY <1>2, <1>3, <1>4, <1>5, <1>7, AdminHas, SignOnByAdmin

LEMMA SignOnByThrowing == ASSUME SignOnInv, NEW a \in Builders, S!Throws(a) PROVE SignOnInv'
<1>1. admin[a].pc # "forget" /\ admin' = [admin EXCEPT ![a] = S!Quiet]
  BY DEF S!Throws, S!Proceeds
<1> QED BY <1>1, QuietIs, SignOnByAdminMoving DEF S!Throws

\* Whoever was told before that the person may enter has been told too early.
LEMMA SignOnBySuspending ==
  ASSUME SignOnInv, NEW a \in Builders, NEW b \in BOOLEAN, S!Suspends(a, b) PROVE SignOnInv'
<1>1. /\ person.known /\ admin[a].pc = "idle" /\ admin' = [admin EXCEPT ![a] = S!Quiet]
      /\ person' = [person EXCEPT !.active = b] /\ told' = [told EXCEPT !.suspended = ~b]
      /\ login' = [l \in Logins |-> IF login[l].pc = "activate" THEN [login[l] EXCEPT !.active = b] ELSE login[l]]
      /\ UNCHANGED <<conn, provider, cache, shown>>
  BY DEF S!Suspends, S!Asks
<1>2. /\ IsTold(told) /\ IsPerson(person) /\ told.outage = FALSE /\ ConfigKept /\ KeysKept
      /\ \A c \in Builders : IsQuiet(admin[c]) /\ admin[c].uri \in Uris
  BY AdminHas DEF SignOnInv, IsPerson
<1>3. /\ IsTold(told') /\ told'.suspended = ~b /\ told'.outage = told.outage /\ told'.stale = told.stale
      /\ IsPerson(person') /\ person'.known = person.known /\ person'.active = b
  BY <1>1, <1>2 DEF IsTold, IsPerson
<1>4. ASSUME NEW l \in Logins PROVE IsLogin(login'[l]) /\ LoginOK(login[l])'
  <2>1. PICK x, y : x = login[l] /\ y = [x EXCEPT !.active = b]
    OBVIOUS
  <2>2. IsLogin(x) /\ LoginOK(x) /\ login'[l] = IF x.pc = "activate" THEN y ELSE x
    BY <1>1, <2>1, LoginHas
  <2>3. CASE x.pc = "activate"
    <3>1. IsLogin(y) /\ y.pc = "activate" /\ y.active = b
      BY <2>1, <2>2, <2>3 DEF IsLogin
    <3>2. LoginOK(y)'
      BY <1>3, <3>1 DEF LoginOK
    <3> QED BY <2>2, <2>3, <3>1, <3>2
  <2>4. CASE x.pc # "activate"
    <3>1. LoginOK(x)'
      BY <1>1, <2>2, <2>4 DEF LoginOK, WasPublished
    <3> QED BY <2>2, <2>4, <3>1
  <2> QED BY <2>3, <2>4
<1>5. login' \in [Logins -> {login'[l] : l \in Logins}]
  BY <1>1
<1>6. admin \in [Builders -> {admin[c] : c \in Builders}]
  BY DEF SignOnInv
<1>7. /\ admin' \in [Builders -> {admin'[c] : c \in Builders}]
      /\ \A c \in Builders : admin'[c] = IF c = a THEN S!Quiet ELSE admin[c]
  BY <1>1, <1>6
<1>8. ConfigKept'
  BY <1>1, <1>2, <1>3 DEF ConfigKept
<1>9. KeysKept'
  BY <1>1, <1>2, <1>3, <1>7 DEF KeysKept
<1>10. PersonKept' /\ (~person'.known => ~told'.suspended)
  BY <1>1, <1>3 DEF PersonKept
<1>11. S!ChangesTakeEffect' /\ S!RotationIsNoOutage'
  BY <1>2, <1>3, <1>8, <1>9, <1>10
     DEF S!ChangesTakeEffect, ConfigKept, KeysKept, PersonKept, S!RotationIsNoOutage
<1>12. \A c \in Builders : IsQuiet(admin'[c]) /\ admin'[c].uri \in Uris
  BY <1>2, <1>7, QuietIs
<1>13. conn' = conn /\ provider' = provider
  BY <1>1
<1> QED BY <1>3, <1>4, <1>5, <1>7, <1>10, <1>11, <1>12, <1>13 DEF SignOnInv, IsTold, IsPerson

LEMMA SignOnByKeys == ASSUME SignOnInv, NEW u \in Uris, S!RotatesKeys(u) PROVE SignOnInv'
<1>1. /\ provider' = [provider EXCEPT ![u] = @ + 1] /\ provider \in [Uris -> Nat]
      /\ UNCHANGED <<conn, cache, person, login, admin, shown, told>>
  BY DEF S!RotatesKeys, SignOnInv
<1>2. provider' \in [Uris -> Nat] /\ \A v \in Uris : provider[v] <= provider'[v]
  BY <1>1
<1>3. ASSUME NEW l \in Logins PROVE LoginOK(login[l])'
  <2>1. PICK x : x = login[l]
    OBVIOUS
  <2>2. login'[l] = x /\ IsLogin(x) /\ LoginOK(x)
    BY <1>1, <2>1, LoginHas
  <2>3. LoginOK(x)'
    BY <1>1, <1>2, <2>2, LoginStands
  <2> QED BY <2>2, <2>3
<1>4. S!ChangesTakeEffect' /\ S!RotationIsNoOutage'
  BY <1>1 DEF SignOnInv, S!ChangesTakeEffect, S!RotationIsNoOutage
<1> QED BY <1>1, <1>2, <1>3, <1>4 DEF SignOnInv

LEMMA SignOnByExpiring == ASSUME SignOnInv, S!Expires PROVE SignOnInv'
<1>1. cache' = NoKeys /\ UNCHANGED <<conn, provider, person, login, admin, shown, told>>
  BY DEF S!Expires
<1>2. \A l \in Logins : LoginOK(login[l])'
  BY <1>1 DEF SignOnInv, LoginOK, WasPublished
<1>3. S!ChangesTakeEffect' /\ S!RotationIsNoOutage'
  BY <1>1 DEF SignOnInv, S!ChangesTakeEffect, S!RotationIsNoOutage
<1> QED BY <1>1, <1>2, <1>3 DEF SignOnInv

\* What an administrator changed of a connection stays changed, and a rotation of the
\* provider's keys locks nobody out - for any number of logins, administrators and URIs,
\* but for the stale writes told of (sso.service.ts:111-192, 310-433).
THEOREM SignOnHoldsTheorem == AllSpec => []SignOnHolds
<1>1. SignOnInv /\ [AllNext]_AllVars => SignOnInv'
  <2> SUFFICES ASSUME SignOnInv, S!Next \/ UNCHANGED ssoVars PROVE SignOnInv'
    BY StepsOnePart
  <2>1. ASSUME NEW s \in States, S!Begins(s) \/ \E l \in Logins : S!CallsBack(l, s) PROVE SignOnInv'
    <3>1. CASE S!Begins(s)
      BY <3>1, SignOnByPending DEF S!Begins, S!OwnStep
    <3> QED BY <2>1, <3>1, SignOnByCallingBack
  <2>2. ASSUME NEW l \in Logins, S!Consumes(l) \/ S!Connects(l) \/ S!UsesCache(l) \/ S!Fetches(l) \/ S!Caches(l)
        PROVE  SignOnInv'
    BY <2>2, SignOnByConsuming, SignOnByConnecting, SignOnByUsingCache, SignOnByFetching, SignOnByCaching
  <2>3. ASSUME NEW l \in Logins, S!Judges(l) \/ S!Provisions(l) \/ S!Activates(l) \/ S!Enters(l)
        PROVE  SignOnInv'
    <3>1. CASE S!Enters(l)
      BY <3>1, SignOnByFailing DEF S!Enters
    <3> QED BY <2>3, <3>1, SignOnByJudgingFresh, SignOnByProvisioning, SignOnByActivating
  <2>4. ASSUME NEW a \in Builders,
               \/ S!Loads(a) \/ S!Forgets(a) \/ S!Rotates(a) \/ S!Probes(a) \/ S!SetsEnabled(a) \/ S!Deletes(a)
               \/ S!Throws(a) \/ (\E u \in Uris : S!Updates(a, u)) \/ \E b \in BOOLEAN : S!Suspends(a, b)
        PROVE  SignOnInv'
    BY <2>4, SignOnByLoading, SignOnByForgetting, SignOnByRotating, SignOnByProbing, SignOnByEnabling,
       SignOnByDeleting, SignOnByThrowing, SignOnByUpdating, SignOnBySuspending
  <2>5. CASE UNCHANGED ssoVars
    BY <2>5, SignOnByPending DEF ssoVars
  <2> QED BY <2>1, <2>2, <2>3, <2>4, <2>5, SignOnByKeys, SignOnByExpiring DEF S!Next
<1>2. SignOnInv => SignOnHolds
  BY DEF SignOnInv, SignOnHolds
<1> QED BY <1>1, <1>2, StartsEveryPart, SignOnInit, PTL DEF AllSpec

-----------------------------------------------------------------------------
(* Accounts, sessions and roles.                                           *)

\* What rows and requests are made of, as far as it matters.
IsSession(x) ==
  x \in [iat : Nat \ {0}, live : BOOLEAN, root : Nat \ {0}, role : Roles, grant : Nat, clean : BOOLEAN]
IsAccount(x) ==
  /\ x \in [status : {x.status}, password : {x.password}, fails : {x.fails}, until : {x.until},
            secret : {x.secret}, mfa : {x.mfa}, codes : SUBSET Codes]
IsHandler(j) ==
  /\ j \in [pc : {j.pc}, row : Nat, fails : {j.fails}, codes : {j.codes}, code : {j.code},
            role : {j.role}, grant : {j.grant}, raced : BOOLEAN, then : {j.then}]

\* A request is at work on a session that is there; one that will sign in has read a role.
SignsIn(j) == j.pc \in {"clear", "issue"} \/ (j.pc = "spend" /\ j.then = "clear")
HandlerOK(j) ==
  /\ j.row \in 0 .. Len(sessions)
  /\ j.pc \notin {"rotate", "issue", "mark"} => j.row = 0
  /\ j.pc = "rotate" => j.row # 0 /\ (~j.raced => sessions[j.row].live)
  /\ SignsIn(j) => j.role \in Roles /\ j.grant \in Nat
  /\ j.pc \in {"holders", "applyRole"} => j.role \in Roles
  /\ j.pc = "spend" => j.codes \subseteq Codes /\ j.code \in j.codes /\ j.then \in {"clear", "disable"}
  /\ j.pc = "consume" => j.then \in {"password_reset", "email_verification"}

\* Nobody has signed in, or can, to an address nobody registered.
Blank ==
  account.status = "none" =>
    /\ sessions = <<>> /\ member = NoOne /\ account.codes = {}
    /\ account.password = FALSE /\ account.secret = FALSE
    /\ \A p \in M!Purposes : links[p].open = FALSE
    /\ \A h \in Builders : job[h].pc \in {"idle", "sweep", "mark", "holders"}

MemType ==
  /\ clock \in Nat \ {0} /\ IsAccount(account) /\ member \in Roles \cup {NoOne}
  /\ grants \in [Roles -> Nat]
  /\ sessions \in Seq({sessions[s] : s \in DOMAIN sessions})
  /\ \A s \in DOMAIN sessions : IsSession(sessions[s]) /\ sessions[s].root <= s /\ sessions[s].iat <= clock
  /\ job \in [Builders -> {job[h] : h \in Builders}]
  /\ \A h \in Builders : IsHandler(job[h]) /\ HandlerOK(job[h])
  /\ links \in [M!Purposes -> {links[p] : p \in M!Purposes}]
  /\ drift \in BOOLEAN
  /\ Blank

\* The watermark is that of the last revocation, and lasts as long as the tokens before it.
MarkInv ==
  /\ mark = [at |-> mark.at, dies |-> mark.dies] /\ cut = [at |-> mark.at, rows |-> cut.rows]
  /\ mark.at \in Nat /\ mark.dies \in Nat /\ cut.rows \in 0 .. Len(sessions)
  /\ mark.at # 0 => mark.dies = mark.at + M!MarkLife

\* A code still in the list was accepted only by requests that wrote back an older one.
CodesInv ==
  /\ spent \in [times : [Codes -> Nat], stale : Nat]
  /\ \A c \in account.codes : spent.times[c] <= spent.stale
  /\ M!CodesSpentOnce

\* A sign-in lives in one clean row, or is carried by the one request that rotates it;
\* those that were there when every session was revoked live nowhere.
Living(s) == sessions[s].live /\ sessions[s].clean
Carries(h) == job[h].pc = "issue" /\ job[h].row # 0 /\ ~job[h].raced /\ sessions[job[h].row].clean
Carried(h) == sessions[job[h].row].root
Gone(n) ==
  /\ \A s \in DOMAIN sessions : Living(s) => sessions[s].root > n
  /\ \A h \in Builders : Carries(h) => Carried(h) > n
LiveInv ==
  /\ \A s, t \in DOMAIN sessions : Living(s) /\ Living(t) /\ sessions[s].root = sessions[t].root => s = t
  /\ \A g, h \in Builders : Carries(g) /\ Carries(h) /\ Carried(g) = Carried(h) => g = h
  /\ \A s \in DOMAIN sessions : \A h \in Builders : Living(s) /\ Carries(h) => sessions[s].root # Carried(h)
  /\ Gone(cut.rows)
  /\ \A h \in Builders : job[h].pc = "mark" => Gone(job[h].row)

\* Tokens and whoever is about to get one say what the membership grants, unless somebody
\* who changed it is still looking for them.
Sweeping == \E h \in Builders : job[h].pc = "sweep"
HoldersSought == \E h \in Builders : job[h].pc = "holders" /\ job[h].role = member
Honest(j) == ~j.raced /\ (j.row = 0 \/ sessions[j.row].clean)
Calm ==
  /\ \A s \in DOMAIN sessions : sessions[s].clean =>
       /\ sessions[s].live => ~M!Refused
       /\ \/ M!Follows(s) \/ sessions[s].iat <= cut.at \/ HoldersSought
          \/ \E h \in Builders : job[h].pc = "mark"
  /\ \A h \in Builders : SignsIn(job[h]) /\ Honest(job[h]) =>
       /\ ~M!Refused
       /\ HoldersSought \/ (job[h].role = member /\ job[h].grant = grants[member])
FollowInv == drift \/ Sweeping \/ Calm

MemInv == MemType /\ MarkInv /\ CodesInv /\ LiveInv /\ FollowInv

LEMMA IdleIs == IsHandler(M!Idle) /\ M!Idle.pc = "idle" /\ M!Idle.row = 0 /\ M!Idle.raced = FALSE
  BY DEF IsHandler, M!Idle

LEMMA IdleFits == ASSUME Len(sessions) \in Nat PROVE HandlerOK(M!Idle)
<1>1. M!Idle.pc = "idle" /\ M!Idle.row = 0
  BY DEF M!Idle
<1>2. 0 \in 0 .. Len(sessions)
  OBVIOUS
<1> QED BY <1>1, <1>2 DEF HandlerOK, SignsIn

LEMMA TimesAre == NoOne \notin Roles /\ AccessTtl \in Nat /\ M!MarkLife \in Nat /\ AccessTtl <= M!MarkLife
  BY StaffAssumption DEF StaffAssumption, M!MarkLife, M!LargerOf

LEMMA MemHas ==
  ASSUME MemType, NEW h \in Builders
  PROVE  /\ IsHandler(job[h]) /\ HandlerOK(job[h]) /\ IsAccount(account) /\ Len(sessions) \in Nat
         /\ DOMAIN sessions = 1 .. Len(sessions)
<1> DEFINE T == {sessions[s] : s \in DOMAIN sessions}
<1>1. sessions \in Seq(T)
  BY DEF MemType
<1> HIDE DEF T
<1> QED BY <1>1 DEF MemType

LEMMA SomebodyIsKnown ==
  ASSUME MemType,
         \/ account.password \/ account.secret \/ member # NoOne \/ account.codes # {} \/ sessions # <<>>
         \/ (\E p \in M!Purposes : links[p].open)
         \/ \E h \in Builders : job[h].pc \notin {"idle", "sweep", "mark", "holders"}
  PROVE  account.status # "none"
  BY DEF MemType, Blank

LEMMA AccountsAre ==
  /\ IsAccount(M!Known) /\ M!Known.status = "active" /\ M!Known.codes = {}
  /\ IsAccount(M!WithMfa) /\ M!WithMfa.status = "active" /\ M!WithMfa.codes = Codes
  /\ IsAccount(M!Unknown) /\ M!Unknown.status = "none" /\ M!Unknown.codes = {}
  /\ M!Unknown.password = FALSE /\ M!Unknown.secret = FALSE
  BY DEF IsAccount, M!Known, M!WithMfa, M!Unknown

LEMMA MemInit == M!Init => MemInv
<1> SUFFICES ASSUME M!Init PROVE MemInv
  OBVIOUS
<1>1. /\ clock = 1 /\ grants = [r \in Roles |-> 0] /\ mark = [at |-> 0, dies |-> 0]
      /\ links = [p \in M!Purposes |-> [open |-> FALSE, used |-> 0]]
      /\ job = [h \in Builders |-> M!Idle] /\ cut = [at |-> 0, rows |-> 0]
      /\ spent = [times |-> [c \in Codes |-> 0], stale |-> 0] /\ drift = FALSE
      /\ \/ account \in {M!Known, M!WithMfa} /\ member \in Roles /\ sessions = <<M!FirstSession>>
         \/ account = M!Unknown /\ member = NoOne /\ sessions = <<>>
  BY Zenon DEF M!Init, M!AuthInit, M!NoMark
<1>2. \A h \in Builders : IsHandler(job[h]) /\ job[h] = M!Idle
  BY <1>1, IdleIs
<1>3. MarkInv
  <2>1. Len(sessions) \in Nat
    BY <1>1
  <2> QED BY <1>1, <2>1 DEF MarkInv
<1>4. IsAccount(account)
  BY <1>1, AccountsAre
<1>5. CodesInv
  BY <1>1, <1>4 DEF CodesInv, M!CodesSpentOnce, IsAccount
<1> clock \in Nat \ {0} /\ clock = 1 /\ grants \in [Roles -> Nat]
  BY <1>1
<1> drift \in BOOLEAN
  BY <1>1
<1> links \in [M!Purposes -> {links[p] : p \in M!Purposes}] /\ \A p \in M!Purposes : links[p].open = FALSE
  BY <1>1
<1> job \in [Builders -> {job[h] : h \in Builders}]
  BY <1>1
<1>6. CASE account \in {M!Known, M!WithMfa} /\ member \in Roles /\ sessions = <<M!FirstSession>>
  <2>1. PICK x : x = M!FirstSession
    OBVIOUS
  <2>2. /\ IsSession(x) /\ x.root = 1 /\ x.iat = 1 /\ x.role = member /\ x.grant = 0 /\ x.live = TRUE
        /\ x.clean = TRUE
    BY <1>6, <2>1 DEF IsSession, M!FirstSession
  <2>3. /\ sessions \in Seq({sessions[s] : s \in DOMAIN sessions}) /\ DOMAIN sessions = {1} /\ sessions[1] = x
        /\ Len(sessions) = 1
    BY <1>6, <2>1
  <2>4. account.status = "active"
    BY <1>6, AccountsAre
  <2>5. \A h \in Builders : HandlerOK(job[h])
    BY <1>2, <2>3, IdleFits
  <2>6. MemType
    BY <1>2, <1>4, <1>6, <2>2, <2>3, <2>4, <2>5 DEF MemType, Blank
  <2>7. LiveInv
    BY <1>1, <1>2, <2>2, <2>3, IdleIs DEF LiveInv, Living, Carries, Gone
  <2>8. FollowInv
    BY <1>1, <1>2, <1>6, <2>2, <2>3, <2>4, IdleIs DEF FollowInv, Calm, SignsIn, M!Refused, M!Follows
  <2> QED BY <1>3, <1>5, <2>6, <2>7, <2>8 DEF MemInv
<1>7. CASE account = M!Unknown /\ member = NoOne /\ sessions = <<>>
  <2>1. sessions \in Seq({sessions[s] : s \in DOMAIN sessions}) /\ DOMAIN sessions = {} /\ Len(sessions) = 0
    BY <1>7
  <2>2. \A h \in Builders : HandlerOK(job[h])
    <3>1. Len(sessions) \in Nat
      BY <1>7
    <3> QED BY <1>2, <3>1, IdleFits
  <2>3. Blank
    BY <1>2, <1>7, IdleIs, AccountsAre DEF Blank
  <2>4. MemType
    BY <1>2, <1>4, <1>7, <2>1, <2>2, <2>3 DEF MemType
  <2>5. LiveInv
    BY <1>1, <1>2, <2>1, IdleIs DEF LiveInv, Living, Carries, Gone
  <2>6. FollowInv
    BY <1>1, <1>2, <2>1, IdleIs DEF FollowInv, Calm, SignsIn
  <2> QED BY <1>3, <1>5, <2>4, <2>5, <2>6 DEF MemInv
<1> QED BY <1>1, <1>6, <1>7

\* A request moves from one state to another, and nothing happens to the sessions.
Moves(h, j) ==
  /\ IsHandler(j) /\ HandlerOK(j) /\ job' = [job EXCEPT ![h] = j] /\ job[h].pc \notin {"sweep", "mark"}
  /\ j.pc # "mark" /\ (j.pc = "issue" => j.row = 0)
  /\ UNCHANGED <<clock, sessions, mark, cut>>

LEMMA TypeByMoving ==
  ASSUME MemType, NEW h \in Builders, NEW j, Moves(h, j),
         IsAccount(account'), member' \in Roles \cup {NoOne}, grants' \in [Roles -> Nat],
         links' \in [M!Purposes -> {links'[p] : p \in M!Purposes}], drift' \in BOOLEAN, Blank'
  PROVE  MemType'
<1>1. \A g \in Builders : job'[g] = IF g = h THEN j ELSE job[g]
  BY DEF MemType, Moves
<1>2. \A x : HandlerOK(x) => HandlerOK(x)'
  BY DEF HandlerOK, Moves
<1>3. \A g \in Builders : IsHandler(job'[g]) /\ HandlerOK(job[g])'
  BY <1>1, <1>2 DEF MemType, Moves
<1>4. job' \in [Builders -> {job'[g] : g \in Builders}]
  BY DEF MemType, Moves
<1> QED BY <1>3, <1>4 DEF MemType, Moves

LEMMA LiveByMoving == ASSUME MemType, LiveInv, NEW h \in Builders, NEW j, Moves(h, j) PROVE LiveInv'
<1>1. \A g \in Builders : job'[g] = IF g = h THEN j ELSE job[g]
  BY DEF MemType, Moves
<1>2. /\ \A s : Living(s)' = Living(s)
      /\ \A g \in Builders : Carries(g)' => Carries(g) /\ Carried(g)' = Carried(g) /\ g # h
      /\ sessions' = sessions /\ cut' = cut
      /\ \A g \in Builders : job'[g].pc = "mark" => job[g].pc = "mark" /\ job'[g].row = job[g].row
  BY <1>1 DEF Moves, Living, Carries, Carried
<1>3. \A n : Gone(n) => Gone(n)'
  BY <1>2 DEF Gone
<1> QED BY <1>2, <1>3 DEF LiveInv

\* Whoever begins to look for the tokens will find them.
LEMMA FollowBySweeping == ASSUME NEW h \in Builders, job'[h].pc = "sweep" PROVE FollowInv'
  BY DEF FollowInv, Sweeping

\* A request goes on while the membership stays as it is.
LEMMA FollowBySitting ==
  ASSUME MemType, FollowInv, NEW h \in Builders, NEW j, Moves(h, j), UNCHANGED <<member, grants>>,
         M!Refused' => M!Refused, drift => drift', job[h].pc = "holders" => job[h].role # member,
         SignsIn(j) => \/ ~M!Refused' /\ j.role = member /\ j.grant = grants[member]
                       \/ /\ SignsIn(job[h]) /\ j.role = job[h].role /\ j.grant = job[h].grant
                          /\ j.raced = job[h].raced /\ j.row = job[h].row
  PROVE  FollowInv'
<1>1. \A g \in Builders : job'[g] = IF g = h THEN j ELSE job[g]
  BY DEF MemType, Moves
<1>2. CASE drift
  BY <1>2 DEF FollowInv
<1>3. CASE Sweeping
  BY <1>1, <1>3 DEF FollowInv, Sweeping, Moves
<1>4. CASE Calm
  <2>1. HoldersSought => HoldersSought'
    BY <1>1 DEF HoldersSought
  <2>2. (\E g \in Builders : job[g].pc = "mark") => \E g \in Builders : job'[g].pc = "mark"
    BY <1>1 DEF Moves
  <2>3. \A s \in DOMAIN sessions : M!Follows(s) => M!Follows(s)'
    BY DEF M!Follows, Moves
  <2>4. \A x : Honest(x)' = Honest(x)
    BY DEF Honest, Moves
  <2>5. ASSUME NEW s \in DOMAIN sessions', sessions'[s].clean
        PROVE  /\ sessions'[s].live => ~M!Refused'
               /\ \/ M!Follows(s)' \/ sessions'[s].iat <= cut'.at \/ HoldersSought'
                  \/ \E g \in Builders : job'[g].pc = "mark"
    BY <1>4, <2>1, <2>2, <2>3, <2>5 DEF Calm, Moves
  <2>6. ASSUME NEW g \in Builders, SignsIn(job'[g]), Honest(job[g])'
        PROVE  ~M!Refused' /\ (HoldersSought' \/ (job'[g].role = member' /\ job'[g].grant = grants'[member']))
    <3>1. CASE g # h
      <4>1. job'[g] = job[g] /\ SignsIn(job[g]) /\ Honest(job[g])
        BY <1>1, <2>4, <2>6, <3>1
      <4> QED BY <1>4, <2>1, <4>1 DEF Calm
    <3>2. CASE g = h /\ ~M!Refused' /\ j.role = member /\ j.grant = grants[member]
      BY <1>1, <3>2
    <3>3. CASE /\ g = h /\ SignsIn(job[h]) /\ j.role = job[h].role /\ j.grant = job[h].grant
               /\ j.raced = job[h].raced /\ j.row = job[h].row
      <4>1. job'[g] = j /\ Honest(job[h])
        BY <1>1, <2>4, <2>6, <3>3 DEF Honest
      <4> QED BY <1>4, <2>1, <3>3, <4>1 DEF Calm
    <3>4. job'[h] = j
      BY <1>1
    <3> QED BY <2>6, <3>1, <3>2, <3>3, <3>4
  <2> QED BY <2>5, <2>6 DEF FollowInv, Calm
<1> QED BY <1>2, <1>3, <1>4 DEF FollowInv

LEMMA CodesByStanding ==
  ASSUME CodesInv, spent' = spent, account'.codes \subseteq account.codes PROVE CodesInv'
  BY DEF CodesInv, M!CodesSpentOnce

LEMMA MarkByStanding == ASSUME MarkInv, UNCHANGED <<sessions, mark, cut>> PROVE MarkInv'
  BY DEF MarkInv, M!MarkLife

\* What a request that moves has to show of everything else.
LEMMA MemByMoving ==
  ASSUME MemInv, NEW h \in Builders, NEW j, Moves(h, j),
         IsAccount(account'), member' \in Roles \cup {NoOne}, grants' \in [Roles -> Nat],
         links' \in [M!Purposes -> {links'[p] : p \in M!Purposes}], drift' \in BOOLEAN, Blank',
         CodesInv', FollowInv'
  PROVE  MemInv'
<1>1. MemType'
  BY TypeByMoving DEF MemInv
<1>2. LiveInv'
  BY LiveByMoving DEF MemInv
<1>3. MarkInv'
  BY MarkByStanding DEF MemInv, Moves
<1> QED BY <1>1, <1>2, <1>3 DEF MemInv

\* The requests that hold nothing of a session or a membership.
Plain == {"idle", "miss", "sweep", "accept", "disable", "password_reset", "email_verification"}

LEMMA PlainFits ==
  ASSUME MemType, NEW h \in Builders, NEW j, IsHandler(j), j.pc \in Plain, j.row = 0,
         job[h].pc \notin {"sweep", "mark"}, job' = [job EXCEPT ![h] = j],
         UNCHANGED <<clock, sessions, mark, cut>>
  PROVE  Moves(h, j) /\ ~SignsIn(j)
<1>1. 0 \in 0 .. Len(sessions)
  BY MemHas
<1>2. HandlerOK(j) /\ ~SignsIn(j)
  BY <1>1 DEF HandlerOK, SignsIn, Plain
<1> QED BY <1>2 DEF Moves, Plain

LEMMA BlankStands ==
  ASSUME MemType, NEW h \in Builders, NEW j, Moves(h, j), UNCHANGED <<account, member, links>>,
         j.pc \in {"idle", "sweep", "holders"}
  PROVE  Blank'
<1>1. \A g \in Builders : job'[g] = IF g = h THEN j ELSE job[g]
  BY DEF MemType, Moves
<1> QED BY <1>1 DEF MemType, Blank, Moves

LEMMA MemByPlain ==
  ASSUME MemInv, NEW h \in Builders, NEW j, IsHandler(j), j.pc \in Plain, j.row = 0,
         job[h].pc \notin {"sweep", "mark", "holders"}, job' = [job EXCEPT ![h] = j],
         UNCHANGED <<clock, sessions, mark, cut, member, grants, spent>>,
         IsAccount(account'), account'.codes \subseteq account.codes, M!Refused' => M!Refused \/ drift',
         drift' \in BOOLEAN, drift => drift',
         links' \in [M!Purposes -> {links'[p] : p \in M!Purposes}],
         account'.status # "none" \/ (UNCHANGED <<account, links>> /\ j.pc \in {"idle", "sweep"})
  PROVE  MemInv'
<1>1. MemType /\ CodesInv /\ FollowInv /\ member' \in Roles \cup {NoOne} /\ grants' \in [Roles -> Nat]
  BY DEF MemInv, MemType
<1>2. Moves(h, j) /\ ~SignsIn(j)
  BY <1>1, PlainFits
<1>3. Blank'
  BY <1>1, <1>2, BlankStands DEF Blank
<1>4. CodesInv'
  BY <1>1, CodesByStanding
<1>5. FollowInv'
  <2>1. CASE drift'
    BY <2>1 DEF FollowInv
  <2> QED BY <1>1, <1>2, <2>1, FollowBySitting
<1> QED BY <1>1, <1>2, <1>3, <1>4, <1>5, MemByMoving

\* Nothing but the request and the links.
LEMMA MemByAsking ==
  ASSUME MemInv, NEW h \in Builders, NEW j, IsHandler(j), j.pc \in Plain, j.row = 0,
         job[h].pc \notin {"sweep", "mark", "holders"}, job' = [job EXCEPT ![h] = j],
         UNCHANGED <<clock, account, sessions, mark, cut, member, grants, spent, drift>>,
         links' \in [M!Purposes -> {links'[p] : p \in M!Purposes}],
         account.status # "none" \/ (UNCHANGED links /\ j.pc \in {"idle", "sweep"})
  PROVE  MemInv'
<1>1. IsAccount(account) /\ drift \in BOOLEAN
  BY DEF MemInv, MemType
<1>2. M!Refused' => M!Refused
  BY DEF M!Refused
<1> QED BY <1>1, <1>2, MemByPlain

\* Who signs in has read the role that is, of an account that is not refused.
LEMMA MemBySigningIn ==
  ASSUME MemInv, NEW h \in Builders, NEW j, IsHandler(j), HandlerOK(j), SignsIn(j), j.row = 0,
         job[h].pc \notin {"sweep", "mark", "holders"}, job' = [job EXCEPT ![h] = j],
         UNCHANGED <<clock, sessions, mark, cut, member, grants, spent>>,
         IsAccount(account'), account'.codes \subseteq account.codes, account'.status # "none",
         drift' \in BOOLEAN, drift => drift',
         links' \in [M!Purposes -> {links'[p] : p \in M!Purposes}],
         \/ ~M!Refused' /\ j.role = member /\ j.grant = grants[member]
         \/ /\ SignsIn(job[h]) /\ j.role = job[h].role /\ j.grant = job[h].grant
            /\ j.raced = job[h].raced /\ j.row = job[h].row /\ (M!Refused' => M!Refused)
  PROVE  MemInv'
<1>1. MemType /\ CodesInv /\ FollowInv /\ member' \in Roles \cup {NoOne} /\ grants' \in [Roles -> Nat]
  BY DEF MemInv, MemType
<1>2. Moves(h, j)
  BY DEF Moves, SignsIn
<1>3. Blank'
  BY DEF Blank
<1>4. CodesInv'
  BY <1>1, CodesByStanding
<1>5. M!Refused' => M!Refused
  OBVIOUS
<1>6. job[h].pc # "holders"
  OBVIOUS
<1>7. FollowInv'
  BY <1>1, <1>2, <1>5, <1>6, FollowBySitting
<1> QED BY <1>1, <1>2, <1>3, <1>4, <1>7, MemByMoving

LEMMA LinksAre == ASSUME MemInv PROVE links \in [M!Purposes -> {links[p] : p \in M!Purposes}]
  BY DEF MemInv, MemType

LEMMA AccountHas ==
  ASSUME MemInv
  PROVE  /\ IsAccount(account) /\ drift \in BOOLEAN /\ member \in Roles \cup {NoOne} /\ grants \in [Roles -> Nat]
         /\ Len(sessions) \in Nat /\ 0 \in 0 .. Len(sessions)
<1>1. Len(sessions) \in Nat
  <2> DEFINE T == {sessions[s] : s \in DOMAIN sessions}
  <2>1. sessions \in Seq(T)
    BY DEF MemInv, MemType
  <2> HIDE DEF T
  <2> QED BY <2>1
<1> QED BY <1>1 DEF MemInv, MemType

\* A request that has read who signs in.
LEMMA SignedInIs ==
  ASSUME MemInv, member # NoOne, NEW pc, NEW j, j = M!SignedIn(pc)
  PROVE  /\ IsHandler(j) /\ j.pc = pc /\ j.row = 0 /\ j.raced = FALSE /\ j.role = member /\ j.grant = grants[member]
         /\ pc \in {"clear", "issue"} => HandlerOK(j) /\ SignsIn(j)
<1>1. member \in Roles /\ grants[member] \in Nat /\ 0 \in 0 .. Len(sessions)
  BY AccountHas
<1>2. /\ IsHandler(j) /\ j.pc = pc /\ j.row = 0 /\ j.raced = FALSE /\ j.role = member /\ j.grant = grants[member]
  BY <1>1 DEF IsHandler, M!SignedIn, M!Idle
<1> QED BY <1>1, <1>2 DEF HandlerOK, SignsIn

LEMMA MemByReadingCodes ==
  ASSUME MemInv, NEW h \in Builders, NEW c \in account.codes, NEW j, IsHandler(j), j.pc = "spend", j.row = 0,
         j.raced = FALSE, j.code = c, j.codes = account.codes,
         j.then = "disable" \/ (j.then = "clear" /\ ~M!Refused /\ member # NoOne /\ j.role = member /\ j.grant = grants[member]),
         job[h].pc = "idle", job' = [job EXCEPT ![h] = j],
         UNCHANGED <<clock, account, member, grants, sessions, mark, links, cut, spent, drift>>
  PROVE  MemInv'
<1>1. MemType /\ CodesInv /\ FollowInv
  BY DEF MemInv
<1>2. account.codes \subseteq Codes /\ account.codes # {}
  BY AccountHas DEF IsAccount
<1>3. SignsIn(j) => ~M!Refused /\ j.role = member /\ j.grant = grants[member] /\ member \in Roles
  BY AccountHas DEF SignsIn
<1>4. Moves(h, j)
  <2>1. j.row \in 0 .. Len(sessions)
    BY AccountHas
  <2>2. SignsIn(j) => j.role \in Roles /\ j.grant \in Nat
    BY <1>3, AccountHas
  <2>3. HandlerOK(j)
    BY <1>2, <2>1, <2>2 DEF HandlerOK
  <2> QED BY <2>3 DEF Moves
<1>5. Blank'
  BY <1>1, <1>2, SomebodyIsKnown DEF Blank
<1>6. M!Refused' = M!Refused
  BY DEF M!Refused
<1>7. FollowInv'
  BY <1>1, <1>3, <1>4, <1>6, FollowBySitting
<1>8. CodesInv'
  BY <1>1, CodesByStanding
<1> QED BY <1>4, <1>5, <1>7, <1>8, AccountHas, LinksAre, MemByMoving

LEMMA MemByMissing ==
  ASSUME MemInv, NEW h \in Builders, account.status # "none",
         M!Begins(h, [M!Idle EXCEPT !.pc = "miss", !.fails = account.fails]),
         UNCHANGED <<clock, account, member, grants, sessions, mark, links, cut, spent, drift>>
  PROVE  MemInv'
<1>1. PICK j : j = [M!Idle EXCEPT !.pc = "miss", !.fails = account.fails]
  OBVIOUS
<1>2. IsHandler(j) /\ j.pc = "miss" /\ j.row = 0
  BY <1>1 DEF IsHandler, M!Idle
<1>3. job[h].pc = "idle" /\ job' = [job EXCEPT ![h] = j]
  BY <1>1 DEF M!Begins
<1> QED BY <1>2, <1>3, LinksAre, MemByAsking DEF Plain

LEMMA MemByLoggingIn ==
  ASSUME MemInv, NEW h \in Builders, M!LogsIn(h), UNCHANGED <<owner, drift>> PROVE MemInv'
<1>1. UNCHANGED <<clock, account, member, grants, sessions, mark, links, cut, spent>> /\ account.status # "none"
  BY SomebodyIsKnown DEF M!LogsIn, MemInv
<1>2. CASE M!Begins(h, [M!Idle EXCEPT !.pc = "miss", !.fails = account.fails])
  BY <1>1, <1>2, MemByMissing
<1>3. CASE ~M!Refused /\ member # NoOne /\ M!Begins(h, M!SignedIn("clear"))
  <2>1. PICK j : j = M!SignedIn("clear")
    OBVIOUS
  <2>2. job[h].pc = "idle" /\ job' = [job EXCEPT ![h] = j]
    BY <1>3, <2>1 DEF M!Begins
  <2>3. ~M!Refused'
    BY <1>1, <1>3 DEF M!Refused
  <2>4. /\ IsHandler(j) /\ HandlerOK(j) /\ SignsIn(j) /\ j.row = 0 /\ j.role = member
        /\ j.grant = grants[member]
    BY <1>3, <2>1, SignedInIs
  <2>5. IsAccount(account') /\ account'.codes \subseteq account.codes /\ account'.status # "none"
    BY <1>1, AccountHas
  <2> QED BY <1>1, <2>2, <2>3, <2>4, <2>5, AccountHas, LinksAre, MemBySigningIn
<1>4. ASSUME ~M!Refused, member # NoOne, NEW c \in account.codes,
             M!Begins(h, [M!SignedIn("spend") EXCEPT !.code = c, !.codes = account.codes, !.then = "clear"])
      PROVE  MemInv'
  <2>1. PICK x, j : x = M!SignedIn("spend") /\ j = [x EXCEPT !.code = c, !.codes = account.codes, !.then = "clear"]
    OBVIOUS
  <2>2. job[h].pc = "idle" /\ job' = [job EXCEPT ![h] = j]
    BY <1>4, <2>1 DEF M!Begins
  <2>3. IsHandler(x) /\ x.pc = "spend" /\ x.row = 0 /\ x.raced = FALSE /\ x.role = member /\ x.grant = grants[member]
    BY <1>4, <2>1, SignedInIs
  <2>4. /\ IsHandler(j) /\ j.pc = "spend" /\ j.row = 0 /\ j.raced = FALSE /\ j.role = member
        /\ j.grant = grants[member] /\ j.code = c /\ j.codes = account.codes /\ j.then = "clear"
    BY <2>1, <2>3 DEF IsHandler
  <2> QED BY <1>1, <1>4, <2>2, <2>4, MemByReadingCodes
<1> QED BY <1>2, <1>3, <1>4 DEF M!LogsIn

LEMMA MemByMiss == ASSUME MemInv, NEW h \in Builders, M!Misses(h), UNCHANGED <<owner, drift>> PROVE MemInv'
<1>1. PICK f, u : account' = [account EXCEPT !.fails = f, !.until = u]
  BY DEF M!Misses
<1>2. /\ job[h].pc = "miss" /\ job' = [job EXCEPT ![h] = M!Idle]
      /\ UNCHANGED <<clock, member, grants, sessions, mark, links, cut, spent>>
  BY DEF M!Misses, M!Ends, M!Goes
<1>3. IsAccount(account') /\ account'.codes = account.codes /\ account'.status = account.status
  BY <1>1, AccountHas DEF IsAccount
<1>4. account.status # "none"
  BY <1>2, SomebodyIsKnown DEF MemInv
<1>5. M!Refused' = M!Refused
  BY <1>3 DEF M!Refused
<1> QED BY <1>2, <1>3, <1>4, <1>5, IdleIs, AccountHas, LinksAre, MemByPlain DEF Plain

LEMMA MemByClearing == ASSUME MemInv, NEW h \in Builders, M!Clears(h), UNCHANGED <<owner, drift>> PROVE MemInv'
<1>1. PICK x, j : x = job[h] /\ j = [x EXCEPT !.pc = "issue"]
  OBVIOUS
<1>2. /\ IsHandler(x) /\ HandlerOK(x) /\ x.pc = "clear" /\ job' = [job EXCEPT ![h] = j]
      /\ account' = [account EXCEPT !.fails = 0, !.until = 0]
      /\ UNCHANGED <<clock, member, grants, sessions, mark, links, cut, spent>>
  BY <1>1, MemHas DEF M!Clears, M!Goes, MemInv
<1>3. IsAccount(account') /\ account'.codes = account.codes /\ account'.status = account.status
  BY <1>2, AccountHas DEF IsAccount
<1>4. account.status # "none"
  BY <1>1, <1>2, SomebodyIsKnown DEF MemInv
<1>5. M!Refused' = M!Refused
  BY <1>3 DEF M!Refused
<1>6. /\ IsHandler(j) /\ j.pc = "issue" /\ j.row = x.row /\ j.role = x.role /\ j.grant = x.grant /\ j.raced = x.raced
  BY <1>1, <1>2 DEF IsHandler
<1>7. HandlerOK(j) /\ SignsIn(j) /\ SignsIn(x) /\ x.row = 0
  BY <1>2, <1>6 DEF HandlerOK, SignsIn
<1> QED BY <1>1, <1>2, <1>3, <1>4, <1>5, <1>6, <1>7, AccountHas, LinksAre, MemBySigningIn

LEMMA MemByFederating ==
  ASSUME MemInv, NEW h \in Builders, M!Federates(h), UNCHANGED <<owner, drift>> PROVE MemInv'
<1>1. PICK j : j = M!SignedIn("issue")
  OBVIOUS
<1>2. /\ job[h].pc = "idle" /\ job' = [job EXCEPT ![h] = j] /\ account.status # "none" /\ ~M!Refused /\ member # NoOne
      /\ UNCHANGED <<clock, account, member, grants, sessions, mark, links, cut, spent>>
  BY <1>1 DEF M!Federates, M!Begins
<1>3. ~M!Refused'
  BY <1>2 DEF M!Refused
<1>4. /\ IsHandler(j) /\ HandlerOK(j) /\ SignsIn(j) /\ j.row = 0 /\ j.role = member
      /\ j.grant = grants[member]
  BY <1>1, <1>2, SignedInIs
<1>5. IsAccount(account') /\ account'.codes \subseteq account.codes /\ account'.status # "none"
  BY <1>2, AccountHas
<1> QED BY <1>2, <1>3, <1>4, <1>5, AccountHas, LinksAre, MemBySigningIn

\* Taking a code: what is left of the list is of codes not taken since it was read, or
\* one more list was written back.
LEMMA CodesBySpending ==
  ASSUME CodesInv, account.codes \subseteq Codes, NEW list, list \subseteq Codes, NEW c \in list,
         account'.codes = list \ {c},
         spent' = [times |-> [spent.times EXCEPT ![c] = @ + 1],
                   stale |-> spent.stale + IF account.codes = list THEN 0 ELSE 1]
  PROVE  CodesInv'
<1>1. spent.times \in [Codes -> Nat] /\ spent.stale \in Nat /\ c \in Codes
  BY DEF CodesInv
<1>2. /\ spent'.times = [spent.times EXCEPT ![c] = @ + 1] /\ spent'.times \in [Codes -> Nat]
      /\ spent'.stale = spent.stale + (IF account.codes = list THEN 0 ELSE 1) /\ spent'.stale \in Nat
  BY <1>1
<1>3. \A d \in Codes : spent.times[d] <= 1 + spent.stale
  BY DEF CodesInv, M!CodesSpentOnce
<1>4. \A d \in Codes : spent'.times[d] = IF d = c THEN spent.times[d] + 1 ELSE spent.times[d]
  BY <1>1, <1>2
<1>5. CASE account.codes = list
  <2>1. spent.times[c] <= spent.stale /\ spent'.stale = spent.stale
    BY <1>1, <1>2, <1>5 DEF CodesInv
  <2>2. \A d \in account'.codes : d # c /\ d \in account.codes /\ d \in Codes
    BY <1>5
  <2>3. \A d \in account'.codes : spent'.times[d] <= spent'.stale
    BY <1>4, <2>1, <2>2 DEF CodesInv
  <2>4. \A d \in Codes : spent'.times[d] <= 1 + spent'.stale
    BY <1>1, <1>3, <1>4, <2>1
  <2> QED BY <1>2, <2>3, <2>4 DEF CodesInv, M!CodesSpentOnce
<1>6. CASE account.codes # list
  <2>1. spent'.stale = spent.stale + 1
    BY <1>2, <1>6
  <2>2. \A d \in account'.codes : d # c /\ d \in Codes
    OBVIOUS
  <2>3. \A d \in account'.codes : spent'.times[d] <= spent'.stale
    BY <1>1, <1>3, <1>4, <2>1, <2>2
  <2>4. \A d \in Codes : spent'.times[d] <= 1 + spent'.stale
    BY <1>1, <1>3, <1>4, <2>1
  <2> QED BY <1>2, <2>3, <2>4 DEF CodesInv, M!CodesSpentOnce
<1> QED BY <1>5, <1>6

LEMMA MemBySpending == ASSUME MemInv, NEW h \in Builders, M!Spends(h), UNCHANGED <<owner, drift>> PROVE MemInv'
<1>1. PICK x, j : x = job[h] /\ j = [x EXCEPT !.pc = x.then, !.codes = {}, !.code = "none", !.then = "idle"]
  OBVIOUS
<1>2. /\ IsHandler(x) /\ HandlerOK(x) /\ x.pc = "spend" /\ job' = [job EXCEPT ![h] = j]
      /\ account' = [account EXCEPT !.codes = x.codes \ {x.code}]
      /\ spent' = [times |-> [spent.times EXCEPT ![x.code] = @ + 1],
                   stale |-> spent.stale + IF account.codes = x.codes THEN 0 ELSE 1]
      /\ UNCHANGED <<clock, member, grants, sessions, mark, links, cut>>
  BY <1>1, MemHas DEF M!Spends, M!Goes, MemInv, M!CodesLeft
<1>3. x.codes \subseteq Codes /\ x.code \in x.codes /\ x.then \in {"clear", "disable"} /\ x.row = 0
  BY <1>2 DEF HandlerOK
<1>4. IsAccount(account') /\ account'.codes = x.codes \ {x.code} /\ account'.status = account.status
  BY <1>2, <1>3, AccountHas DEF IsAccount
<1>5. account.status # "none" /\ account.codes \subseteq Codes
  BY <1>1, <1>2, AccountHas, SomebodyIsKnown DEF MemInv, IsAccount
<1>6. /\ IsHandler(j) /\ j.pc = x.then /\ j.row = x.row /\ j.role = x.role /\ j.grant = x.grant /\ j.raced = x.raced
  BY <1>1, <1>2 DEF IsHandler
<1>7. CodesInv'
  BY <1>2, <1>3, <1>4, <1>5, CodesBySpending DEF MemInv
<1>8. SignsIn(j) => SignsIn(x)
  BY <1>2, <1>3, <1>6 DEF SignsIn
<1>9. HandlerOK(j)
  BY <1>2, <1>3, <1>6, <1>8 DEF HandlerOK
<1>10. Moves(h, j)
  BY <1>1, <1>2, <1>3, <1>6, <1>9 DEF Moves
<1>11. M!Refused' = M!Refused
  BY <1>4 DEF M!Refused
<1>12. job[h].pc # "holders"
  BY <1>1, <1>2
<1>13. FollowInv'
  BY <1>1, <1>2, <1>6, <1>8, <1>10, <1>11, <1>12, FollowBySitting DEF MemInv
<1>14. Blank'
  BY <1>4, <1>5 DEF Blank
<1> QED BY <1>2, <1>4, <1>7, <1>10, <1>13, <1>14, AccountHas, LinksAre, MemByMoving

LEMMA MemByConfirming ==
  ASSUME MemInv, NEW h \in Builders, M!ConfirmsMfa(h), UNCHANGED <<owner, drift>> PROVE MemInv'
<1>1. /\ account.secret /\ job[h].pc = "idle" /\ job' = [job EXCEPT ![h] = M!Idle]
      /\ account' = [account EXCEPT !.mfa = TRUE, !.codes = Codes]
      /\ spent' = [times |-> [c \in Codes |-> 0], stale |-> 0]
      /\ UNCHANGED <<clock, member, grants, sessions, mark, links, cut>>
  BY DEF M!ConfirmsMfa, M!Begins
<1>2. IsAccount(account') /\ account'.codes = Codes /\ account'.status = account.status
  BY <1>1, AccountHas DEF IsAccount
<1>3. account.status # "none"
  BY <1>1, SomebodyIsKnown DEF MemInv
<1>4. CodesInv'
  BY <1>1, <1>2 DEF CodesInv, M!CodesSpentOnce
<1>5. M!Refused' = M!Refused
  BY <1>2 DEF M!Refused
<1>6. Moves(h, M!Idle) /\ ~SignsIn(M!Idle)
  BY <1>1, IdleIs, PlainFits DEF MemInv, Plain
<1>7. FollowInv'
  BY <1>1, <1>5, <1>6, FollowBySitting DEF MemInv
<1>8. Blank'
  BY <1>2, <1>3 DEF Blank
<1> QED BY <1>1, <1>2, <1>4, <1>6, <1>7, <1>8, AccountHas, LinksAre, MemByMoving

LEMMA MemByDisablesMfa ==
  ASSUME MemInv, NEW h \in Builders, M!DisablesMfa(h), UNCHANGED <<owner, drift>> PROVE MemInv'
<1>1. UNCHANGED <<clock, account, member, grants, sessions, mark, links, cut, spent>>
  BY DEF M!DisablesMfa
<1>2. CASE account.secret /\ M!Begins(h, [M!Idle EXCEPT !.pc = "disable"])
  <2>1. PICK j : j = [M!Idle EXCEPT !.pc = "disable"]
    OBVIOUS
  <2>2. IsHandler(j) /\ j.pc = "disable" /\ j.row = 0
    BY <2>1 DEF IsHandler, M!Idle
  <2>3. job[h].pc = "idle" /\ job' = [job EXCEPT ![h] = j]
    BY <1>2, <2>1 DEF M!Begins
  <2>4. account.status # "none"
    BY <1>2, SomebodyIsKnown DEF MemInv
  <2> QED BY <1>1, <2>2, <2>3, <2>4, LinksAre, MemByAsking DEF Plain
<1>3. ASSUME NEW c \in account.codes,
             M!Begins(h, [M!Idle EXCEPT !.pc = "spend", !.code = c, !.codes = account.codes, !.then = "disable"])
      PROVE  MemInv'
  <2>1. PICK j : j = [M!Idle EXCEPT !.pc = "spend", !.code = c, !.codes = account.codes, !.then = "disable"]
    OBVIOUS
  <2>2. /\ IsHandler(j) /\ j.pc = "spend" /\ j.row = 0 /\ j.raced = FALSE /\ j.code = c
        /\ j.codes = account.codes /\ j.then = "disable"
    BY <2>1 DEF IsHandler, M!Idle
  <2>3. job[h].pc = "idle" /\ job' = [job EXCEPT ![h] = j]
    BY <1>3, <2>1 DEF M!Begins
  <2> QED BY <1>1, <2>2, <2>3, MemByReadingCodes
<1> QED BY <1>2, <1>3 DEF M!DisablesMfa

LEMMA PlainRequest ==
  ASSUME NEW pc \in Plain, NEW j, j = [M!Idle EXCEPT !.pc = pc]
  PROVE  IsHandler(j) /\ j.pc \in Plain /\ j.pc = pc /\ j.row = 0
  BY DEF IsHandler, M!Idle

\* Requests to revoke everything, and those that an account must be there for.
LEMMA MemByBeginning ==
  ASSUME MemInv, NEW h \in Builders, NEW pc \in Plain, M!Begins(h, [M!Idle EXCEPT !.pc = pc]),
         pc = "sweep" \/ account.status # "none",
         UNCHANGED <<clock, account, member, grants, sessions, mark, links, cut, spent, drift>>
  PROVE  MemInv'
<1>1. PICK j : j = [M!Idle EXCEPT !.pc = pc]
  OBVIOUS
<1>2. job[h].pc = "idle" /\ job' = [job EXCEPT ![h] = j]
  BY <1>1 DEF M!Begins
<1>3. IsHandler(j) /\ j.pc \in Plain /\ j.pc = pc /\ j.row = 0
  BY <1>1, PlainRequest
<1> QED BY <1>2, <1>3, LinksAre, MemByAsking

LEMMA MemBySendingLink ==
  ASSUME MemInv, NEW h \in Builders, NEW p \in M!Purposes, M!SendsLink(h, p), UNCHANGED <<owner, drift>>
  PROVE  MemInv'
<1>1. /\ job[h].pc = "idle" /\ job' = [job EXCEPT ![h] = M!Idle] /\ account.status # "none"
      /\ links' = [links EXCEPT ![p] = [open |-> TRUE, used |-> 0]]
      /\ UNCHANGED <<clock, account, member, grants, sessions, mark, cut, spent>>
  BY DEF M!SendsLink, M!Begins
<1>2. links' \in [M!Purposes -> {links'[q] : q \in M!Purposes}]
  BY <1>1, LinksAre
<1> QED BY <1>1, <1>2, IdleIs, MemByAsking DEF Plain

LEMMA MemByOpeningLink ==
  ASSUME MemInv, NEW h \in Builders, NEW p \in M!Purposes, M!OpensLink(h, p), UNCHANGED <<owner, drift>>
  PROVE  MemInv'
<1>1. PICK j : j = [M!Idle EXCEPT !.pc = "consume", !.then = p]
  OBVIOUS
<1>2. /\ job[h].pc = "idle" /\ job' = [job EXCEPT ![h] = j] /\ p # "invitation" /\ links[p].open
      /\ UNCHANGED <<clock, account, member, grants, sessions, mark, links, cut, spent>>
  BY <1>1 DEF M!OpensLink, M!Begins
<1>3. IsHandler(j) /\ j.pc = "consume" /\ j.then = p /\ j.row = 0
  BY <1>1 DEF IsHandler, M!Idle
<1>4. HandlerOK(j) /\ ~SignsIn(j)
  BY <1>2, <1>3, AccountHas DEF HandlerOK, SignsIn, M!Purposes
<1>5. Moves(h, j)
  BY <1>2, <1>3, <1>4 DEF Moves
<1>6. Blank'
  BY <1>2, SomebodyIsKnown DEF Blank, MemInv
<1>7. FollowInv' /\ CodesInv'
  <2>1. M!Refused' = M!Refused
    BY <1>2 DEF M!Refused
  <2> QED BY <1>2, <1>4, <1>5, <2>1, FollowBySitting, CodesByStanding DEF MemInv
<1> QED BY <1>2, <1>5, <1>6, <1>7, AccountHas, LinksAre, MemByMoving

LEMMA MemByConsuming == ASSUME MemInv, NEW h \in Builders, M!Consumes(h), UNCHANGED <<owner, drift>> PROVE MemInv'
<1>1. PICK t : t = job[h].then
  OBVIOUS
<1>2. PICK j : j = [M!Idle EXCEPT !.pc = t]
  OBVIOUS
<1>3. /\ job[h].pc = "consume" /\ job' = [job EXCEPT ![h] = j]
      /\ links' = [links EXCEPT ![t] = [open |-> FALSE, used |-> @.used + 1]]
      /\ UNCHANGED <<clock, account, member, grants, sessions, mark, cut, spent>>
  BY <1>1, <1>2 DEF M!Consumes, M!Goes
<1>4. t \in {"password_reset", "email_verification"}
  BY <1>1, <1>3, MemHas DEF HandlerOK, MemInv
<1>5. t \in Plain
  BY <1>4 DEF Plain
<1>6. IsHandler(j) /\ j.pc \in Plain /\ j.row = 0
  BY <1>2, <1>5, PlainRequest
<1>7. links' \in [M!Purposes -> {links'[q] : q \in M!Purposes}]
  BY <1>3, LinksAre
<1>8. account.status # "none"
  BY <1>3, SomebodyIsKnown DEF MemInv
<1> QED BY <1>3, <1>6, <1>7, <1>8, MemByAsking

LEMMA MemByResetting == ASSUME MemInv, NEW h \in Builders, M!Resets(h), UNCHANGED <<owner, drift>> PROVE MemInv'
<1>1. PICK j : j = [M!Idle EXCEPT !.pc = "sweep"]
  OBVIOUS
<1>2. /\ job[h].pc = "password_reset" /\ job' = [job EXCEPT ![h] = j]
      /\ account' = [account EXCEPT !.password = TRUE, !.fails = 0, !.until = 0]
      /\ UNCHANGED <<clock, member, grants, sessions, mark, links, cut, spent>>
  BY <1>1 DEF M!Resets, M!Goes
<1>3. IsAccount(account') /\ account'.codes = account.codes /\ account'.status = account.status
  BY <1>2, AccountHas DEF IsAccount
<1>4. account.status # "none"
  BY <1>2, SomebodyIsKnown DEF MemInv
<1>5. M!Refused' = M!Refused
  BY <1>3 DEF M!Refused
<1>6. "sweep" \in Plain
  BY DEF Plain
<1>7. IsHandler(j) /\ j.pc \in Plain /\ j.row = 0
  BY <1>1, <1>6, PlainRequest
<1> QED BY <1>2, <1>3, <1>4, <1>5, <1>7, AccountHas, LinksAre, MemByPlain

\* A request ends with an account that is there, and no more refused than before.
LEMMA MemByEnding ==
  ASSUME MemInv, NEW h \in Builders, job[h].pc \notin {"sweep", "mark", "holders"},
         job' = [job EXCEPT ![h] = M!Idle],
         UNCHANGED <<clock, member, grants, sessions, mark, links, cut, spent, drift>>,
         IsAccount(account'), account'.codes \subseteq account.codes, account'.status # "none",
         account'.status = account.status \/ account'.status = "active"
  PROVE  MemInv'
<1>1. M!Refused' => M!Refused
  BY DEF M!Refused
<1> QED BY <1>1, IdleIs, AccountHas, LinksAre, MemByPlain DEF Plain

LEMMA MemByVerifying == ASSUME MemInv, NEW h \in Builders, M!Verifies(h), UNCHANGED <<owner, drift>> PROVE MemInv'
<1>1. /\ job[h].pc = "email_verification" /\ job' = [job EXCEPT ![h] = M!Idle]
      /\ account' = [account EXCEPT !.status = "active"]
      /\ UNCHANGED <<clock, member, grants, sessions, mark, links, cut, spent>>
  BY DEF M!Verifies, M!Ends, M!Goes
<1>2. IsAccount(account') /\ account'.codes = account.codes /\ account'.status = "active"
  BY <1>1, AccountHas DEF IsAccount
<1> QED BY <1>1, <1>2, MemByEnding

LEMMA MemByBeginningMfa ==
  ASSUME MemInv, NEW h \in Builders, M!BeginsMfa(h), UNCHANGED <<owner, drift>> PROVE MemInv'
<1>1. /\ job[h].pc = "idle" /\ job' = [job EXCEPT ![h] = M!Idle] /\ account.status # "none"
      /\ account' = [account EXCEPT !.secret = TRUE]
      /\ UNCHANGED <<clock, member, grants, sessions, mark, links, cut, spent>>
  BY DEF M!BeginsMfa, M!Begins
<1>2. IsAccount(account') /\ account'.codes = account.codes /\ account'.status = account.status
  BY <1>1, AccountHas DEF IsAccount
<1> QED BY <1>1, <1>2, MemByEnding

LEMMA MemByDisabling == ASSUME MemInv, NEW h \in Builders, M!Disables(h), UNCHANGED <<owner, drift>> PROVE MemInv'
<1>1. /\ job[h].pc = "disable" /\ job' = [job EXCEPT ![h] = M!Idle]
      /\ account' = [account EXCEPT !.mfa = FALSE, !.secret = FALSE, !.codes = {}]
      /\ UNCHANGED <<clock, member, grants, sessions, mark, links, cut, spent>>
  BY DEF M!Disables, M!Ends, M!Goes
<1>2. IsAccount(account') /\ account'.codes = {} /\ account'.status = account.status
  BY <1>1, AccountHas DEF IsAccount
<1>3. account.status # "none"
  BY <1>1, SomebodyIsKnown DEF MemInv
<1> QED BY <1>1, <1>2, <1>3, MemByEnding

LEMMA MemByAcceptingInvite ==
  ASSUME MemInv, NEW h \in Builders, M!AcceptsInvite(h) PROVE MemInv'
<1>1. /\ job[h].pc = "accept" /\ account' = [account EXCEPT !.password = TRUE, !.status = "active"]
      /\ links' = [links EXCEPT !["invitation"] = [open |-> FALSE, used |-> @.used + 1]]
      /\ UNCHANGED <<clock, member, grants, sessions, mark, cut, spent, drift>>
  BY DEF M!AcceptsInvite
<1>2. IsAccount(account') /\ account'.codes = account.codes /\ account'.status = "active"
  BY <1>1, AccountHas DEF IsAccount
<1>3. links' \in [M!Purposes -> {links'[q] : q \in M!Purposes}]
  BY <1>1, LinksAre
<1>4. ~M!Refused'
  BY <1>2 DEF M!Refused
<1>5. CASE M!Ends(h)
  BY <1>1, <1>2, <1>3, <1>4, <1>5, IdleIs, AccountHas, MemByPlain DEF M!Ends, M!Goes, Plain
<1>6. CASE member # NoOne /\ M!Goes(h, M!SignedIn("clear"))
  <2>1. PICK j : j = M!SignedIn("clear")
    OBVIOUS
  <2>2. job' = [job EXCEPT ![h] = j]
    BY <1>6, <2>1 DEF M!Goes
  <2>3. /\ IsHandler(j) /\ HandlerOK(j) /\ SignsIn(j) /\ j.row = 0 /\ j.role = member
        /\ j.grant = grants[member]
    BY <1>6, <2>1, SignedInIs
  <2> QED BY <1>1, <1>2, <1>3, <1>4, <2>2, <2>3, AccountHas, MemBySigningIn
<1> QED BY <1>5, <1>6 DEF M!AcceptsInvite

\* Who changes a membership looks for its tokens next.
LEMMA MemByRevoking ==
  ASSUME MemInv, NEW h \in Builders, NEW j, j = [M!Idle EXCEPT !.pc = "sweep"],
         job[h].pc \notin {"sweep", "mark"}, job' = [job EXCEPT ![h] = j],
         UNCHANGED <<clock, grants, sessions, mark, links, cut, spent, drift>>,
         member' \in Roles \cup {NoOne}, IsAccount(account'), account'.codes \subseteq account.codes,
         account'.status # "none" \/ UNCHANGED <<account, member>>
  PROVE  MemInv'
<1>1. "sweep" \in Plain
  BY DEF Plain
<1>2. IsHandler(j) /\ j.pc \in Plain /\ j.pc = "sweep" /\ j.row = 0
  BY <1>1, PlainRequest
<1>3. Moves(h, j) /\ job'[h] = j
  BY <1>2, PlainFits DEF MemInv, MemType
<1>4. FollowInv'
  BY <1>2, <1>3, FollowBySweeping
<1>5. CodesInv'
  BY CodesByStanding DEF MemInv
<1>6. Blank'
  BY <1>2, <1>3, BlankStands DEF Blank, MemInv
<1> QED BY <1>3, <1>4, <1>5, <1>6, AccountHas, LinksAre, MemByMoving

LEMMA MemByChangingRole ==
  ASSUME MemInv, NEW h \in Builders, NEW r \in Roles, M!ChangesRole(h, r) PROVE MemInv'
<1>1. PICK j : j = [M!Idle EXCEPT !.pc = "sweep"]
  OBVIOUS
<1>2. /\ job[h].pc = "idle" /\ job' = [job EXCEPT ![h] = j] /\ member' = r /\ member # NoOne
      /\ UNCHANGED <<clock, account, grants, sessions, mark, links, cut, spent, drift>>
  BY <1>1 DEF M!ChangesRole, M!Begins, M!AfterRole, M!Revoking
<1>3. account.status # "none"
  BY <1>2, SomebodyIsKnown DEF MemInv
<1> QED BY <1>1, <1>2, <1>3, AccountHas, MemByRevoking

LEMMA MemByRemoving == ASSUME MemInv, NEW h \in Builders, M!Removes(h) PROVE MemInv'
<1>1. PICK j : j = [M!Idle EXCEPT !.pc = "sweep"]
  OBVIOUS
<1>2. /\ job[h].pc = "idle" /\ job' = [job EXCEPT ![h] = j] /\ member' = NoOne /\ member # NoOne
      /\ UNCHANGED <<clock, account, grants, sessions, mark, links, cut, spent, drift>>
  BY <1>1 DEF M!Removes, M!Begins, M!Revoking
<1>3. account.status # "none"
  BY <1>2, SomebodyIsKnown DEF MemInv
<1> QED BY <1>1, <1>2, <1>3, AccountHas, MemByRevoking

LEMMA MemBySettingStatus ==
  ASSUME MemInv, NEW h \in Builders, NEW s \in {"active", "suspended", "deactivated"}, M!SetsStatus(h, s)
  PROVE  MemInv'
<1>1. /\ job[h].pc = "idle" /\ account' = [account EXCEPT !.status = s] /\ member # NoOne
      /\ UNCHANGED <<clock, member, grants, sessions, mark, links, cut, spent, drift>>
  BY DEF M!SetsStatus, M!Begins
<1>2. IsAccount(account') /\ account'.codes = account.codes /\ account'.status = s
  BY <1>1, AccountHas DEF IsAccount
<1>3. CASE s = "active"
  <2>1. job' = [job EXCEPT ![h] = M!Idle]
    BY <1>3 DEF M!SetsStatus, M!Begins
  <2> QED BY <1>1, <1>2, <1>3, <2>1, MemByEnding
<1>4. CASE s # "active"
  <2>1. PICK j : j = [M!Idle EXCEPT !.pc = "sweep"]
    OBVIOUS
  <2>2. job' = [job EXCEPT ![h] = j]
    BY <1>4, <2>1 DEF M!SetsStatus, M!Begins, M!Revoking
  <2> QED BY <1>1, <1>2, <1>4, <2>1, <2>2, AccountHas, MemByRevoking
<1> QED BY <1>3, <1>4

\* The permissions of a role: whoever holds it is looked for.
LEMMA MemByEditing ==
  ASSUME MemInv, NEW h \in Builders, NEW r \in Roles, M!EditsRole(h, r) PROVE MemInv'
<1>1. PICK j : j = [M!Idle EXCEPT !.pc = "holders", !.role = r]
  OBVIOUS
<1>2. /\ job[h].pc = "idle" /\ job' = [job EXCEPT ![h] = j] /\ grants' = [grants EXCEPT ![r] = @ + 1]
      /\ UNCHANGED <<clock, account, member, sessions, mark, links, cut, spent, drift>>
  BY <1>1 DEF M!EditsRole, M!Begins
<1>3. IsHandler(j) /\ j.pc = "holders" /\ j.role = r /\ j.row = 0
  BY <1>1 DEF IsHandler, M!Idle
<1>4. HandlerOK(j) /\ ~SignsIn(j)
  BY <1>3, AccountHas DEF HandlerOK, SignsIn
<1>5. Moves(h, j)
  BY <1>2, <1>3, <1>4 DEF Moves
<1>6. Blank'
  BY <1>2, <1>3, <1>5, BlankStands DEF MemInv
<1>7. grants' \in [Roles -> Nat] /\ \A q \in Roles : q # r => grants'[q] = grants[q]
  BY <1>2, AccountHas
<1>8. \A g \in Builders : job'[g] = IF g = h THEN j ELSE job[g]
  BY <1>2 DEF MemInv, MemType
<1>9. M!Refused' = M!Refused
  BY <1>2 DEF M!Refused
<1>10. FollowInv'
  <2>1. CASE drift
    BY <1>2, <2>1 DEF FollowInv
  <2>2. CASE Sweeping
    BY <1>2, <1>8, <2>2 DEF FollowInv, Sweeping
  <2>3. CASE Calm
    <3>1. HoldersSought => HoldersSought'
      BY <1>2, <1>8 DEF HoldersSought
    <3>2. r = member => HoldersSought'
      BY <1>2, <1>3, <1>8 DEF HoldersSought
    <3>3. (\E g \in Builders : job[g].pc = "mark") => \E g \in Builders : job'[g].pc = "mark"
      BY <1>2, <1>8
    <3>4. \A s \in DOMAIN sessions : r # member /\ M!Follows(s) => M!Follows(s)'
      BY <1>2, <1>7, <1>9 DEF M!Follows, MemInv, MemType, IsSession
    <3>5. ASSUME NEW s \in DOMAIN sessions', sessions'[s].clean
          PROVE  /\ sessions'[s].live => ~M!Refused'
                 /\ \/ M!Follows(s)' \/ sessions'[s].iat <= cut'.at \/ HoldersSought'
                    \/ \E g \in Builders : job'[g].pc = "mark"
      BY <1>2, <1>9, <2>3, <3>1, <3>2, <3>3, <3>4, <3>5 DEF Calm
    <3>6. ASSUME NEW g \in Builders, SignsIn(job'[g]), Honest(job[g])'
          PROVE  ~M!Refused' /\ (HoldersSought' \/ (job'[g].role = member' /\ job'[g].grant = grants'[member']))
      <4>1. g # h /\ job'[g] = job[g] /\ SignsIn(job[g]) /\ Honest(job[g])
        BY <1>2, <1>4, <1>8, <3>6 DEF Honest
      <4>2. job[g].role \in Roles
        BY <4>1, MemHas DEF HandlerOK, MemInv
      <4> QED BY <1>2, <1>7, <1>9, <2>3, <3>1, <3>2, <4>1, <4>2 DEF Calm
    <3> QED BY <3>5, <3>6 DEF FollowInv, Calm
  <2> QED BY <2>1, <2>2, <2>3 DEF FollowInv, MemInv
<1>11. CodesInv'
  BY <1>2, CodesByStanding DEF MemInv
<1> QED BY <1>2, <1>5, <1>6, <1>7, <1>10, <1>11, AccountHas, LinksAre, MemByMoving

LEMMA MemByFindingHolders == ASSUME MemInv, NEW h \in Builders, M!FindsHolders(h) PROVE MemInv'
<1>1. /\ job[h].pc = "holders"
      /\ UNCHANGED <<clock, account, member, grants, sessions, mark, links, cut, spent, drift>>
  BY DEF M!FindsHolders
<1>2. CASE member = job[h].role
  <2>1. PICK j : j = [M!Idle EXCEPT !.pc = "sweep"]
    OBVIOUS
  <2>2. job' = [job EXCEPT ![h] = j]
    BY <1>2, <2>1 DEF M!FindsHolders, M!Goes, M!Revoking
  <2> QED BY <1>1, <2>1, <2>2, AccountHas, MemByRevoking
<1>3. CASE member # job[h].role
  <2>1. job' = [job EXCEPT ![h] = M!Idle]
    BY <1>3 DEF M!FindsHolders, M!Goes
  <2>2. Moves(h, M!Idle) /\ ~SignsIn(M!Idle)
    BY <1>1, <2>1, IdleIs, PlainFits DEF MemInv, Plain
  <2>3. Blank'
    BY <1>1, <2>2, IdleIs, BlankStands DEF MemInv
  <2>4. M!Refused' = M!Refused
    BY <1>1 DEF M!Refused
  <2>5. FollowInv'
    BY <1>1, <1>3, <2>2, <2>4, FollowBySitting DEF MemInv
  <2>6. CodesInv'
    BY <1>1, CodesByStanding DEF MemInv
  <2> QED BY <1>1, <2>2, <2>3, <2>5, <2>6, AccountHas, LinksAre, MemByMoving
<1> QED BY <1>2, <1>3

\* Somebody becomes a member: no token, and no request, says anything of that membership yet.
LEMMA MemByEnrolling ==
  ASSUME MemInv, NEW h \in Builders, NEW r \in Roles, member = NoOne, member' = r,
         job[h].pc = "idle", job' = [job EXCEPT ![h] = M!Idle],
         UNCHANGED <<clock, grants, sessions, mark, cut, spent, drift>>,
         links' \in [M!Purposes -> {links'[p] : p \in M!Purposes}],
         IsAccount(account'), account'.codes = account.codes, account'.status # "none",
         account.status = "none" \/ account' = account
  PROVE  MemInv'
<1>1. Moves(h, M!Idle) /\ ~SignsIn(M!Idle)
  BY IdleIs, PlainFits DEF MemInv, Plain
<1>2. \A g \in Builders : job'[g] = IF g = h THEN M!Idle ELSE job[g]
  BY DEF MemInv, MemType
<1>3. NoOne \notin Roles
  BY TimesAre
<1>4. FollowInv'
  <2>1. CASE drift
    BY <2>1 DEF FollowInv
  <2>2. CASE Sweeping
    BY <1>2, <2>2 DEF FollowInv, Sweeping
  <2>3. CASE Calm
    <3>1. ~HoldersSought
      BY <1>3, MemHas DEF HoldersSought, HandlerOK, MemInv
    <3>2. \A s \in DOMAIN sessions : ~M!Follows(s) /\ account' = account
      BY <1>3 DEF M!Follows, MemInv, MemType, IsSession, Blank
    <3>3. (\E g \in Builders : job[g].pc = "mark") => \E g \in Builders : job'[g].pc = "mark"
      BY <1>2
    <3>4. ASSUME NEW s \in DOMAIN sessions', sessions'[s].clean
          PROVE  /\ sessions'[s].live => ~M!Refused'
                 /\ \/ M!Follows(s)' \/ sessions'[s].iat <= cut'.at \/ HoldersSought'
                    \/ \E g \in Builders : job'[g].pc = "mark"
      BY <2>3, <3>1, <3>2, <3>3, <3>4 DEF Calm, M!Refused
    <3>5. ASSUME NEW g \in Builders, SignsIn(job'[g]), Honest(job[g])' PROVE FALSE
      <4>1. g # h /\ job'[g] = job[g] /\ SignsIn(job[g]) /\ Honest(job[g])
        BY <1>1, <1>2, <3>5 DEF Honest
      <4>2. job[g].role \in Roles
        BY <4>1, MemHas DEF HandlerOK, MemInv
      <4> QED BY <1>3, <2>3, <3>1, <4>1, <4>2 DEF Calm
    <3> QED BY <3>4, <3>5 DEF FollowInv, Calm
  <2> QED BY <2>1, <2>2, <2>3 DEF FollowInv, MemInv
<1>5. CodesInv'
  BY CodesByStanding DEF MemInv
<1>6. Blank'
  BY DEF Blank
<1> QED BY <1>1, <1>4, <1>5, <1>6, AccountHas, MemByMoving

LEMMA MemByInviting == ASSUME MemInv, NEW h \in Builders, NEW r \in Roles, M!Invites(h, r) PROVE MemInv'
<1>1. /\ job[h].pc = "idle" /\ job' = [job EXCEPT ![h] = M!Idle] /\ member = NoOne /\ member' = r
      /\ account' = IF account.status = "none" THEN [account EXCEPT !.status = "invited"] ELSE account
      /\ links' = [links EXCEPT !["invitation"] = [open |-> TRUE, used |-> 0]]
      /\ UNCHANGED <<clock, grants, sessions, mark, cut, spent, drift>>
  BY DEF M!Invites, M!Begins
<1>2. /\ IsAccount(account') /\ account'.codes = account.codes /\ account'.status # "none"
      /\ (account.status = "none" \/ account' = account)
  BY <1>1, AccountHas DEF IsAccount
<1>3. links' \in [M!Purposes -> {links'[p] : p \in M!Purposes}]
  BY <1>1, LinksAre
<1> QED BY <1>1, <1>2, <1>3, MemByEnrolling

LEMMA MemByCreating ==
  ASSUME MemInv, NEW h \in Builders, NEW r \in Roles, NEW b \in BOOLEAN, M!ScimCreates(h, r, b) PROVE MemInv'
<1>1. PICK s \in {"active", "deactivated"} : s = IF b THEN "active" ELSE "deactivated"
  OBVIOUS
<1>2. /\ job[h].pc = "idle" /\ job' = [job EXCEPT ![h] = M!Idle] /\ member = NoOne /\ member' = r
      /\ account' = IF account.status # "none" THEN account ELSE [account EXCEPT !.status = s]
      /\ UNCHANGED <<clock, grants, sessions, mark, links, cut, spent, drift>>
  BY <1>1 DEF M!ScimCreates, M!Begins
<1>3. /\ IsAccount(account') /\ account'.codes = account.codes /\ account'.status # "none"
      /\ (account.status = "none" \/ account' = account)
  BY <1>2, AccountHas DEF IsAccount
<1> QED BY <1>2, <1>3, LinksAre, MemByEnrolling

\* What the directory changes is followed by no revocation.
LEMMA MemByDrifting ==
  ASSUME MemInv, NEW h \in Builders, NEW j, Moves(h, j), drift' = TRUE,
         IsAccount(account'), account'.codes = account.codes, account'.status # "none",
         member' \in Roles \cup {NoOne}, UNCHANGED <<grants, links, spent>>
  PROVE  MemInv'
<1>1. FollowInv'
  BY DEF FollowInv
<1>2. CodesInv'
  BY CodesByStanding DEF MemInv
<1>3. Blank'
  BY DEF Blank
<1> QED BY <1>1, <1>2, <1>3, AccountHas, LinksAre, MemByMoving

LEMMA MemByPatching ==
  ASSUME MemInv, NEW h \in Builders, NEW b \in BOOLEAN, M!ScimPatches(h, b) PROVE MemInv'
<1>1. PICK s \in {"active", "deactivated"} : s = IF b THEN "active" ELSE "deactivated"
  OBVIOUS
<1>2. /\ job[h].pc = "idle" /\ account' = [account EXCEPT !.status = s] /\ member # NoOne
      /\ drift' = (drift \/ ~b)
      /\ UNCHANGED <<clock, member, grants, sessions, mark, links, cut, spent>>
  BY <1>1 DEF M!ScimPatches, M!Begins
<1>3. PICK j : /\ job' = [job EXCEPT ![h] = j]
               /\ j = M!Idle \/ \E r \in Roles : j = [M!Idle EXCEPT !.pc = "applyRole", !.role = r]
  BY DEF M!ScimPatches, M!Begins
<1>4. IsAccount(account') /\ account'.codes = account.codes /\ account'.status = s /\ account'.status # "none"
  BY <1>2, AccountHas DEF IsAccount
<1>5. /\ IsHandler(j) /\ j.row = 0
      /\ j.pc = "idle" \/ (j.pc = "applyRole" /\ j.role \in Roles)
  <2>1. CASE j = M!Idle
    BY <2>1, IdleIs
  <2>2. ASSUME NEW r \in Roles, j = [M!Idle EXCEPT !.pc = "applyRole", !.role = r]
        PROVE  IsHandler(j) /\ j.row = 0 /\ j.pc = "applyRole" /\ j.role \in Roles
    BY <2>2 DEF IsHandler, M!Idle
  <2> QED BY <1>3, <2>1, <2>2
<1>6. HandlerOK(j) /\ ~SignsIn(j)
  BY <1>5, AccountHas DEF HandlerOK, SignsIn
<1>7. Moves(h, j)
  BY <1>2, <1>3, <1>5, <1>6 DEF Moves
<1>8. CASE b
  <2>1. ~M!Refused' /\ drift' = drift
    BY <1>1, <1>2, <1>4, <1>8, AccountHas DEF M!Refused
  <2>2. FollowInv'
    BY <1>2, <1>6, <1>7, <2>1, FollowBySitting DEF MemInv
  <2>3. CodesInv'
    BY <1>2, <1>4, CodesByStanding DEF MemInv
  <2>4. Blank'
    BY <1>4 DEF Blank
  <2> QED BY <1>2, <1>4, <1>7, <2>1, <2>2, <2>3, <2>4, AccountHas, LinksAre, MemByMoving
<1>9. CASE ~b
  <2>1. drift' = TRUE
    BY <1>2, <1>9, AccountHas
  <2> QED BY <1>2, <1>4, <1>7, <2>1, AccountHas, MemByDrifting
<1> QED BY <1>8, <1>9

LEMMA MemByApplyingRole == ASSUME MemInv, NEW h \in Builders, M!ScimAppliesRole(h) PROVE MemInv'
<1>1. /\ job[h].pc = "applyRole" /\ job' = [job EXCEPT ![h] = M!Idle]
      /\ UNCHANGED <<clock, account, grants, sessions, mark, links, cut, spent>>
  BY DEF M!ScimAppliesRole, M!Ends, M!Goes
<1>2. \/ UNCHANGED <<member, drift>>
      \/ member' = job[h].role /\ drift' = (drift \/ member # job[h].role)
  BY DEF M!ScimAppliesRole
<1>3. IsAccount(account') /\ account'.codes = account.codes /\ account'.status # "none"
  BY <1>1, AccountHas, SomebodyIsKnown DEF MemInv
<1>4. CASE UNCHANGED <<member, drift>>
  BY <1>1, <1>3, <1>4, MemByEnding
<1>5. CASE member' = job[h].role /\ member # job[h].role /\ drift' = (drift \/ member # job[h].role)
  <2>1. drift' = TRUE
    BY <1>5, AccountHas
  <2>2. member' \in Roles
    BY <1>1, <1>5, MemHas DEF HandlerOK, MemInv
  <2>3. Moves(h, M!Idle)
    BY <1>1, IdleIs, PlainFits DEF MemInv, Plain
  <2> QED BY <1>1, <1>3, <2>1, <2>2, <2>3, MemByDrifting
<1>6. member' = job[h].role /\ member = job[h].role /\ drift' = (drift \/ member # job[h].role) => UNCHANGED <<member, drift>>
  BY AccountHas
<1> QED BY <1>2, <1>4, <1>5, <1>6

LEMMA MemByDeleting ==
  ASSUME MemInv, NEW h \in Builders, NEW b \in BOOLEAN, M!ScimDeletes(h, b) PROVE MemInv'
<1>1. /\ job[h].pc = "idle" /\ job' = [job EXCEPT ![h] = M!Idle] /\ member # NoOne /\ member' = NoOne /\ drift' = TRUE
      /\ account' = IF b THEN [account EXCEPT !.status = "deactivated"] ELSE account
      /\ UNCHANGED <<clock, grants, sessions, mark, links, cut, spent>>
  BY DEF M!ScimDeletes, M!Begins
<1>2. account.status # "none"
  BY <1>1, SomebodyIsKnown DEF MemInv
<1>3. IsAccount(account') /\ account'.codes = account.codes /\ account'.status # "none"
  BY <1>1, <1>2, AccountHas DEF IsAccount
<1>4. Moves(h, M!Idle)
  BY <1>1, IdleIs, PlainFits DEF MemInv, Plain
<1> QED BY <1>1, <1>3, <1>4, MemByDrifting

\* Only time passes, if anything.
LEMMA MemByPassing ==
  ASSUME MemInv, clock' \in {clock, clock + 1},
         UNCHANGED <<account, member, grants, sessions, mark, links, job, cut, spent, drift>>
  PROVE  MemInv'
<1>1. clock \in Nat \ {0} /\ clock' \in Nat \ {0} /\ clock <= clock'
  BY DEF MemInv, MemType
<1>2. \A h \in Builders : HandlerOK(job[h]) => HandlerOK(job[h])'
  BY DEF HandlerOK
<1>3. Blank'
  BY DEF MemInv, MemType, Blank
<1>4. \A s \in DOMAIN sessions : IsSession(sessions[s]) /\ sessions[s].root <= s /\ sessions[s].iat <= clock'
  <2> SUFFICES ASSUME NEW s \in DOMAIN sessions
               PROVE  IsSession(sessions[s]) /\ sessions[s].root <= s /\ sessions[s].iat <= clock'
    OBVIOUS
  <2>1. IsSession(sessions[s]) /\ sessions[s].root <= s /\ sessions[s].iat <= clock
    BY DEF MemInv, MemType
  <2>2. sessions[s].iat \in Nat
    BY <2>1 DEF IsSession
  <2> QED BY <1>1, <2>1, <2>2
<1>5. MemType'
  BY <1>1, <1>2, <1>3, <1>4 DEF MemInv, MemType
<1>6. MarkInv' /\ CodesInv'
  BY CodesByStanding, MarkByStanding DEF MemInv
<1>7. LiveInv'
  <2>1. (\A n : Gone(n) => Gone(n)') /\ \A s : Living(s)' = Living(s)
    BY DEF Gone, Living, Carries, Carried
  <2>2. \A g : Carries(g)' = Carries(g) /\ Carried(g)' = Carried(g)
    BY DEF Carries, Carried
  <2> QED BY <2>1, <2>2 DEF MemInv, LiveInv
<1>8. FollowInv'
  <2>1. Calm => Calm'
    BY DEF Calm, M!Refused, M!Follows, HoldersSought, SignsIn, Honest
  <2>2. Sweeping => Sweeping'
    BY DEF Sweeping
  <2> QED BY <2>1, <2>2 DEF MemInv, FollowInv
<1> QED BY <1>5, <1>6, <1>7, <1>8 DEF MemInv

LEMMA MemByRefreshing ==
  ASSUME MemInv, NEW h \in Builders, NEW s \in DOMAIN sessions, M!Refreshes(h, s), UNCHANGED <<owner, drift>>
  PROVE  MemInv'
<1>1. UNCHANGED <<clock, account, member, grants, sessions, mark, links, cut, spent>>
  BY DEF M!Refreshes
<1>2. CASE M!Begins(h, [M!Idle EXCEPT !.pc = "sweep"])
  <2>1. "sweep" \in Plain
    BY DEF Plain
  <2> QED BY <1>1, <1>2, <2>1, MemByBeginning
<1>3. CASE sessions[s].live /\ M!Begins(h, [M!Idle EXCEPT !.pc = "rotate", !.row = s])
  <2>1. PICK j : j = [M!Idle EXCEPT !.pc = "rotate", !.row = s]
    OBVIOUS
  <2>2. job[h].pc = "idle" /\ job' = [job EXCEPT ![h] = j]
    BY <1>3, <2>1 DEF M!Begins
  <2>3. s \in 1 .. Len(sessions) /\ Len(sessions) \in Nat
    BY MemHas DEF MemInv
  <2>4. IsHandler(j) /\ j.pc = "rotate" /\ j.row = s
    <3>1. s \in Nat
      BY <2>3
    <3>2. j = [M!Idle EXCEPT !.pc = "rotate", !.row = s]
      BY <2>1
    <3> QED BY <3>1, <3>2 DEF IsHandler, M!Idle
  <2>5. HandlerOK(j) /\ ~SignsIn(j)
    BY <1>3, <2>3, <2>4 DEF HandlerOK, SignsIn
  <2>6. Moves(h, j)
    BY <1>1, <2>2, <2>4, <2>5 DEF Moves
  <2>7. account.status # "none"
    BY <2>3 DEF MemInv, MemType, Blank
  <2>8. Blank' /\ M!Refused' = M!Refused
    BY <1>1, <2>7 DEF Blank, M!Refused
  <2>9. FollowInv'
    BY <1>1, <2>2, <2>5, <2>6, <2>8, FollowBySitting DEF MemInv
  <2>10. CodesInv'
    BY <1>1, CodesByStanding DEF MemInv
  <2> QED BY <1>1, <2>6, <2>8, <2>9, <2>10, AccountHas, LinksAre, MemByMoving
<1> QED BY <1>2, <1>3 DEF M!Refreshes, M!Reused

\* A token's row is inserted for whoever signed in or rotated.
LEMMA MemByIssuing == ASSUME MemInv, NEW h \in Builders, M!Issues(h), UNCHANGED <<owner, drift>> PROVE MemInv'
<1>1. PICK j, x, n : j = job[h] /\ x = M!Issued(h) /\ n = Len(sessions) + 1
  OBVIOUS
<1>2. /\ j.pc = "issue" /\ job' = [job EXCEPT ![h] = M!Idle] /\ sessions' = Append(sessions, x)
      /\ UNCHANGED <<clock, account, member, grants, mark, links, cut, spent, drift>>
  BY <1>1 DEF M!Issues, M!Ends, M!Goes
<1>3. /\ IsHandler(j) /\ HandlerOK(j) /\ Len(sessions) \in Nat /\ DOMAIN sessions = 1 .. Len(sessions)
      /\ clock \in Nat \ {0} /\ n \in Nat /\ n = Len(sessions) + 1
  BY <1>1, MemHas DEF MemInv, MemType
<1>4. j.row \in 0 .. Len(sessions) /\ j.role \in Roles /\ j.grant \in Nat /\ SignsIn(j)
  BY <1>2, <1>3 DEF HandlerOK, SignsIn
<1>5. /\ x = [iat |-> clock, live |-> TRUE, root |-> IF j.row = 0 THEN n ELSE sessions[j.row].root,
              role |-> j.role, grant |-> j.grant, clean |-> ~j.raced /\ (j.row = 0 \/ sessions[j.row].clean)]
  BY <1>1 DEF M!Issued
<1>6. \A s \in DOMAIN sessions : /\ IsSession(sessions[s]) /\ sessions[s].root <= s /\ sessions[s].iat <= clock
                                 /\ sessions[s].root \in Nat \ {0}
  BY DEF MemInv, MemType, IsSession
<1>7. /\ x.iat = clock /\ x.live = TRUE /\ x.role = j.role /\ x.grant = j.grant
      /\ x.root = (IF j.row = 0 THEN n ELSE sessions[j.row].root) /\ x.root \in Nat \ {0} /\ x.root <= n
      /\ x.clean = (~j.raced /\ (j.row = 0 \/ sessions[j.row].clean)) /\ x.clean \in BOOLEAN
  BY <1>3, <1>4, <1>5, <1>6
<1>8. IsSession(x)
  BY <1>3, <1>4, <1>5, <1>7 DEF IsSession
<1>9. /\ DOMAIN sessions' = 1 .. n /\ sessions'[n] = x /\ \A s \in DOMAIN sessions : sessions'[s] = sessions[s]
      /\ sessions' \in Seq({sessions'[s] : s \in DOMAIN sessions'}) /\ Len(sessions') = n
      /\ \A s \in DOMAIN sessions' : s \in DOMAIN sessions \/ s = n
  <2> DEFINE T == {sessions[s] : s \in DOMAIN sessions} \cup {x}
  <2>1. sessions \in Seq(T) /\ x \in T
    <3>1. sessions \in Seq({sessions[s] : s \in DOMAIN sessions})
      BY DEF MemInv, MemType
    <3> QED BY <3>1
  <2> HIDE DEF T
  <2>2. /\ sessions' \in Seq(T) /\ Len(sessions') = n /\ sessions'[n] = x
        /\ \A s \in 1 .. Len(sessions) : sessions'[s] = sessions[s]
    BY <1>2, <1>3, <2>1
  <2>3. DOMAIN sessions' = 1 .. n
    BY <2>2
  <2>4. sessions' \in Seq({sessions'[s] : s \in DOMAIN sessions'})
    BY <2>2
  <2> QED BY <1>3, <2>2, <2>3, <2>4
<1>10. \A g \in Builders : job'[g] = IF g = h THEN M!Idle ELSE job[g]
  BY <1>2 DEF MemInv, MemType
<1>11. M!Idle.pc = "idle" /\ M!Idle.row = 0 /\ IsHandler(M!Idle) /\ ~SignsIn(M!Idle)
  BY IdleIs DEF SignsIn
<1>12. \A s \in DOMAIN sessions' : IsSession(sessions'[s]) /\ sessions'[s].root <= s /\ sessions'[s].iat <= clock'
  BY <1>2, <1>3, <1>6, <1>7, <1>8, <1>9
<1>13. \A g \in Builders : IsHandler(job'[g]) /\ HandlerOK(job[g])'
  <2> SUFFICES ASSUME NEW g \in Builders PROVE IsHandler(job'[g]) /\ HandlerOK(job[g])'
    OBVIOUS
  <2>1. CASE g = h
    <3>1. job'[g] = M!Idle /\ Len(sessions') \in Nat
      BY <1>3, <1>9, <1>10, <2>1
    <3>2. 0 \in 0 .. Len(sessions')
      BY <3>1
    <3> QED BY <1>11, <3>1, <3>2 DEF HandlerOK, SignsIn
  <2>2. CASE g # h
    <3>1. job'[g] = job[g] /\ IsHandler(job[g]) /\ HandlerOK(job[g]) /\ job[g].row \in 0 .. Len(sessions)
      BY <1>10, <2>2, MemHas DEF MemInv, HandlerOK
    <3>2. job[g].row \in 0 .. Len(sessions') /\ (job[g].row # 0 => sessions'[job[g].row] = sessions[job[g].row])
      BY <1>3, <1>9, <3>1
    <3> QED BY <3>1, <3>2 DEF HandlerOK, SignsIn
  <2> QED BY <2>1, <2>2
<1>14. account.status # "none"
  BY <1>1, <1>2, SomebodyIsKnown DEF MemInv
<1>15. MemType'
  <2>1. Blank'
    BY <1>2, <1>14 DEF Blank
  <2>2. job' \in [Builders -> {job'[g] : g \in Builders}]
    BY <1>2 DEF MemInv, MemType
  <2> QED BY <1>2, <1>9, <1>12, <1>13, <2>1, <2>2 DEF MemInv, MemType
<1>16. MarkInv' /\ CodesInv'
  <2>1. cut.rows \in 0 .. Len(sessions')
    BY <1>3, <1>9 DEF MemInv, MarkInv
  <2> QED BY <1>2, <2>1, CodesByStanding DEF MemInv, MarkInv, M!MarkLife
<1>17. LiveInv'
  <2>1. \A g \in Builders : Carries(g)' => g # h /\ Carries(g) /\ Carried(g)' = Carried(g) /\ Carried(g) < n
    <3> SUFFICES ASSUME NEW g \in Builders, Carries(g)'
                 PROVE  g # h /\ Carries(g) /\ Carried(g)' = Carried(g) /\ Carried(g) < n
      OBVIOUS
    <3>1. g # h /\ job'[g] = job[g]
      BY <1>10, <1>11 DEF Carries
    <3>2. job[g].row \in DOMAIN sessions
      <4>1. job[g].row \in 0 .. Len(sessions) /\ job[g].row # 0
        BY <3>1, MemHas DEF HandlerOK, Carries, MemInv
      <4> QED BY <1>3, <4>1
    <3>3. sessions'[job[g].row] = sessions[job[g].row]
      BY <1>9, <3>2
    <3> QED BY <1>3, <1>6, <3>1, <3>2, <3>3 DEF Carries, Carried
  <2>2. \A s \in DOMAIN sessions : Living(s)' = Living(s) /\ sessions'[s].root = sessions[s].root /\ sessions[s].root < n
    BY <1>3, <1>6, <1>9 DEF Living
  <2>3. Living(n)' => \/ sessions'[n].root = n
                      \/ Carries(h) /\ sessions'[n].root = Carried(h)
    BY <1>1, <1>2, <1>7, <1>9 DEF Living, Carries, Carried
  <2>4. \A s \in DOMAIN sessions : Living(s)' /\ Living(n)' => sessions'[s].root # sessions'[n].root
    BY <1>3, <2>2, <2>3 DEF MemInv, LiveInv
  <2>5. \A g \in Builders : Carries(g)' /\ Living(n)' => sessions'[n].root # Carried(g)'
    BY <1>3, <2>1, <2>3 DEF MemInv, LiveInv
  <2>6. \A s, t \in DOMAIN sessions' : Living(s)' /\ Living(t)' /\ sessions'[s].root = sessions'[t].root => s = t
    BY <1>9, <2>2, <2>4 DEF MemInv, LiveInv
  <2>7. \A g, k \in Builders : Carries(g)' /\ Carries(k)' /\ Carried(g)' = Carried(k)' => g = k
    BY <2>1 DEF MemInv, LiveInv
  <2>8. \A s \in DOMAIN sessions' : \A g \in Builders : Living(s)' /\ Carries(g)' => sessions'[s].root # Carried(g)'
    BY <1>9, <2>1, <2>2, <2>5 DEF MemInv, LiveInv
  <2>9. ASSUME NEW m \in 0 .. Len(sessions), Gone(m) PROVE Gone(m)'
    <3>1. m < n
      BY <1>3
    <3>2. Living(n)' => sessions'[n].root > m
      BY <1>3, <2>3, <2>9, <3>1 DEF Gone
    <3>3. \A s \in DOMAIN sessions' : Living(s)' => sessions'[s].root > m
      BY <1>9, <2>2, <2>9, <3>2 DEF Gone
    <3>4. \A g \in Builders : Carries(g)' => Carried(g)' > m
      BY <2>1, <2>9 DEF Gone
    <3> QED BY <3>3, <3>4 DEF Gone
  <2>10. Gone(cut.rows)'
    <3>1. cut.rows \in 0 .. Len(sessions) /\ Gone(cut.rows) /\ cut' = cut
      BY <1>2 DEF MemInv, MarkInv, LiveInv
    <3>2. PICK m : m = cut.rows
      OBVIOUS
    <3>3. Gone(m)'
      BY <2>9, <3>1, <3>2
    <3> QED BY <3>1, <3>2, <3>3 DEF Gone
  <2>11. \A g \in Builders : job'[g].pc = "mark" => Gone(job[g].row)'
    <3> SUFFICES ASSUME NEW g \in Builders, job'[g].pc = "mark" PROVE Gone(job[g].row)'
      OBVIOUS
    <3>1. g # h /\ job'[g] = job[g] /\ job[g].row \in 0 .. Len(sessions)
      BY <1>10, <1>11, MemHas DEF HandlerOK, MemInv
    <3>2. PICK m : m = job[g].row
      OBVIOUS
    <3>3. Gone(m)'
      BY <2>9, <3>1, <3>2 DEF MemInv, LiveInv
    <3> QED BY <3>1, <3>2, <3>3 DEF Gone
  <2> QED BY <2>6, <2>7, <2>8, <2>10, <2>11 DEF LiveInv
<1>18. FollowInv'
  <2>1. CASE drift
    BY <1>2, <2>1 DEF FollowInv
  <2>2. CASE Sweeping
    BY <1>1, <1>2, <1>10, <2>2 DEF FollowInv, Sweeping
  <2>3. CASE Calm
    <3>1. (HoldersSought => HoldersSought') /\ M!Refused' = M!Refused
      BY <1>1, <1>2, <1>10 DEF HoldersSought, M!Refused
    <3>2. (\E g \in Builders : job[g].pc = "mark") => \E g \in Builders : job'[g].pc = "mark"
      BY <1>1, <1>2, <1>10
    <3>3. \A s \in DOMAIN sessions : M!Follows(s) => M!Follows(s)'
      BY <1>2, <1>9 DEF M!Follows, M!Refused
    <3>4. ASSUME NEW s \in DOMAIN sessions', sessions'[s].clean
          PROVE  /\ sessions'[s].live => ~M!Refused'
                 /\ \/ M!Follows(s)' \/ sessions'[s].iat <= cut'.at \/ HoldersSought'
                    \/ \E g \in Builders : job'[g].pc = "mark"
      <4>1. CASE s \in DOMAIN sessions
        <5>1. sessions'[s] = sessions[s] /\ cut' = cut
          BY <1>2, <1>9, <4>1
        <5> QED BY <2>3, <3>1, <3>2, <3>3, <3>4, <4>1, <5>1 DEF Calm
      <4>2. CASE s = n
        <5>1. Honest(j) /\ sessions'[s] = x
          BY <1>7, <1>9, <3>4, <4>2 DEF Honest
        <5>2. ~M!Refused /\ (HoldersSought \/ (j.role = member /\ j.grant = grants[member]))
          BY <1>1, <1>4, <2>3, <5>1 DEF Calm
        <5>3. j.role = member /\ j.grant = grants[member] => M!Follows(s)'
          BY <1>2, <1>7, <3>1, <5>1, <5>2 DEF M!Follows
        <5> QED BY <3>1, <5>2, <5>3
      <4> QED BY <1>9, <4>1, <4>2
    <3>5. ASSUME NEW g \in Builders, SignsIn(job'[g]), Honest(job[g])'
          PROVE  ~M!Refused' /\ (HoldersSought' \/ (job'[g].role = member' /\ job'[g].grant = grants'[member']))
      <4>1. g # h /\ job'[g] = job[g] /\ SignsIn(job[g])
        BY <1>10, <1>11, <3>5
      <4>2. job[g].row = 0 \/ job[g].row \in DOMAIN sessions
        <5>1. job[g].row \in 0 .. Len(sessions)
          BY MemHas DEF HandlerOK, MemInv
        <5> QED BY <1>3, <5>1
      <4>3. Honest(job[g])
        BY <1>9, <3>5, <4>1, <4>2 DEF Honest
      <4> QED BY <1>2, <2>3, <3>1, <4>1, <4>3 DEF Calm
    <3> QED BY <3>4, <3>5 DEF FollowInv, Calm
  <2> QED BY <2>1, <2>2, <2>3 DEF FollowInv, MemInv
<1> QED BY <1>15, <1>16, <1>17, <1>18 DEF MemInv

LEMMA SeqOfItself == ASSUME NEW T, NEW q \in Seq(T) PROVE q \in Seq({q[t] : t \in DOMAIN q})
<1> DEFINE U == {q[t] : t \in DOMAIN q}
<1>1. DOMAIN q = 1 .. Len(q) /\ Len(q) \in Nat /\ \A t \in 1 .. Len(q) : q[t] \in U
  OBVIOUS
<1> HIDE DEF U
<1>2. q \in Seq(U)
  BY <1>1
<1> QED BY <1>2 DEF U

\* A row is revoked, and whoever had read it as live comes too late; the request that did
\* so may go on with what the row stood for.
LEMMA MemByOvertaking ==
  ASSUME MemInv, NEW h \in Builders, NEW s \in DOMAIN sessions, NEW j, IsHandler(j),
         job[h].pc \in {"idle", "rotate"},
         job' = M!Overtaken(h, s, j), sessions' = [sessions EXCEPT ![s].live = FALSE],
         \/ j = M!Idle
         \/ /\ j.pc = "issue" /\ j.row = s /\ job[h].pc = "rotate" /\ job[h].row = s /\ j.raced = job[h].raced
            /\ member # NoOne /\ j.role = member /\ j.grant = grants[member],
         UNCHANGED <<clock, account, member, grants, mark, links, cut, spent, drift>>
  PROVE  MemInv'
<1>1. /\ Len(sessions) \in Nat /\ DOMAIN sessions = 1 .. Len(sessions) /\ s \in 1 .. Len(sessions)
      /\ \A t \in DOMAIN sessions : IsSession(sessions[t]) /\ sessions[t].root <= t /\ sessions[t].iat <= clock
  BY MemHas DEF MemInv, MemType
<1>2. PICK x, y : x = sessions[s] /\ y = [x EXCEPT !.live = FALSE]
  OBVIOUS
<1>3. /\ IsSession(y) /\ y.live = FALSE /\ y.root = x.root /\ y.iat = x.iat /\ y.role = x.role
      /\ y.grant = x.grant /\ y.clean = x.clean
  BY <1>1, <1>2 DEF IsSession
<1>4. sessions' = [sessions EXCEPT ![s] = y]
  BY <1>2
<1>5. /\ DOMAIN sessions' = DOMAIN sessions /\ Len(sessions') = Len(sessions)
      /\ \A t \in DOMAIN sessions : sessions'[t] = IF t = s THEN y ELSE sessions[t]
      /\ sessions' \in Seq({sessions'[t] : t \in DOMAIN sessions'})
  <2> DEFINE T == {sessions[t] : t \in DOMAIN sessions} \cup {y}
  <2>1. sessions \in Seq(T) /\ y \in T
    <3>1. sessions \in Seq({sessions[t] : t \in DOMAIN sessions})
      BY DEF MemInv, MemType
    <3> QED BY <3>1
  <2> HIDE DEF T
  <2>2. sessions' \in Seq(T) /\ Len(sessions') = Len(sessions) /\ DOMAIN sessions' = DOMAIN sessions
    <3>1. PICK q, n : q = sessions /\ n = Len(sessions)
      OBVIOUS
    <3>2. q \in Seq(T) /\ s \in 1 .. Len(q) /\ y \in T /\ DOMAIN q = 1 .. Len(q)
      BY <1>1, <2>1, <3>1
    <3>3. [q EXCEPT ![s] = y] \in Seq(T) /\ Len([q EXCEPT ![s] = y]) = Len(q) /\ DOMAIN [q EXCEPT ![s] = y] = DOMAIN q
      BY <3>2, ExceptSeq
    <3> QED BY <1>4, <3>1, <3>3
  <2>3. \A t \in DOMAIN sessions : sessions'[t] = IF t = s THEN y ELSE sessions[t]
    BY <1>1, <1>4
  <2>4. sessions' \in Seq({sessions'[t] : t \in DOMAIN sessions'})
    <3>1. PICK q : q = sessions'
      OBVIOUS
    <3>2. q \in Seq(T)
      BY <2>2, <3>1
    <3>3. q \in Seq({q[t] : t \in DOMAIN q})
      BY <3>2, SeqOfItself
    <3> QED BY <3>1, <3>3
  <2> QED BY <2>2, <2>3, <2>4
<1>6. \A t \in DOMAIN sessions : /\ IsSession(sessions'[t]) /\ sessions'[t].root = sessions[t].root
                                 /\ sessions'[t].iat = sessions[t].iat /\ sessions'[t].role = sessions[t].role
                                 /\ sessions'[t].grant = sessions[t].grant /\ sessions'[t].clean = sessions[t].clean
                                 /\ (sessions'[t].live => t # s /\ sessions[t].live)
                                 /\ (t # s => sessions'[t] = sessions[t])
  BY <1>1, <1>2, <1>3, <1>5
<1>7. job'[h] = j
  BY DEF M!Overtaken
<1>8. ASSUME NEW g \in Builders, g # h
      PROVE  /\ IsHandler(job'[g]) /\ job'[g].pc = job[g].pc /\ job'[g].row = job[g].row /\ job'[g].role = job[g].role
             /\ job'[g].grant = job[g].grant /\ job'[g].codes = job[g].codes /\ job'[g].code = job[g].code
             /\ job'[g].then = job[g].then
             /\ job'[g].raced = (job[g].raced \/ (job[g].pc = "rotate" /\ job[g].row = s))
  <2>1. PICK a, k : a = job[g] /\ k = [a EXCEPT !.raced = @ \/ (a.pc = "rotate" /\ a.row = s)]
    OBVIOUS
  <2>2. IsHandler(a)
    BY <2>1, MemHas DEF MemInv
  <2>3. job'[g] = k
    BY <1>8, <2>1 DEF M!Overtaken
  <2>4. PICK b \in BOOLEAN : b = (a.raced \/ (a.pc = "rotate" /\ a.row = s))
    OBVIOUS
  <2>5. k = [a EXCEPT !.raced = b]
    <3>1. a.raced \in BOOLEAN
      BY <2>2 DEF IsHandler
    <3> QED BY <2>1, <2>4
  <2>6. /\ IsHandler(k) /\ k.pc = a.pc /\ k.row = a.row /\ k.role = a.role /\ k.grant = a.grant
        /\ k.codes = a.codes /\ k.code = a.code /\ k.then = a.then /\ k.raced = b
    BY <2>2, <2>5 DEF IsHandler
  <2> QED BY <2>1, <2>3, <2>4, <2>6
<1>9. /\ job[h].row \in 0 .. Len(sessions) /\ HandlerOK(job[h]) /\ IsHandler(job[h])
      /\ M!Idle.pc = "idle" /\ M!Idle.row = 0 /\ ~SignsIn(M!Idle)
  BY IdleIs, MemHas DEF MemInv, HandlerOK, SignsIn
<1>10. HandlerOK(j)'
  <2>1. CASE j = M!Idle
    <3>1. j.row \in 0 .. Len(sessions') /\ j.pc = "idle" /\ j.row = 0
      BY <1>1, <1>5, <1>9, <2>1
    <3> QED BY <3>1 DEF HandlerOK, SignsIn
  <2>2. CASE j.pc = "issue" /\ j.row = s /\ member # NoOne /\ j.role = member /\ j.grant = grants[member]
    <3>1. j.row \in 0 .. Len(sessions') /\ j.role \in Roles /\ j.grant \in Nat
      BY <1>1, <1>5, <2>2, AccountHas
    <3> QED BY <2>2, <3>1 DEF HandlerOK, SignsIn
  <2> QED BY <2>1, <2>2
<1>11. \A g \in Builders : IsHandler(job'[g]) /\ HandlerOK(job[g])'
  <2> SUFFICES ASSUME NEW g \in Builders, g # h PROVE IsHandler(job'[g]) /\ HandlerOK(job[g])'
    BY <1>7, <1>10 DEF HandlerOK, SignsIn
  <2>1. HandlerOK(job[g])
    BY MemHas DEF MemInv
  <2>2. job[g].row \in 0 .. Len(sessions') /\ (job[g].row # 0 => job[g].row \in DOMAIN sessions)
    BY <1>1, <1>5, <2>1 DEF HandlerOK
  <2>3. SignsIn(job[g])' = SignsIn(job[g])
    BY <1>8 DEF SignsIn
  <2>4. job'[g].pc = "rotate" /\ ~job'[g].raced => sessions'[job'[g].row].live
    <3> SUFFICES ASSUME job'[g].pc = "rotate", ~job'[g].raced PROVE sessions'[job'[g].row].live
      OBVIOUS
    <3>1. job[g].pc = "rotate" /\ ~job[g].raced /\ job[g].row # s /\ job'[g].row = job[g].row /\ job[g].row # 0
      BY <1>8, <2>1 DEF HandlerOK
    <3>2. sessions[job[g].row].live
      BY <2>1, <3>1 DEF HandlerOK
    <3> QED BY <1>6, <2>2, <3>1, <3>2
  <2>5. IsHandler(job'[g]) /\ job'[g].row = job[g].row /\ job'[g].pc = job[g].pc
    BY <1>8
  <2>6. SignsIn(job'[g]) => job'[g].role \in Roles /\ job'[g].grant \in Nat
    BY <1>8, <2>1, <2>3 DEF HandlerOK
  <2>7. job'[g].pc = "rotate" => job'[g].row # 0 /\ (~job'[g].raced => sessions'[job'[g].row].live)
    BY <2>1, <2>4, <2>5 DEF HandlerOK
  <2>8. /\ job'[g].pc \notin {"rotate", "issue", "mark"} => job'[g].row = 0
        /\ job'[g].pc \in {"holders", "applyRole"} => job'[g].role \in Roles
        /\ job'[g].pc = "spend" => job'[g].codes \subseteq Codes /\ job'[g].code \in job'[g].codes /\ job'[g].then \in {"clear", "disable"}
        /\ job'[g].pc = "consume" => job'[g].then \in {"password_reset", "email_verification"}
    BY <1>8, <2>1 DEF HandlerOK
  <2> QED BY <2>2, <2>5, <2>6, <2>7, <2>8 DEF HandlerOK
<1>12. account.status # "none"
  BY <1>1, SomebodyIsKnown DEF MemInv
<1>13. MemType'
  <2>1. Blank'
    BY <1>12 DEF Blank
  <2>2. job' \in [Builders -> {job'[g] : g \in Builders}]
    BY DEF M!Overtaken
  <2>3. \A t \in DOMAIN sessions' : IsSession(sessions'[t]) /\ sessions'[t].root <= t /\ sessions'[t].iat <= clock'
    <3> SUFFICES ASSUME NEW t \in DOMAIN sessions
                 PROVE  IsSession(sessions'[t]) /\ sessions'[t].root <= t /\ sessions'[t].iat <= clock'
      BY <1>5
    <3>1. sessions'[t].root = sessions[t].root /\ sessions'[t].iat = sessions[t].iat /\ IsSession(sessions'[t])
      BY <1>6
    <3> QED BY <1>1, <3>1
  <2> QED BY <1>5, <1>11, <2>1, <2>2, <2>3 DEF MemInv, MemType
<1>14. MarkInv' /\ CodesInv'
  <2>1. cut.rows \in 0 .. Len(sessions')
    BY <1>5 DEF MemInv, MarkInv
  <2> QED BY <2>1, CodesByStanding DEF MemInv, MarkInv, M!MarkLife
<1>15. ASSUME NEW g \in Builders, g # h
       PROVE  job[g].row = 0 \/ job[g].row \in DOMAIN sessions
  <2>1. job[g].row \in 0 .. Len(sessions)
    BY MemHas DEF HandlerOK, MemInv
  <2> QED BY <1>1, <2>1
<1>16. LiveInv'
  <2>1. \A t \in DOMAIN sessions : Living(t)' => Living(t) /\ t # s
    BY <1>6 DEF Living
  <2>2. \A g \in Builders : g # h /\ Carries(g)' => Carries(g) /\ Carried(g)' = Carried(g)
    <3> SUFFICES ASSUME NEW g \in Builders, g # h, Carries(g)' PROVE Carries(g) /\ Carried(g)' = Carried(g)
      OBVIOUS
    <3>1. job[g].pc = "issue" /\ job[g].row # 0 /\ ~job[g].raced /\ job'[g].row = job[g].row
      BY <1>8 DEF Carries
    <3>2. job[g].row \in DOMAIN sessions /\ sessions'[job[g].row].clean
      BY <1>15, <3>1 DEF Carries
    <3>3. sessions[job[g].row].clean /\ sessions'[job[g].row].root = sessions[job[g].row].root
      BY <1>6, <3>2
    <3> QED BY <3>1, <3>3 DEF Carries, Carried
  <2>3. Carries(h)' => Living(s) /\ Carried(h)' = sessions[s].root
    <3> SUFFICES ASSUME Carries(h)' PROVE Living(s) /\ Carried(h)' = sessions[s].root
      OBVIOUS
    <3>1. j.pc = "issue" /\ j.row = s /\ ~j.raced /\ job[h].pc = "rotate" /\ job[h].row = s /\ ~job[h].raced
          /\ sessions'[s].clean
      BY <1>7, <1>9 DEF Carries
    <3>2. sessions[s].live /\ sessions[s].clean
      BY <1>6, <1>9, <3>1 DEF HandlerOK
    <3>3. job'[h].row = s /\ sessions'[s].root = sessions[s].root
      BY <1>6, <1>7, <3>1
    <3> QED BY <3>2, <3>3 DEF Living, Carried
  <2>4. \A t, u \in DOMAIN sessions' : Living(t)' /\ Living(u)' /\ sessions'[t].root = sessions'[u].root => t = u
    BY <1>5, <1>6, <2>1 DEF MemInv, LiveInv
  <2>5. \A g, k \in Builders : Carries(g)' /\ Carries(k)' /\ Carried(g)' = Carried(k)' => g = k
    BY <2>2, <2>3 DEF MemInv, LiveInv
  <2>6. \A t \in DOMAIN sessions' : \A g \in Builders : Living(t)' /\ Carries(g)' => sessions'[t].root # Carried(g)'
    BY <1>5, <1>6, <2>1, <2>2, <2>3 DEF MemInv, LiveInv
  <2>7. \A m : Gone(m) => Gone(m)'
    <3> SUFFICES ASSUME NEW m, Gone(m) PROVE Gone(m)'
      OBVIOUS
    <3>1. \A t \in DOMAIN sessions' : Living(t)' => sessions'[t].root > m
      BY <1>5, <1>6, <2>1 DEF Gone
    <3>2. \A g \in Builders : Carries(g)' => Carried(g)' > m
      BY <2>2, <2>3 DEF Gone
    <3> QED BY <3>1, <3>2 DEF Gone
  <2>8. Gone(cut.rows)'
    BY <2>7 DEF MemInv, LiveInv
  <2>9. \A g \in Builders : job'[g].pc = "mark" => Gone(job[g].row)'
    <3> SUFFICES ASSUME NEW g \in Builders, job'[g].pc = "mark" PROVE Gone(job[g].row)'
      OBVIOUS
    <3>1. g # h /\ job[g].pc = "mark" /\ job'[g].row = job[g].row
      BY <1>7, <1>8, <1>9
    <3>2. PICK m : m = job[g].row
      OBVIOUS
    <3>3. Gone(m)'
      BY <2>7, <3>1, <3>2 DEF MemInv, LiveInv
    <3> QED BY <3>1, <3>2, <3>3 DEF Gone
  <2> QED BY <2>4, <2>5, <2>6, <2>8, <2>9 DEF LiveInv
<1>17. FollowInv'
  <2>1. CASE drift
    BY <2>1 DEF FollowInv
  <2>2. CASE Sweeping
    <3>1. PICK g \in Builders : job[g].pc = "sweep"
      BY <2>2 DEF Sweeping
    <3>2. job'[g].pc = "sweep"
      BY <1>8, <3>1
    <3> QED BY <3>2 DEF FollowInv, Sweeping
  <2>3. CASE Calm
    <3>1. (HoldersSought => HoldersSought') /\ M!Refused' = M!Refused
      <4>1. HoldersSought => HoldersSought'
        BY <1>8 DEF HoldersSought
      <4> QED BY <4>1 DEF M!Refused
    <3>2. (\E g \in Builders : job[g].pc = "mark") => \E g \in Builders : job'[g].pc = "mark"
      BY <1>8
    <3>3. \A t \in DOMAIN sessions : M!Follows(t) => M!Follows(t)'
      BY <1>6 DEF M!Follows, M!Refused
    <3>4. ASSUME NEW t \in DOMAIN sessions', sessions'[t].clean
          PROVE  /\ sessions'[t].live => ~M!Refused'
                 /\ \/ M!Follows(t)' \/ sessions'[t].iat <= cut'.at \/ HoldersSought'
                    \/ \E g \in Builders : job'[g].pc = "mark"
      <4>1. t \in DOMAIN sessions /\ sessions[t].clean /\ (sessions'[t].live => sessions[t].live)
            /\ sessions'[t].iat = sessions[t].iat /\ cut' = cut
        BY <1>5, <1>6, <3>4
      <4> QED BY <2>3, <3>1, <3>2, <3>3, <4>1 DEF Calm
    <3>5. ASSUME NEW g \in Builders, SignsIn(job'[g]), Honest(job[g])'
          PROVE  ~M!Refused' /\ (HoldersSought' \/ (job'[g].role = member' /\ job'[g].grant = grants'[member']))
      <4>1. CASE g # h
        <5>1. SignsIn(job[g]) /\ job'[g].role = job[g].role /\ job'[g].grant = job[g].grant
          BY <1>8, <3>5, <4>1 DEF SignsIn
        <5>2. Honest(job[g])
          BY <1>6, <1>8, <1>15, <3>5, <4>1 DEF Honest
        <5> QED BY <2>3, <3>1, <5>1, <5>2 DEF Calm
      <4>2. CASE g = h
        <5>1. j.pc = "issue" /\ j.row = s /\ job[h].pc = "rotate" /\ job[h].row = s /\ j.raced = job[h].raced
              /\ j.role = member /\ j.grant = grants[member]
          BY <1>7, <1>9, <3>5, <4>2
        <5>2. ~job[h].raced /\ sessions'[s].clean /\ s # 0
          BY <1>1, <1>7, <3>5, <4>2, <5>1 DEF Honest
        <5>3. sessions[s].live /\ sessions[s].clean
          BY <1>6, <1>9, <5>1, <5>2 DEF HandlerOK
        <5>4. ~M!Refused
          BY <2>3, <5>3 DEF Calm
        <5> QED BY <1>7, <3>1, <4>2, <5>1, <5>4
      <4> QED BY <4>1, <4>2
    <3> QED BY <3>4, <3>5 DEF FollowInv, Calm
  <2> QED BY <2>1, <2>2, <2>3 DEF FollowInv, MemInv
<1> QED BY <1>13, <1>14, <1>16, <1>17 DEF MemInv

LEMMA MemByLoggingOut ==
  ASSUME MemInv, NEW h \in Builders, NEW s \in DOMAIN sessions, M!LogsOut(h, s), UNCHANGED <<owner, drift>>
  PROVE  MemInv'
<1>1. /\ job[h].pc = "idle" /\ job' = M!Overtaken(h, s, M!Idle)
      /\ sessions' = [sessions EXCEPT ![s].live = FALSE]
      /\ UNCHANGED <<clock, account, member, grants, mark, links, cut, spent>>
  BY DEF M!LogsOut
<1> QED BY <1>1, IdleIs, MemByOvertaking

LEMMA MemByRotating == ASSUME MemInv, NEW h \in Builders, M!Rotates(h), UNCHANGED <<owner, drift>> PROVE MemInv'
<1>1. PICK s : s = job[h].row
  OBVIOUS
<1>2. /\ job[h].pc = "rotate" /\ UNCHANGED <<clock, account, member, grants, mark, links, cut, spent>>
  BY DEF M!Rotates
<1>3. s \in DOMAIN sessions
  <2>1. s \in 0 .. Len(sessions) /\ s # 0 /\ DOMAIN sessions = 1 .. Len(sessions) /\ Len(sessions) \in Nat
    BY <1>1, <1>2, MemHas DEF HandlerOK, MemInv
  <2> QED BY <2>1
<1>4. CASE member = NoOne
  <2>1. job' = [job EXCEPT ![h] = M!Idle] /\ UNCHANGED sessions
    BY <1>4 DEF M!Rotates, M!Ends, M!Goes
  <2>2. account.status # "none"
    BY <1>2, SomebodyIsKnown DEF MemInv
  <2>3. IsAccount(account') /\ account'.codes \subseteq account.codes /\ account'.status # "none"
    BY <1>2, <2>2, AccountHas
  <2> QED BY <1>2, <2>1, <2>3, MemByEnding
<1>5. CASE member # NoOne
  <2>1. PICK x, j : x = M!SignedIn("issue") /\ j = [x EXCEPT !.row = s, !.raced = job[h].raced]
    OBVIOUS
  <2>2. sessions' = [sessions EXCEPT ![s].live = FALSE] /\ job' = M!Overtaken(h, s, j)
    BY <1>1, <1>5, <2>1 DEF M!Rotates
  <2>3. IsHandler(x) /\ x.pc = "issue" /\ x.role = member /\ x.grant = grants[member]
    BY <1>5, <2>1, SignedInIs
  <2>4. s \in Nat /\ job[h].raced \in BOOLEAN
    BY <1>1, MemHas DEF IsHandler, MemInv
  <2>5. /\ IsHandler(j) /\ j.pc = "issue" /\ j.row = s /\ j.raced = job[h].raced /\ j.role = member
        /\ j.grant = grants[member]
    BY <2>1, <2>3, <2>4 DEF IsHandler
  <2> QED BY <1>1, <1>2, <1>3, <1>5, <2>2, <2>5, MemByOvertaking
<1> QED BY <1>4, <1>5

\* Every row is revoked, and whoever holds what it read of one comes too late.
LEMMA MemBySweeping == ASSUME MemInv, NEW h \in Builders, M!Sweeps(h), UNCHANGED <<owner, drift>> PROVE MemInv'
<1>1. PICK n, j : n = Len(sessions) /\ j = [M!Idle EXCEPT !.pc = "mark", !.row = n]
  OBVIOUS
<1>2. /\ job[h].pc = "sweep" /\ job'[h] = j /\ job' \in [Builders -> {job'[g] : g \in Builders}]
      /\ sessions' = [s \in DOMAIN sessions |-> [sessions[s] EXCEPT !.live = FALSE]]
      /\ UNCHANGED <<clock, account, member, grants, mark, links, cut, spent, drift>>
  BY <1>1 DEF M!Sweeps
<1>3. /\ n \in Nat /\ DOMAIN sessions = 1 .. n
      /\ \A t \in DOMAIN sessions : IsSession(sessions[t]) /\ sessions[t].root <= t /\ sessions[t].iat <= clock
  BY <1>1, MemHas DEF MemInv, MemType
<1>4. IsHandler(j) /\ j.pc = "mark" /\ j.row = n /\ ~SignsIn(j)
  <2>1. IsHandler(j) /\ j.pc = "mark" /\ j.row = n
    BY <1>1, <1>3 DEF IsHandler, M!Idle
  <2> QED BY <2>1 DEF SignsIn
<1>5. ASSUME NEW t \in DOMAIN sessions
      PROVE  /\ IsSession(sessions'[t]) /\ sessions'[t].root = sessions[t].root /\ sessions'[t].iat = sessions[t].iat
             /\ sessions'[t].role = sessions[t].role /\ sessions'[t].grant = sessions[t].grant
             /\ sessions'[t].clean = sessions[t].clean /\ sessions'[t].live = FALSE
  <2>1. PICK x, y : x = sessions[t] /\ y = [x EXCEPT !.live = FALSE]
    OBVIOUS
  <2>2. IsSession(x) /\ sessions'[t] = y
    BY <1>2, <1>3, <2>1
  <2> QED BY <2>1, <2>2 DEF IsSession
<1>6. DOMAIN sessions' = 1 .. n /\ sessions' \in Seq({sessions'[t] : t \in DOMAIN sessions'}) /\ Len(sessions') = n
  <2>1. PICK q : q = sessions'
    OBVIOUS
  <2>2. DOMAIN q = 1 .. n /\ q = [s \in 1 .. n |-> q[s]]
    BY <1>2, <1>3, <2>1
  <2> DEFINE U == {q[t] : t \in DOMAIN q}
  <2>3. \A t \in 1 .. n : q[t] \in U
    BY <2>2
  <2> HIDE DEF U
  <2>4. q \in Seq(U) /\ Len(q) = n
    BY <1>3, <2>2, <2>3
  <2> QED BY <2>1, <2>2, <2>4 DEF U
<1>7. ASSUME NEW g \in Builders, g # h
      PROVE  /\ IsHandler(job'[g]) /\ job'[g].pc = job[g].pc /\ job'[g].row = job[g].row /\ job'[g].role = job[g].role
             /\ job'[g].grant = job[g].grant /\ job'[g].codes = job[g].codes /\ job'[g].code = job[g].code
             /\ job'[g].then = job[g].then /\ (job[g].pc \in M!Holding => job'[g].raced = TRUE)
  <2>1. PICK a, b, k : /\ a = job[g] /\ b \in BOOLEAN /\ b = (a.raced \/ a.pc \in M!Holding)
                       /\ k = [a EXCEPT !.raced = @ \/ a.pc \in M!Holding]
    OBVIOUS
  <2>2. IsHandler(a) /\ job'[g] = k
    BY <1>7, <2>1, MemHas DEF MemInv, M!Sweeps
  <2>3. k = [a EXCEPT !.raced = b]
    <3>1. a.raced \in BOOLEAN
      BY <2>2 DEF IsHandler
    <3> QED BY <2>1
  <2>4. /\ IsHandler(k) /\ k.pc = a.pc /\ k.row = a.row /\ k.role = a.role /\ k.grant = a.grant
        /\ k.codes = a.codes /\ k.code = a.code /\ k.then = a.then /\ k.raced = b
    BY <2>1, <2>2, <2>3 DEF IsHandler
  <2> QED BY <2>1, <2>2, <2>4
<1>8. {"spend", "clear", "rotate", "issue"} = M!Holding
  BY DEF M!Holding
<1>9. ASSUME NEW g \in Builders PROVE IsHandler(job'[g]) /\ HandlerOK(job[g])'
  <2>1. CASE g = h
    <3>1. n \in 0 .. Len(sessions')
      BY <1>3, <1>6
    <3> QED BY <1>2, <1>4, <2>1, <3>1 DEF HandlerOK, SignsIn
  <2>2. CASE g # h
    <3>1. HandlerOK(job[g]) /\ job[g].row \in 0 .. Len(sessions')
      BY <1>1, <1>6, MemHas DEF HandlerOK, MemInv
    <3>2. SignsIn(job'[g]) = SignsIn(job[g])
      BY <1>7, <2>2 DEF SignsIn
    <3>3. job'[g].pc = "rotate" => job'[g].row # 0 /\ job'[g].raced
      BY <1>7, <1>8, <2>2, <3>1 DEF HandlerOK
    <3>4. SignsIn(job'[g]) => job'[g].role \in Roles /\ job'[g].grant \in Nat
      BY <1>7, <2>2, <3>1, <3>2 DEF HandlerOK
    <3>5. /\ job'[g].pc \notin {"rotate", "issue", "mark"} => job'[g].row = 0
          /\ job'[g].pc \in {"holders", "applyRole"} => job'[g].role \in Roles
          /\ job'[g].pc = "spend" => job'[g].codes \subseteq Codes /\ job'[g].code \in job'[g].codes /\ job'[g].then \in {"clear", "disable"}
          /\ job'[g].pc = "consume" => job'[g].then \in {"password_reset", "email_verification"}
      BY <1>7, <2>2, <3>1 DEF HandlerOK
    <3>6. IsHandler(job'[g]) /\ job'[g].row \in 0 .. Len(sessions')
      BY <1>7, <2>2, <3>1
    <3> QED BY <3>3, <3>4, <3>5, <3>6 DEF HandlerOK
  <2> QED BY <2>1, <2>2
<1>10. MemType'
  <2>1. sessions = <<>> => sessions' = <<>>
    BY <1>1, <1>3, <1>6
  <2>2. \A g \in Builders : job'[g].pc = job[g].pc \/ job'[g].pc = "mark"
    BY <1>2, <1>4, <1>7
  <2>3. Blank'
    <3>1. Blank
      BY DEF MemInv, MemType
    <3>2. ASSUME account.status = "none", NEW g \in Builders PROVE job'[g].pc \in {"idle", "sweep", "mark", "holders"}
      BY <2>2, <3>1, <3>2 DEF Blank
    <3> QED BY <1>2, <2>1, <3>1, <3>2 DEF Blank
  <2>4. \A t \in DOMAIN sessions' : IsSession(sessions'[t]) /\ sessions'[t].root <= t /\ sessions'[t].iat <= clock'
    <3> SUFFICES ASSUME NEW t \in DOMAIN sessions
                 PROVE  IsSession(sessions'[t]) /\ sessions'[t].root <= t /\ sessions'[t].iat <= clock'
      BY <1>3, <1>6
    <3>1. sessions'[t].root = sessions[t].root /\ sessions'[t].iat = sessions[t].iat /\ IsSession(sessions'[t])
      BY <1>5
    <3> QED BY <1>2, <1>3, <3>1
  <2> QED BY <1>2, <1>6, <1>9, <2>3, <2>4 DEF MemInv, MemType
<1>11. MarkInv' /\ CodesInv'
  <2>1. cut.rows \in 0 .. Len(sessions')
    BY <1>1, <1>6 DEF MemInv, MarkInv
  <2> QED BY <1>2, <2>1, CodesByStanding DEF MemInv, MarkInv, M!MarkLife
<1>12. LiveInv'
  <2>1. \A t \in DOMAIN sessions' : ~Living(t)'
    BY <1>3, <1>5, <1>6 DEF Living
  <2>2. \A g \in Builders : ~Carries(g)'
    BY <1>2, <1>4, <1>7, <1>8 DEF Carries
  <2>3. \A m : Gone(m)'
    BY <2>1, <2>2 DEF Gone
  <2>4. Gone(cut.rows)' /\ \A g \in Builders : Gone(job[g].row)'
    BY <2>1, <2>2 DEF Gone
  <2> QED BY <2>1, <2>2, <2>4 DEF LiveInv
<1>13. FollowInv'
  <2>1. \A g \in Builders : ~(SignsIn(job'[g]) /\ Honest(job[g])')
    BY <1>2, <1>4, <1>7, <1>8 DEF SignsIn, Honest
  <2>2. \A t \in DOMAIN sessions' : ~sessions'[t].live
    BY <1>3, <1>5, <1>6
  <2>3. job'[h].pc = "mark"
    BY <1>2, <1>4
  <2> QED BY <2>1, <2>2, <2>3 DEF FollowInv, Calm
<1> QED BY <1>10, <1>11, <1>12, <1>13 DEF MemInv

\* The watermark is set: every token there is was issued by now.
LEMMA MemByMarking == ASSUME MemInv, NEW h \in Builders, M!Marks(h), UNCHANGED <<owner, drift>> PROVE MemInv'
<1>1. PICK n : n = job[h].row
  OBVIOUS
<1>2. /\ job[h].pc = "mark" /\ job' = [job EXCEPT ![h] = M!Idle]
      /\ mark' = [at |-> clock, dies |-> clock + M!MarkLife]
      /\ cut' = [at |-> clock, rows |-> M!LargerOf(cut.rows, n)]
      /\ UNCHANGED <<clock, account, member, grants, sessions, links, spent, drift>>
  BY <1>1 DEF M!Marks, M!Ends, M!Goes
<1>3. \A g \in Builders : job'[g] = IF g = h THEN M!Idle ELSE job[g]
  BY <1>2 DEF MemInv, MemType
<1>4. /\ clock \in Nat \ {0} /\ n \in 0 .. Len(sessions) /\ cut.rows \in 0 .. Len(sessions) /\ Len(sessions) \in Nat
      /\ M!MarkLife \in Nat
  BY <1>1, MemHas, TimesAre DEF MemInv, MemType, HandlerOK, MarkInv
<1>5. cut'.rows \in {cut.rows, n} /\ cut'.at = clock /\ cut'.rows \in 0 .. Len(sessions')
  BY <1>2, <1>4 DEF M!LargerOf
<1>6. M!Idle.pc = "idle" /\ IsHandler(M!Idle) /\ HandlerOK(M!Idle) /\ ~SignsIn(M!Idle)
  BY <1>4, IdleIs, IdleFits DEF SignsIn
<1>7. MemType'
  <2>1. \A x : HandlerOK(x) => HandlerOK(x)'
    BY <1>2 DEF HandlerOK
  <2>2. \A g \in Builders : IsHandler(job'[g]) /\ HandlerOK(job[g])'
    BY <1>3, <1>6, <2>1 DEF MemInv, MemType
  <2>3. job' \in [Builders -> {job'[g] : g \in Builders}]
    BY <1>2 DEF MemInv, MemType
  <2>4. Blank'
    BY <1>2, <1>3, <1>6 DEF MemInv, MemType, Blank
  <2> QED BY <1>2, <2>2, <2>3, <2>4 DEF MemInv, MemType
<1>8. MarkInv'
  <2>1. mark'.at = clock /\ mark'.dies = clock + M!MarkLife /\ mark'.dies \in Nat
    BY <1>2, <1>4
  <2>2. M!MarkLife' = M!MarkLife
    BY DEF M!MarkLife
  <2>3. mark' = [at |-> mark'.at, dies |-> mark'.dies] /\ cut' = [at |-> mark'.at, rows |-> cut'.rows]
    BY <1>2
  <2> QED BY <1>4, <1>5, <2>1, <2>2, <2>3 DEF MarkInv
<1>9. CodesInv'
  BY <1>2, CodesByStanding DEF MemInv
<1>10. LiveInv'
  <2>1. /\ \A s : Living(s)' = Living(s)
        /\ \A g \in Builders : Carries(g)' => Carries(g) /\ Carried(g)' = Carried(g)
        /\ \A g \in Builders : job'[g].pc = "mark" => job[g].pc = "mark" /\ job'[g].row = job[g].row
    BY <1>2, <1>3, <1>6 DEF Living, Carries, Carried
  <2>2. \A m : Gone(m) => Gone(m)'
    BY <1>2, <2>1 DEF Gone
  <2>3. Gone(cut.rows)' /\ \A g \in Builders : job'[g].pc = "mark" => Gone(job[g].row)'
    <3>1. Gone(cut.rows)'
      <4>1. PICK m : m = cut'.rows
        OBVIOUS
      <4>2. Gone(m)
        BY <1>1, <1>2, <1>5, <4>1 DEF MemInv, LiveInv
      <4>3. Gone(m)'
        BY <2>2, <4>2
      <4> QED BY <4>1, <4>3 DEF Gone
    <3>2. ASSUME NEW g \in Builders, job'[g].pc = "mark" PROVE Gone(job[g].row)'
      <4>1. PICK m : m = job[g].row
        OBVIOUS
      <4>2. Gone(m)'
        BY <2>1, <2>2, <3>2, <4>1 DEF MemInv, LiveInv
      <4> QED BY <2>1, <3>2, <4>1, <4>2 DEF Gone
    <3> QED BY <3>1, <3>2
  <2> QED BY <1>2, <2>1, <2>3 DEF MemInv, LiveInv
<1>11. FollowInv'
  <2>1. CASE drift
    BY <1>2, <2>1 DEF FollowInv
  <2>2. CASE Sweeping
    BY <1>2, <1>3, <2>2 DEF FollowInv, Sweeping
  <2>3. CASE Calm
    <3>1. (HoldersSought => HoldersSought') /\ M!Refused' = M!Refused
      BY <1>2, <1>3 DEF HoldersSought, M!Refused
    <3>2. \A s \in DOMAIN sessions' : sessions'[s].clean => (sessions'[s].live => ~M!Refused') /\ sessions'[s].iat <= cut'.at
      BY <1>2, <1>5, <2>3, <3>1 DEF Calm, MemInv, MemType
    <3>3. \A g \in Builders : SignsIn(job'[g]) /\ Honest(job[g])' => job'[g] = job[g] /\ SignsIn(job[g]) /\ Honest(job[g])
      BY <1>2, <1>3, <1>6 DEF Honest
    <3>4. \A g \in Builders : SignsIn(job'[g]) /\ Honest(job[g])' =>
            /\ ~M!Refused'
            /\ HoldersSought' \/ (job'[g].role = member' /\ job'[g].grant = grants'[member'])
      BY <1>2, <2>3, <3>1, <3>3 DEF Calm
    <3> QED BY <3>2, <3>4 DEF FollowInv, Calm
  <2> QED BY <2>1, <2>2, <2>3 DEF FollowInv, MemInv
<1> QED BY <1>7, <1>8, <1>9, <1>10, <1>11 DEF MemInv

LEMMA MemStep == MemInv /\ [AllNext]_AllVars => MemInv'
<1> SUFFICES ASSUME MemInv, [AllNext]_AllVars PROVE MemInv'
  OBVIOUS
<1>1. CASE UNCHANGED memberVars
  BY <1>1, MemByPassing DEF memberVars
<1>2. ASSUME M!AuthNext, UNCHANGED <<owner, drift>> PROVE MemInv'
  <2>1. CASE M!Ticks
    BY <1>2, <2>1, MemByPassing DEF M!Ticks
  <2>2. ASSUME NEW h \in Builders,
               M!LogsIn(h) \/ M!Misses(h) \/ M!Spends(h) \/ M!Clears(h) \/ M!Federates(h) \/ M!Issues(h)
        PROVE  MemInv'
    BY <1>2, <2>2, MemByLoggingIn, MemByMiss, MemBySpending, MemByClearing, MemByFederating, MemByIssuing
  <2>3. ASSUME NEW h \in Builders, NEW s \in DOMAIN sessions, M!Refreshes(h, s) \/ M!LogsOut(h, s) PROVE MemInv'
    BY <1>2, <2>3, MemByRefreshing, MemByLoggingOut
  <2>4. ASSUME NEW h \in Builders, M!RevokesAll(h) \/ M!ChangesPassword(h) PROVE MemInv'
    <3>1. "sweep" \in Plain
      BY DEF Plain
    <3>2. /\ M!Begins(h, [M!Idle EXCEPT !.pc = "sweep"])
          /\ UNCHANGED <<clock, account, member, grants, sessions, mark, links, cut, spent, drift>>
      BY <1>2, <2>4 DEF M!RevokesAll, M!ChangesPassword
    <3> QED BY <3>1, <3>2, MemByBeginning
  <2>5. ASSUME NEW h \in Builders, M!Rotates(h) \/ M!Sweeps(h) \/ M!Marks(h) \/ M!Consumes(h) \/ M!Resets(h) \/ M!Verifies(h)
        PROVE  MemInv'
    BY <1>2, <2>5, MemByRotating, MemBySweeping, MemByMarking, MemByConsuming, MemByResetting, MemByVerifying
  <2>6. ASSUME NEW h \in Builders, NEW p \in M!Purposes, M!SendsLink(h, p) \/ M!OpensLink(h, p) PROVE MemInv'
    BY <1>2, <2>6, MemBySendingLink, MemByOpeningLink
  <2>7. ASSUME NEW h \in Builders, M!BeginsMfa(h) \/ M!ConfirmsMfa(h) \/ M!DisablesMfa(h) \/ M!Disables(h) PROVE MemInv'
    BY <1>2, <2>7, MemByBeginningMfa, MemByConfirming, MemByDisablesMfa, MemByDisabling
  <2> QED BY <1>2, <2>1, <2>2, <2>3, <2>4, <2>5, <2>6, <2>7 DEF M!AuthNext
<1>3. ASSUME NEW h \in Builders,
             M!ReadsInvite(h) \/ M!AcceptsInvite(h) \/ M!Removes(h) \/ M!FindsHolders(h) \/ M!ScimAppliesRole(h)
      PROVE  MemInv'
  <2>1. CASE M!ReadsInvite(h)
    <3>1. "invitation" \in M!Purposes /\ "accept" \in Plain
      BY DEF M!Purposes, Plain
    <3>2. /\ links["invitation"].open /\ M!Begins(h, [M!Idle EXCEPT !.pc = "accept"])
          /\ UNCHANGED <<clock, account, member, grants, sessions, mark, links, cut, spent, drift>>
      BY <2>1 DEF M!ReadsInvite
    <3>3. account.status # "none"
      BY <3>1, <3>2, SomebodyIsKnown DEF MemInv
    <3> QED BY <3>1, <3>2, <3>3, MemByBeginning
  <2> QED BY <1>3, <2>1, MemByAcceptingInvite, MemByRemoving, MemByFindingHolders, MemByApplyingRole
<1>4. ASSUME NEW h \in Builders, NEW r \in Roles, M!Invites(h, r) \/ M!ChangesRole(h, r) \/ M!EditsRole(h, r)
      PROVE  MemInv'
  BY <1>4, MemByInviting, MemByChangingRole, MemByEditing
<1>5. ASSUME NEW h \in Builders, NEW s \in {"active", "suspended", "deactivated"}, M!SetsStatus(h, s) PROVE MemInv'
  BY <1>5, MemBySettingStatus
<1>6. ASSUME NEW h \in Builders, NEW b \in BOOLEAN, M!ScimPatches(h, b) \/ M!ScimDeletes(h, b) PROVE MemInv'
  BY <1>6, MemByPatching, MemByDeleting
<1>7. ASSUME NEW h \in Builders, NEW b \in BOOLEAN, NEW r \in Roles, M!ScimCreates(h, r, b) PROVE MemInv'
  BY <1>7, MemByCreating
<1>8. CASE M!Next
  <2>1. CASE M!AuthNext /\ UNCHANGED <<owner, drift>>
    BY <1>2, <2>1
  <2> QED BY <1>3, <1>4, <1>5, <1>6, <1>7, <1>8, <2>1 DEF M!Next
<1> QED BY <1>1, <1>8, StepsOnePart

LEMMA StaysOut == MemInv => M!RevokedStayOut
<1> SUFFICES ASSUME MemInv, NEW s \in DOMAIN sessions, sessions[s].iat < cut.at PROVE ~M!Accepts(s)
  BY DEF M!RevokedStayOut
<1>1. sessions[s].iat \in Nat /\ clock \in Nat
  BY DEF MemInv, MemType, IsSession
<1>2. cut.at = mark.at /\ mark.at \in Nat /\ mark.dies \in Nat /\ (mark.at # 0 => mark.dies = mark.at + M!MarkLife)
  BY DEF MemInv, MarkInv
<1>3. mark.at # 0
  BY <1>1, <1>2
<1>4. clock < sessions[s].iat + AccessTtl => clock < mark.dies
  BY <1>1, <1>2, <1>3, TimesAre
<1> QED BY <1>2, <1>4 DEF M!Accepts, M!WatermarkAllows

LEMMA CountedOnce == ASSUME NEW T, \A s, t \in T : s = t PROVE M!Cardinality(T) \in Nat /\ M!Cardinality(T) <= 1
<1>1. M!Cardinality(T) = Cardinality(T)
  BY Zenon DEF M!Cardinality, Cardinality
<1>2. CASE T = {}
  BY <1>1, <1>2, FS_EmptySet
<1>3. CASE T # {}
  <2>1. PICK s : T = {s}
    BY <1>3
  <2>2. Cardinality({s}) = 1
    BY FS_Singleton, Zenon
  <2> QED BY <1>1, <2>1, <2>2
<1> QED BY <1>2, <1>3

LEMMA LivesOnce == MemInv => M!RevokedForGood
<1> SUFFICES ASSUME MemInv PROVE M!RevokedForGood
  OBVIOUS
<1> DEFINE Clean(r) == {s \in DOMAIN sessions : sessions[s].root = r /\ sessions[s].clean /\ sessions[s].live}
<1> SUFFICES ASSUME NEW r \in DOMAIN sessions
             PROVE  M!Cardinality(Clean(r)) <= 1 /\ (r <= cut.rows => Clean(r) = {})
  BY DEF M!RevokedForGood
<1>1. \A s, t \in Clean(r) : s = t
  BY DEF MemInv, LiveInv, Living
<1>2. r <= cut.rows => Clean(r) = {}
  <2> SUFFICES ASSUME r <= cut.rows, NEW s \in Clean(r) PROVE FALSE
    OBVIOUS
  <2>1. sessions[s].root > cut.rows /\ sessions[s].root = r
    BY DEF MemInv, LiveInv, Living, Gone
  <2>2. r \in Nat /\ cut.rows \in Nat
    BY MemHas, AccountHas DEF MemInv, MarkInv
  <2> QED BY <2>1, <2>2
<1> HIDE DEF Clean
<1> QED BY <1>1, <1>2, CountedOnce

LEMMA FollowsTheRole == MemInv => M!TokensFollowTheRole
<1> SUFFICES ASSUME MemInv, NEW s \in DOMAIN sessions,
                    M!Accepts(s) /\ sessions[s].clean /\ sessions[s].iat # cut.at /\ ~M!Underway /\ ~drift
             PROVE  M!Follows(s)
  BY DEF M!TokensFollowTheRole
<1>1. \A h \in Builders : job[h].pc \notin {"holders", "sweep", "mark"}
  BY DEF M!Underway
<1>2. Calm
  BY <1>1 DEF MemInv, FollowInv, Sweeping
<1>3. M!Follows(s) \/ sessions[s].iat <= cut.at
  BY <1>1, <1>2 DEF Calm, HoldersSought
<1>4. sessions[s].iat \in Nat /\ cut.at \in Nat
  BY DEF MemInv, MemType, IsSession, MarkInv
<1>5. ~(sessions[s].iat < cut.at)
  BY StaysOut DEF M!RevokedStayOut
<1> QED BY <1>3, <1>4, <1>5

\* A token of an earlier second than a revocation is refused for as long as it verifies; a
\* sign-in lives in one session and in none once every session was revoked; a recovery code
\* is accepted once; and what the guard accepts is what the membership grants: but for the
\* overlaps the properties name, whatever the lifetimes, the roles, the codes and however
\* many requests overlap (auth.service.ts:354-441, 646-653, auth.guard.ts:107-110,
\* iam.service.ts:305-375, 457-469).
THEOREM AccountsAreGuardedTheorem == AllSpec => []AccountsAreGuarded
<1>1. AllInit => MemInv
  BY MemInit, StartsEveryPart
<1>2. MemInv /\ [AllNext]_AllVars => MemInv'
  BY MemStep
<1>3. MemInv => AccountsAreGuarded
  BY StaysOut, LivesOnce, FollowsTheRole DEF AccountsAreGuarded, MemInv, CodesInv
<1> QED BY <1>1, <1>2, <1>3, PTL DEF AllSpec
=============================================================================
