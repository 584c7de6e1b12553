--------------------------- MODULE ContactsProofs ---------------------------
(***************************************************************************)
(* Proofs about the people who write. Desk: for any number of              *)
(* conversations, messages, agents and handlers, what overlapping handlers *)
(* can do to the rows is bounded by how many of them overlapped, and what  *)
(* arrived is not lost. SubjectRights: wherever erasures stop, the next    *)
(* one finds what they left. Customers: contacts lead to living records.   *)
(***************************************************************************)
EXTENDS MCContacts, FiniteSetTheorems, WellFoundedInduction, TLAPS

-----------------------------------------------------------------------------
(* The inductive invariants.                                               *)

RoutingPCs == {"offer", "weigh", "assign", "appoint", "park"}
RowPCs     == {"announce", "take", "store", "reply", "send", "activate", "status"} \cup RoutingPCs

\* What a handler in state j relies on, K being the conversations there are.
JobOK(j, K) ==
  /\ j.pc = "idle" => j = NoJob
  /\ j.pc \in RowPCs => j.conv \in K
  /\ j.pc \in {"find", "take", "store"} => j.msg \in Messages
  /\ j.pc = "status" => j.status # "new"
  /\ j.pc = "assign" => j.pick \in Agents
  /\ j.rest \subseteq K

JobsOK == \A h \in Handlers : JobOK(job[h], Known)
ToldOK == \A e \in told : e[2] \in Known

Busy    == {h \in Handlers : job[h].pc # "idle"}
CrowdOK == Cardinality(Busy) <= crowd

Base == TypeOK /\ JobsOK /\ ToldOK /\ CrowdOK

\* A message on its way counts as a copy already.
Carriers(m) == {h \in Handlers : job[h].msg = m}
CopiesOK == \A m \in Messages : Len(copies[m]) + Cardinality(Carriers(m)) <= crowd

\* A reply that found no first response counts as a stamp already.
Answering(c) == {h \in Handlers : job[h].pc = "send" /\ job[h].first /\ job[h].conv = c}
StampsOK == \A c \in Known : conv[c].stamps + Cardinality(Answering(c)) <= crowd

\* A choice made counts as a chat already.
Choosing(a) == {h \in Handlers : job[h].pc = "assign" /\ job[h].pick = a}
Slack(a, n) == IF n = 0 THEN 0 ELSE MaxChats[a] - 1 + n
LoadsOK == \A a \in Agents : Load(a) + Cardinality(Choosing(a)) <= unchecked[a] + Slack(a, crowd)

\* A conversation about to be created counts as open already.
Creating == {h \in Handlers : job[h].pc = "create"}
OpenOK   == Cardinality(OpenOnes) + Cardinality(Creating) <= crowd + opened

\* Where a conversation that is not yet in its place may still be helped.
InPlace(c)    == conv[c].placed /\ conv[c].status # "new"
Carries(j, c) == j.pc \in {"announce"} \cup RoutingPCs /\ j.conv = c
Arrived(c) ==
  \/ c \in aside
  \/ InPlace(c)
  \/ <<"created", c>> \in pending
  \/ \E h \in Handlers : Carries(job[h], c)
ArrivalsOK == \A c \in Known : Arrived(c)

-----------------------------------------------------------------------------
USE DeskAssumption DEF DeskAssumption

(* Counting handlers.                                                      *)

LEMMA HandlersFinite ==
  ASSUME NEW S \in SUBSET Handlers
  PROVE  IsFiniteSet(S) /\ Cardinality(S) \in Nat
  BY FS_Subset, FS_CardinalityType

\* One handler may join or leave; the others stay.
LEMMA Counting ==
  ASSUME NEW S \in SUBSET Handlers, NEW T \in SUBSET Handlers, NEW h,
         S \ {h} = T \ {h}
  PROVE  /\ h \in S /\ h \notin T => Cardinality(S) = Cardinality(T) + 1
         /\ h \notin S /\ h \in T => Cardinality(T) = Cardinality(S) + 1
         /\ (h \in S <=> h \in T) => T = S
<1>1. ASSUME NEW A \in SUBSET Handlers, NEW B \in SUBSET Handlers, A \ {h} = B \ {h},
             h \in A, h \notin B
      PROVE  Cardinality(A) = Cardinality(B) + 1
  <2>1. A = B \cup {h}
    BY <1>1
  <2> QED BY <1>1, <2>1, FS_AddElement, HandlersFinite
<1> QED BY <1>1

LEMMA Fewer ==
  ASSUME NEW S \in SUBSET Handlers, NEW T \in SUBSET S
  PROVE  Cardinality(T) <= Cardinality(S)
  BY FS_Subset, HandlersFinite

-----------------------------------------------------------------------------
(* A handler goes on.                                                      *)

LEMMA NoJobFits == NoJob \in Job /\ \A K : JobOK(NoJob, K)
  BY DEF NoJob, Job, PC, JobOK, Owners, Statuses, RowPCs, RoutingPCs

\* Handler h goes on to a state that fits.
Enters(h, j) ==
  /\ h \in Handlers /\ j \in Job /\ JobOK(j, Known')
  /\ Goes(h, j)

LEMMA EntersFacts ==
  ASSUME Base, NEW h, NEW j, Enters(h, j), Known \subseteq Known'
  PROVE  /\ job' \in [Handlers -> Job]
         /\ job'[h] = j
         /\ \A g \in Handlers \ {h} : job'[g] = job[g]
         /\ JobsOK'
         /\ crowd' \in Nat /\ crowd <= crowd'
         /\ CrowdOK'
<1> DEFINE B == {g \in Handlers : job'[g].pc # "idle"}
<1>1. job' = [job EXCEPT ![h] = j] /\ h \in Handlers /\ j \in Job /\ job \in [Handlers -> Job]
  BY DEF Enters, Goes, Base, TypeOK
<1>2. job' \in [Handlers -> Job] /\ job'[h] = j /\ \A g \in Handlers \ {h} : job'[g] = job[g]
  BY <1>1
<1>3. JobsOK'
  BY <1>2 DEF JobsOK, JobOK, Base, Enters
<1>4. Cardinality(B) \in Nat
  BY HandlersFinite
<1>5. crowd' = IF Cardinality(B) > crowd THEN Cardinality(B) ELSE crowd
  BY DEF Enters, Goes, InFlight
<1>6. Busy' = B
  BY DEF Busy
<1>7. crowd \in Nat
  BY DEF Base, TypeOK
<1> HIDE DEF B
<1>8. crowd' \in Nat /\ crowd <= crowd' /\ Cardinality(B) <= crowd'
  BY <1>4, <1>5, <1>7
<1> QED BY <1>2, <1>3, <1>6, <1>8 DEF CrowdOK

-----------------------------------------------------------------------------
(* The shapes of a step.  What the invariants ask of a handler's move is    *)
(* told once here, and each action below is shown to have a shape.          *)

\* What surrounds the rows keeps its type, and events are of known conversations.
Around ==
  /\ present' \subseteq Agents /\ aside' \subseteq Conversations /\ asked' \in Nat
  /\ pending' \subseteq told' /\ told' \subseteq Events /\ \A e \in told' : e[2] \in Known'

\* Handler h reads, and goes on to j.
ReadStep(h, j) ==
  /\ Enters(h, j) /\ Around
  /\ UNCHANGED <<conv, copies, unchecked>>
  /\ opened' \in {opened, opened + 1}
  /\ j.msg = NoMsg \/ j.msg = job[h].msg \/ copies[j.msg] = <<>>
  /\ j.pc = "send" /\ j.first => conv[j.conv].stamps = 0
  /\ j.pc = "assign" => Load(j.pick) < MaxChats[j.pick]
  /\ j.pc = "create" => OpenOnes = {} \/ opened' = opened + 1

\* Handler h writes the row of its conversation, and goes on to j.
WriteStep(h, j, row) ==
  /\ Enters(h, j) /\ Around
  /\ job[h].conv \in Known /\ row \in Row
  /\ Writes(job[h].conv, row, job[h].pc = "assign")
  /\ job[h].pc # "create" /\ j.pc \notin {"create", "send", "assign"}
  /\ job[h].pc = "assign" => row.owner = job[h].pick
  /\ row.stamps = conv[job[h].conv].stamps
                  + (IF job[h].pc = "send" /\ job[h].first THEN 1 ELSE 0)
  /\ \/ copies' = copies /\ j.msg \in {NoMsg, job[h].msg}
     \/ /\ j.msg = NoMsg /\ job[h].msg \in Messages
        /\ copies' = [copies EXCEPT ![job[h].msg] = Append(@, job[h].conv)]

\* Somebody writes the row of c at one go.
HandStep(c, row) ==
  /\ Around /\ c \in Known /\ row \in Row /\ row.stamps = conv[c].stamps
  /\ Writes(c, row, FALSE)
  /\ UNCHANGED <<copies, job, crowd>>

CreateStep(h, j, c, row) ==
  /\ Enters(h, j) /\ Around
  /\ job[h].pc = "create" /\ j.pc = "announce" /\ j.msg = job[h].msg
  /\ c \in Conversations \ Known /\ row \in Row /\ row.owner = Nobody /\ row.stamps = 0
  /\ conv' = [d \in Known \cup {c} |-> IF d = c THEN row ELSE conv[d]]
  /\ UNCHANGED <<copies, unchecked, opened>>

RestStep == Around /\ UNCHANGED <<conv, copies, job, crowd, unchecked, opened>>

Shaped ==
  \/ \E h, j : ReadStep(h, j)
  \/ \E h, j, row : WriteStep(h, j, row)
  \/ \E c, row : HandStep(c, row)
  \/ \E h, j, c, row : CreateStep(h, j, c, row)
  \/ RestStep

\* What surrounds the rows, when nothing of it or only the count of requests changes.
LEMMA AroundKept ==
  ASSUME Base, Known' = Known, present' \subseteq Agents,
         asked' \in Nat, aside' \subseteq Conversations, UNCHANGED <<pending, told>>
  PROVE  Around
  BY DEF Base, TypeOK, ToldOK, Around

LEMMA RequestTypes ==
  ASSUME Base, Within
  PROVE  asked' \in Nat
  BY DEF Base, TypeOK, Within

LEMMA Reads ==
  ASSUME Base, NEW h \in Handlers, NEW j \in Job, JobOK(j, Known), Goes(h, j),
         UNCHANGED <<conv, copies, present, pending, told, unchecked>>,
         asked' \in Nat, aside' \subseteq Conversations, opened' \in {opened, opened + 1},
         j.msg = NoMsg \/ j.msg = job[h].msg \/ copies[j.msg] = <<>>,
         j.pc = "send" /\ j.first => conv[j.conv].stamps = 0,
         j.pc = "assign" => Load(j.pick) < MaxChats[j.pick],
         j.pc = "create" => OpenOnes = {} \/ opened' = opened + 1
  PROVE  Shaped
<1>1. Known' = Known
  BY DEF Known
<1>2. Around
  BY <1>1, AroundKept DEF Base, TypeOK
<1>3. ReadStep(h, j)
  BY <1>1, <1>2 DEF ReadStep, Enters
<1> QED BY <1>3 DEF Shaped

\* Most moves only look on.
LEMMA LooksOn ==
  ASSUME Base, NEW h \in Handlers, NEW j \in Job, JobOK(j, Known), Goes(h, j),
         UNCHANGED <<conv, copies, present, pending, told, history>>, asked' \in Nat,
         j.msg \in {NoMsg, job[h].msg}, j.pc \notin {"send", "assign", "create"}
  PROVE  Shaped
<1>1. UNCHANGED <<unchecked, opened, aside>> /\ aside \subseteq Conversations
  BY DEF Base, TypeOK, history
<1> QED BY <1>1, Reads

LEMMA HandlerFits ==
  ASSUME Base, NEW h \in Handlers
  PROVE  job[h] \in Job /\ JobOK(job[h], Known) /\ Known \subseteq Conversations /\ asked \in Nat
  BY DEF Base, TypeOK, JobsOK, Known

LEMMA ReceivesShaped ==
  ASSUME Base, NEW h \in Handlers, NEW m \in Messages, Receives(h, m) PROVE Shaped
<1> DEFINE j == [NoJob EXCEPT !.pc = "find", !.msg = m]
<1>1. j \in Job /\ JobOK(j, Known) /\ j.pc = "find" /\ j.msg = m
  BY NoJobFits DEF Job, PC, JobOK, RowPCs, RoutingPCs, NoJob
<1>2. /\ Goes(h, j) /\ Within /\ copies[m] = <<>>
      /\ UNCHANGED <<conv, copies, present, pending, told, unchecked, opened, aside>>
  BY DEF Receives, Starts, Fresh, Silently, history
<1> HIDE DEF j
<1> QED BY <1>1, <1>2, Reads, RequestTypes DEF Base, TypeOK

LEMMA FindsShaped ==
  ASSUME Base, NEW h \in Handlers, Finds(h) PROVE Shaped
<1>0. job[h].pc = "find" /\ UNCHANGED <<conv, copies, present, pending, told, asked, history>>
  BY DEF Finds, Silently
<1>1. ASSUME NEW c \in Known, NEW s \in {"take", "activate"},
             Goes(h, [job[h] EXCEPT !.pc = s, !.conv = c])
      PROVE  Shaped
  <2> DEFINE j == [job[h] EXCEPT !.pc = s, !.conv = c]
  <2>1. j \in Job /\ JobOK(j, Known) /\ j.msg = job[h].msg /\ j.pc = s
    BY <1>0, HandlerFits DEF Job, PC, JobOK, RowPCs, RoutingPCs
  <2>2. Goes(h, j)
    BY <1>1
  <2> HIDE DEF j
  <2> QED BY <1>0, <2>1, <2>2, LooksOn, HandlerFits
<1>2. ASSUME OpenOnes = {}, Goes(h, [job[h] EXCEPT !.pc = "create"]) PROVE Shaped
  <2> DEFINE j == [job[h] EXCEPT !.pc = "create"]
  <2>1. j \in Job /\ JobOK(j, Known) /\ j.msg = job[h].msg /\ j.pc = "create"
    BY <1>0, HandlerFits DEF Job, PC, JobOK, RowPCs, RoutingPCs
  <2>2. Goes(h, j)
    BY <1>2
  <2> HIDE DEF j
  <2> QED BY <1>0, <1>2, <2>1, <2>2, Reads, HandlerFits DEF history, Base, TypeOK
<1> QED BY <1>1, <1>2 DEF Finds, OpenOnes

LEMMA OpensShaped ==
  ASSUME Base, NEW h \in Handlers, Opens(h) PROVE Shaped
<1> DEFINE j == [NoJob EXCEPT !.pc = "create"]
<1>1. j \in Job /\ JobOK(j, Known) /\ j.pc = "create" /\ j.msg = NoMsg
  BY NoJobFits DEF Job, PC, JobOK, RowPCs, RoutingPCs, NoJob
<1>2. /\ Goes(h, j) /\ Within /\ opened' = opened + 1
      /\ UNCHANGED <<conv, copies, present, pending, told, unchecked, aside>>
  BY DEF Opens, Starts, Silently
<1> HIDE DEF j
<1> QED BY <1>1, <1>2, Reads, RequestTypes DEF Base, TypeOK

\* A handler goes on about a message and its conversation.
LEMMA AfterwardsFits ==
  ASSUME NEW j \in Job, JobOK(j, Known), j.conv \in Known
  PROVE  /\ Afterwards(j) \in Job /\ JobOK(Afterwards(j), Known)
         /\ Afterwards(j).msg \in {NoMsg, j.msg}
         /\ Afterwards(j).pc \in {"idle", "take"}
<1>1. CASE j.msg = NoMsg
  BY <1>1, NoJobFits DEF Afterwards, NoJob
<1>2. CASE j.msg # NoMsg
  BY <1>2 DEF Afterwards, Job, PC, JobOK, RowPCs, RoutingPCs
<1> QED BY <1>1, <1>2

LEMMA TakesShaped ==
  ASSUME Base, NEW h \in Handlers, Takes(h) PROVE Shaped
<1>0. job[h].pc = "take" /\ UNCHANGED <<conv, copies, present, pending, told, asked, history>>
  BY DEF Takes, Silently
<1>1. CASE Goes(h, NoJob)
  BY <1>0, <1>1, LooksOn, HandlerFits, NoJobFits DEF NoJob
<1>2. ASSUME Goes(h, [job[h] EXCEPT !.pc = "store", !.status = conv[job[h].conv].status])
      PROVE  Shaped
  <2> DEFINE j == [job[h] EXCEPT !.pc = "store", !.status = conv[job[h].conv].status]
  <2>0. conv[job[h].conv].status \in Statuses
    BY <1>0, HandlerFits DEF JobOK, RowPCs, Base, TypeOK, Row, Known
  <2>1. j \in Job /\ JobOK(j, Known) /\ j.msg = job[h].msg /\ j.pc = "store"
    BY <1>0, <2>0, HandlerFits DEF Job, PC, JobOK, RowPCs, RoutingPCs
  <2>2. Goes(h, j)
    BY <1>2
  <2> HIDE DEF j
  <2> QED BY <1>0, <2>1, <2>2, LooksOn, HandlerFits
<1> QED BY <1>1, <1>2 DEF Takes

LEMMA RepliesShaped ==
  ASSUME Base, NEW h \in Handlers, NEW c \in Conversations, Replies(h, c) PROVE Shaped
<1> DEFINE j == [NoJob EXCEPT !.pc = "reply", !.conv = c, !.status = conv[c].status]
<1>0. c \in Known /\ conv[c].status \in Statuses
  BY DEF Replies, Base, TypeOK, Row, Known
<1>1. j \in Job /\ JobOK(j, Known) /\ j.pc = "reply" /\ j.msg = NoMsg
  BY <1>0, NoJobFits DEF Job, PC, JobOK, RowPCs, RoutingPCs, NoJob
<1>2. Goes(h, j) /\ Within /\ UNCHANGED <<conv, copies, present, pending, told, history>>
  BY DEF Replies, Starts, Silently
<1> HIDE DEF j
<1> QED BY <1>1, <1>2, LooksOn, RequestTypes

LEMMA DraftsShaped ==
  ASSUME Base, NEW h \in Handlers, Drafts(h) PROVE Shaped
<1> DEFINE first == conv[job[h].conv].stamps = 0
           j == [job[h] EXCEPT !.pc = "send", !.first = first]
<1>0. job[h].pc = "reply" /\ UNCHANGED <<conv, copies, present, pending, told, asked, history>>
  BY DEF Drafts, Silently
<1>b. first \in BOOLEAN
  OBVIOUS
<1> HIDE DEF first
<1>1. j \in Job /\ JobOK(j, Known) /\ j.msg = job[h].msg /\ j.pc = "send"
      /\ j.conv = job[h].conv /\ j.first = first
  BY <1>0, <1>b, HandlerFits DEF Job, PC, JobOK, RowPCs, RoutingPCs
<1>2. Goes(h, j)
  BY DEF Drafts, first
<1> HIDE DEF j
<1>3. j.first => conv[j.conv].stamps = 0
  BY <1>1 DEF first
<1> QED BY <1>0, <1>1, <1>2, <1>3, Reads, HandlerFits DEF history, Base, TypeOK

LEMMA ActivatesShaped ==
  ASSUME Base, NEW h \in Handlers, Activates(h) PROVE Shaped
<1>0. job[h].pc = "activate" /\ UNCHANGED <<conv, copies, present, pending, told, asked, history>>
  BY DEF Activates, Silently
<1>1. CASE Goes(h, Afterwards(job[h]))
  <2>1. job[h].conv \in Known
    BY <1>0, HandlerFits DEF JobOK, RowPCs
  <2> QED BY <1>0, <1>1, <2>1, LooksOn, HandlerFits, AfterwardsFits
<1>2. ASSUME Goes(h, [job[h] EXCEPT !.pc = "status", !.status = "active"])
      PROVE  Shaped
  <2> DEFINE j == [job[h] EXCEPT !.pc = "status", !.status = "active"]
  <2>1. j \in Job /\ JobOK(j, Known) /\ j.msg = job[h].msg /\ j.pc = "status"
    BY <1>0, HandlerFits DEF Job, PC, JobOK, RowPCs, RoutingPCs, Statuses
  <2>2. Goes(h, j)
    BY <1>2
  <2> HIDE DEF j
  <2> QED BY <1>0, <2>1, <2>2, LooksOn, HandlerFits
<1> QED BY <1>1, <1>2 DEF Activates

\* No move leads back to new.
LEMMA NotToNew ==
  ASSUME NEW from \in Statuses, NEW to \in Statuses, from # to, CanTransition(from, to)
  PROVE  to # "new"
  BY DEF CanTransition, Transitions, Statuses

LEMMA AsksStatusShaped ==
  ASSUME Base, NEW h \in Handlers, NEW c \in Conversations, NEW to \in Statuses,
         AsksStatus(h, c, to)
  PROVE  Shaped
<1> DEFINE j == [NoJob EXCEPT !.pc = "status", !.conv = c, !.status = to]
<1>0. c \in Known /\ conv[c].status \in Statuses
  BY DEF AsksStatus, Base, TypeOK, Row, Known
<1>t. to # "new"
  BY <1>0, NotToNew DEF AsksStatus
<1>1. j \in Job /\ JobOK(j, Known) /\ j.pc = "status" /\ j.msg = NoMsg
  BY <1>0, <1>t, NoJobFits DEF Job, PC, JobOK, RowPCs, RoutingPCs, NoJob
<1>2. Goes(h, j) /\ Within /\ UNCHANGED <<conv, copies, present, pending, told, history>>
  BY DEF AsksStatus, Starts, Silently
<1> HIDE DEF j
<1> QED BY <1>1, <1>2, LooksOn, RequestTypes

\* A routing handler, and the turns of a drain.
LEMMA RoutingFits ==
  ASSUME Base, NEW c \in Known, NEW rest \in SUBSET Known
  PROVE  Routing(c, rest) \in Job /\ JobOK(Routing(c, rest), Known)
         /\ Routing(c, rest).msg = NoMsg /\ Routing(c, rest).pc = "offer"
         /\ Routing(c, rest).conv = c
<1>1. c \in Conversations /\ rest \subseteq Conversations
  BY HandlerFits DEF Base, TypeOK, Known
<1> QED BY <1>1, NoJobFits DEF Routing, NoJob, Job, PC, JobOK, RowPCs, RoutingPCs

LEMMA TurnFits ==
  ASSUME Base, NEW h \in Handlers, NEW list \in SUBSET Known, Turn(h, list)
  PROVE  \E j \in Job : JobOK(j, Known) /\ Goes(h, j) /\ j.msg = NoMsg /\ j.pc \in {"idle", "offer"}
<1>1. CASE Goes(h, NoJob)
  BY <1>1, NoJobFits DEF NoJob
<1>2. ASSUME NEW c \in list, Goes(h, Routing(c, list \ {c}))
      PROVE  \E j \in Job : JobOK(j, Known) /\ Goes(h, j) /\ j.msg = NoMsg /\ j.pc \in {"idle", "offer"}
  <2>1. c \in Known /\ list \ {c} \in SUBSET Known
    OBVIOUS
  <2> QED BY <1>2, <2>1, RoutingFits
<1> QED BY <1>1, <1>2 DEF Turn

LEMMA WaitingKnown == Waiting \in SUBSET Known
  BY DEF Waiting

LEMMA AsksRouteShaped ==
  ASSUME Base, NEW h \in Handlers, NEW c \in Conversations, AsksRoute(h, c) PROVE Shaped
<1>1. /\ Goes(h, Routing(c, {})) /\ Within /\ c \in Known
      /\ UNCHANGED <<conv, copies, present, pending, told, history>>
  BY DEF AsksRoute, Starts, Silently
<1>2. {} \in SUBSET Known
  OBVIOUS
<1> QED BY <1>1, <1>2, RoutingFits, LooksOn, RequestTypes

LEMMA AsksDrainShaped ==
  ASSUME Base, NEW h \in Handlers, AsksDrain(h) PROVE Shaped
<1>1. /\ Turn(h, Waiting) /\ Within /\ UNCHANGED <<conv, copies, present, pending, told, history>>
  BY DEF AsksDrain, Silently
<1> QED BY <1>1, TurnFits, WaitingKnown, LooksOn, RequestTypes

\* What a listener does with an event it may hear.
LEMMA ListensFits ==
  ASSUME Base, NEW h \in Handlers, NEW e \in told, Listens(h, e)
  PROVE  \E j \in Job : JobOK(j, Known) /\ Goes(h, j) /\ j.msg = NoMsg /\ j.pc \in {"idle", "offer"}
                       /\ (e[1] = "created" => j.pc = "offer" /\ j.conv = e[2])
<1>0. e[2] \in Known
  BY DEF Base, ToldOK
<1>1. CASE e[1] = "created"
  <2>1. {} \in SUBSET Known /\ Goes(h, Routing(e[2], {}))
    BY <1>1 DEF Listens
  <2> QED BY <1>0, <2>1, RoutingFits
<1>2. CASE e[1] # "created"
  <2>1. PICK list \in SUBSET Known : Turn(h, list)
    BY <1>2, WaitingKnown DEF Listens
  <2> QED BY <1>2, <2>1, TurnFits
<1> QED BY <1>1, <1>2

LEMMA HearsAgainShaped ==
  ASSUME Base, NEW h \in Handlers, HearsAgain(h) PROVE Shaped
<1>1. Within /\ UNCHANGED <<conv, copies, present, pending, told, history>>
  BY DEF HearsAgain, Silently
<1>2. PICK e \in told : Listens(h, e)
  BY DEF HearsAgain
<1> QED BY <1>1, <1>2, ListensFits, LooksOn, RequestTypes

LEMMA OffersShaped ==
  ASSUME Base, NEW h \in Handlers, Offers(h) PROVE Shaped
<1>0. job[h].pc = "offer" /\ UNCHANGED <<conv, copies, present, pending, told, asked, history>>
  BY DEF Offers, Silently
<1>1. ASSUME NEW who \in Named, Goes(h, [job[h] EXCEPT !.pc = "appoint", !.pick = who])
      PROVE  Shaped
  <2> DEFINE j == [job[h] EXCEPT !.pc = "appoint", !.pick = who]
  <2>1. j \in Job /\ JobOK(j, Known) /\ j.msg = job[h].msg /\ j.pc = "appoint"
    BY <1>0, HandlerFits DEF Job, PC, JobOK, RowPCs, RoutingPCs, Owners
  <2>2. Goes(h, j)
    BY <1>1
  <2> HIDE DEF j
  <2> QED BY <1>0, <2>1, <2>2, LooksOn, HandlerFits
<1>2. ASSUME Goes(h, [job[h] EXCEPT !.pc = "park"]) PROVE Shaped
  <2> DEFINE j == [job[h] EXCEPT !.pc = "park"]
  <2>1. j \in Job /\ JobOK(j, Known) /\ j.msg = job[h].msg /\ j.pc = "park"
    BY <1>0, HandlerFits DEF Job, PC, JobOK, RowPCs, RoutingPCs
  <2>2. Goes(h, j)
    BY <1>2
  <2> HIDE DEF j
  <2> QED BY <1>0, <2>1, <2>2, LooksOn, HandlerFits
<1>3. ASSUME Goes(h, [job[h] EXCEPT !.pc = "weigh", !.from = present]) PROVE Shaped
  <2> DEFINE j == [job[h] EXCEPT !.pc = "weigh", !.from = present]
  <2>0. present \subseteq Agents
    BY DEF Base, TypeOK
  <2>1. j \in Job /\ JobOK(j, Known) /\ j.msg = job[h].msg /\ j.pc = "weigh"
    BY <1>0, <2>0, HandlerFits DEF Job, PC, JobOK, RowPCs, RoutingPCs
  <2>2. Goes(h, j)
    BY <1>3
  <2> HIDE DEF j
  <2> QED BY <1>0, <2>1, <2>2, LooksOn, HandlerFits
<1> QED BY <1>1, <1>2, <1>3 DEF Offers

LEMMA WeighsShaped ==
  ASSUME Base, NEW h \in Handlers, Weighs(h) PROVE Shaped
<1>0. job[h].pc = "weigh" /\ UNCHANGED <<conv, copies, present, pending, told, asked, history>>
  BY DEF Weighs, Silently
<1>1. ASSUME Goes(h, [job[h] EXCEPT !.pc = "park", !.from = {}]) PROVE Shaped
  <2> DEFINE j == [job[h] EXCEPT !.pc = "park", !.from = {}]
  <2>1. j \in Job /\ JobOK(j, Known) /\ j.msg = job[h].msg /\ j.pc = "park"
    BY <1>0, HandlerFits DEF Job, PC, JobOK, RowPCs, RoutingPCs
  <2>2. Goes(h, j)
    BY <1>1
  <2> HIDE DEF j
  <2> QED BY <1>0, <2>1, <2>2, LooksOn, HandlerFits
<1>2. ASSUME NEW a \in job[h].from, BelowCeiling(a),
             Goes(h, [job[h] EXCEPT !.pc = "assign", !.from = {}, !.pick = a])
      PROVE  Shaped
  <2> DEFINE j == [job[h] EXCEPT !.pc = "assign", !.from = {}, !.pick = a]
  <2>0. a \in Agents
    BY HandlerFits DEF Job
  <2>1. j \in Job /\ JobOK(j, Known) /\ j.msg = job[h].msg /\ j.pc = "assign" /\ j.pick = a
    <3>1. job[h] \in Job /\ JobOK(job[h], Known)
      BY HandlerFits
    <3>2. j \in Job
      BY <2>0, <3>1 DEF Job, PC, RoutingPCs, Owners
    <3>3. /\ j.pc = "assign" /\ j.from = {} /\ j.pick = a
          /\ j.conv = job[h].conv /\ j.msg = job[h].msg /\ j.rest = job[h].rest
      BY <3>1 DEF Job
    <3>4. job[h].conv \in Known /\ job[h].rest \subseteq Known
      BY <1>0, <3>1 DEF JobOK, RowPCs, RoutingPCs
    <3>5. JobOK(j, Known)
      BY <2>0, <3>3, <3>4 DEF JobOK
    <3>. QED BY <3>2, <3>3, <3>5
  <2>2. Goes(h, j)
    BY <1>2
  <2> HIDE DEF j
  <2> QED BY <1>0, <1>2, <2>1, <2>2, Reads, HandlerFits DEF BelowCeiling, history, Base, TypeOK
<1> QED BY <1>1, <1>2 DEF Weighs

LEMMA AnnouncesShaped ==
  ASSUME Base, NEW h \in Handlers, Announces(h) PROVE Shaped
<1> DEFINE j == Afterwards(job[h])
<1>0. /\ job[h].pc = "announce" /\ Goes(h, j) /\ UNCHANGED <<conv, copies, present, asked, history>>
      /\ pending' = pending \cup {<<"created", job[h].conv>>}
      /\ told' = told \cup {<<"created", job[h].conv>>}
  BY DEF Announces, Publishes
<1>1. job[h].conv \in Known /\ job[h].conv \in Conversations
  BY <1>0, HandlerFits DEF JobOK, RowPCs
<1>2. Around
  BY <1>0, <1>1 DEF Around, Base, TypeOK, ToldOK, Events, Known, history
<1>3. j \in Job /\ JobOK(j, Known) /\ j.msg \in {NoMsg, job[h].msg} /\ j.pc \in {"idle", "take"}
  BY <1>1, HandlerFits, AfterwardsFits
<1> HIDE DEF j
<1>4. ReadStep(h, j)
  BY <1>0, <1>2, <1>3 DEF ReadStep, Enters, Known, history
<1> QED BY <1>4 DEF Shaped

LEMMA HearsShaped ==
  ASSUME Base, NEW h \in Handlers, Hears(h) PROVE Shaped
<1>1. PICK e \in pending : Listens(h, e) /\ pending' = pending \ {e}
  BY DEF Hears
<1>2. UNCHANGED <<conv, copies, present, told, asked, unchecked, opened, aside>>
  BY DEF Hears, history
<1>3. e \in told
  BY DEF Base, TypeOK
<1>4. PICK j \in Job : JobOK(j, Known) /\ Goes(h, j) /\ j.msg = NoMsg /\ j.pc \in {"idle", "offer"}
  BY <1>1, <1>3, ListensFits
<1>5. Around
  BY <1>1, <1>2 DEF Around, Base, TypeOK, ToldOK, Known
<1>6. ReadStep(h, j)
  BY <1>2, <1>4, <1>5 DEF ReadStep, Enters, Known
<1> QED BY <1>6 DEF Shaped

LEMMA RouteFailsShaped ==
  ASSUME Base, NEW h \in Handlers, RouteFails(h) PROVE Shaped
<1>1. /\ job[h].pc = "appoint" /\ Goes(h, NoJob) /\ aside' = aside \cup {job[h].conv}
      /\ UNCHANGED <<conv, copies, present, pending, told, asked, unchecked, opened>>
  BY DEF RouteFails, Silently
<1>2. job[h].conv \in Conversations
  BY <1>1, HandlerFits DEF JobOK, RowPCs, RoutingPCs
<1>3. NoJob.msg = NoMsg /\ NoJob.pc = "idle"
  BY DEF NoJob
<1>4. aside' \subseteq Conversations /\ asked' \in Nat /\ opened' \in {opened, opened + 1}
  BY <1>1, <1>2 DEF Base, TypeOK
<1> QED BY <1>1, <1>3, <1>4, NoJobFits, Reads

LEMMA CreatesShaped ==
  ASSUME Base, NEW h \in Handlers, Creates(h) PROVE Shaped
<1>0. /\ job[h].pc = "create" /\ UNCHANGED <<copies, present, pending, told, asked, unchecked, opened, aside>>
  BY DEF Creates, Silently, history
<1>1. PICK c \in Conversations \ Known, placed \in BOOLEAN :
        /\ conv' = [d \in Known \cup {c} |->
             IF d = c THEN [status |-> "new", owner |-> Nobody, placed |-> placed, stamps |-> 0]
             ELSE conv[d]]
        /\ Goes(h, [job[h] EXCEPT !.pc = "announce", !.conv = c])
  BY DEF Creates
<1> DEFINE j == [job[h] EXCEPT !.pc = "announce", !.conv = c]
           row == [status |-> "new", owner |-> Nobody, placed |-> placed, stamps |-> 0]
<1>2. row \in Row /\ row.owner = Nobody /\ row.stamps = 0
  BY DEF Row, Statuses, Owners
<1>3. j \in Job /\ j.pc = "announce" /\ j.msg = job[h].msg /\ j.conv = c /\ j.rest = job[h].rest
  BY HandlerFits DEF Job, PC
<1>4. Goes(h, j) /\ conv' = [d \in Known \cup {c} |-> IF d = c THEN row ELSE conv[d]]
  BY <1>1
<1> HIDE DEF j, row
<1>5. Known' = Known \cup {c}
  BY <1>4 DEF Known
<1>6. JobOK(j, Known')
  BY <1>3, <1>5, HandlerFits DEF JobOK, RowPCs, RoutingPCs
<1>7. Around
  BY <1>0, <1>5 DEF Around, Base, TypeOK, ToldOK
<1>8. CreateStep(h, j, c, row)
  BY <1>0, <1>2, <1>3, <1>4, <1>6, <1>7 DEF CreateStep, Enters
<1> QED BY <1>8 DEF Shaped

-----------------------------------------------------------------------------
(* The steps that write a row.                                             *)

LEMMA WritesKeepKnown ==
  ASSUME NEW c, NEW row, NEW weighed, Writes(c, row, weighed)
  PROVE  Known' = Known
  BY DEF Writes, Known

LEMMA RowFits ==
  ASSUME Base, NEW c \in Known
  PROVE  conv[c] \in Row
  BY DEF Base, TypeOK, Known

LEMMA WritesShaped ==
  ASSUME Base, NEW h \in Handlers, NEW j \in Job, JobOK(j, Known), Goes(h, j), Around,
         NEW row \in Row, job[h].conv \in Known,
         Writes(job[h].conv, row, job[h].pc = "assign"),
         job[h].pc # "create", j.pc \notin {"create", "send", "assign"},
         job[h].pc = "assign" => row.owner = job[h].pick,
         row.stamps = conv[job[h].conv].stamps
                      + (IF job[h].pc = "send" /\ job[h].first THEN 1 ELSE 0),
         \/ copies' = copies /\ j.msg \in {NoMsg, job[h].msg}
         \/ /\ j.msg = NoMsg /\ job[h].msg \in Messages
            /\ copies' = [copies EXCEPT ![job[h].msg] = Append(@, job[h].conv)]
  PROVE  Shaped
<1>1. WriteStep(h, j, row)
  BY WritesKeepKnown DEF WriteStep, Enters
<1> QED BY <1>1 DEF Shaped

LEMMA StoresShaped ==
  ASSUME Base, NEW h \in Handlers, Stores(h) PROVE Shaped
<1> DEFINE c == job[h].conv
           row == Heard(conv[c], job[h].status)
<1>0. /\ job[h].pc = "store" /\ Goes(h, NoJob) /\ Writes(c, row, FALSE)
      /\ copies' = [copies EXCEPT ![job[h].msg] = Append(@, c)]
      /\ UNCHANGED <<present, pending, told, asked, aside>>
  BY DEF Stores, Silently
<1>1. c \in Known /\ job[h].msg \in Messages
  BY <1>0, HandlerFits DEF JobOK, RowPCs
<1>2. row \in Row /\ row.stamps = conv[c].stamps
  BY <1>1, RowFits DEF Heard, Row, Statuses
<1>3. Around
  BY <1>0, AroundKept, WritesKeepKnown DEF Base, TypeOK
<1>4. NoJob.msg = NoMsg /\ NoJob.pc = "idle"
  BY DEF NoJob
<1>5. conv[c].stamps + 0 = conv[c].stamps
  BY <1>1, RowFits DEF Row
<1>6. Writes(job[h].conv, row, job[h].pc = "assign")
  <2>1. (job[h].pc = "assign") = FALSE
    BY <1>0
  <2> QED BY <1>0, <2>1
<1> HIDE DEF row
<1> QED BY <1>0, <1>1, <1>2, <1>3, <1>4, <1>5, <1>6, NoJobFits, WritesShaped

LEMMA SendsShaped ==
  ASSUME Base, NEW h \in Handlers, Sends(h) PROVE Shaped
<1> DEFINE c == job[h].conv
           row == Stamped(conv[c], job[h].first)
<1>0. /\ job[h].pc = "send" /\ Writes(c, row, FALSE)
      /\ UNCHANGED <<copies, present, pending, told, asked, aside>>
  BY DEF Sends, Silently
<1>1. c \in Known
  BY <1>0, HandlerFits DEF JobOK, RowPCs
<1>2. row \in Row /\ row.stamps = conv[c].stamps + (IF job[h].first THEN 1 ELSE 0)
  BY <1>1, RowFits DEF Stamped, Row
<1>3. Around
  BY <1>0, AroundKept, WritesKeepKnown DEF Base, TypeOK
<1>4. PICK j \in Job : JobOK(j, Known) /\ Goes(h, j) /\ j.msg \in {NoMsg, job[h].msg}
                       /\ j.pc \in {"idle", "activate"}
  <2>1. CASE Goes(h, NoJob)
    BY <2>1, NoJobFits DEF NoJob
  <2>2. CASE Goes(h, [job[h] EXCEPT !.pc = "activate", !.first = FALSE])
    <3> DEFINE j == [job[h] EXCEPT !.pc = "activate", !.first = FALSE]
    <3>1. j \in Job /\ JobOK(j, Known) /\ j.msg = job[h].msg /\ j.pc = "activate"
      BY <1>0, HandlerFits DEF Job, PC, JobOK, RowPCs, RoutingPCs
    <3>2. Goes(h, j)
      BY <2>2
    <3> HIDE DEF j
    <3> QED BY <3>1, <3>2
  <2> QED BY <2>1, <2>2 DEF Sends
<1>5. Writes(job[h].conv, row, job[h].pc = "assign")
  <2>1. (job[h].pc = "assign") = FALSE
    BY <1>0
  <2> QED BY <1>0, <2>1
<1> HIDE DEF row
<1> QED BY <1>0, <1>1, <1>2, <1>3, <1>4, <1>5, WritesShaped

LEMMA SetsStatusShaped ==
  ASSUME Base, NEW h \in Handlers, SetsStatus(h) PROVE Shaped
<1> DEFINE c == job[h].conv
           row == [conv[c] EXCEPT !.status = job[h].status]
           E == IF job[h].status \in {"resolved", "closed"} THEN {<<"freed", c>>} ELSE {}
<1>0. /\ job[h].pc = "status" /\ Goes(h, Afterwards(job[h])) /\ Writes(c, row, FALSE)
      /\ pending' = pending \cup E /\ told' = told \cup E
      /\ UNCHANGED <<copies, present, asked, aside>>
  BY DEF SetsStatus, Publishes
<1>1. c \in Known /\ c \in Conversations
  BY <1>0, HandlerFits DEF JobOK, RowPCs
<1>2. row \in Row /\ row.stamps = conv[c].stamps
  BY <1>1, RowFits, HandlerFits DEF Row, Job
<1>3. Around
  <2>1. Known' = Known
    BY <1>0, WritesKeepKnown
  <2>2. E \subseteq Events /\ \A e \in E : e[2] \in Known
    BY <1>1 DEF Events
  <2>3. UNCHANGED <<present, asked, aside>> /\ pending' = pending \cup E /\ told' = told \cup E
    BY <1>0
  <2> HIDE DEF E, row
  <2> QED BY <2>1, <2>2, <2>3 DEF Around, Base, TypeOK, ToldOK
<1>4. /\ Afterwards(job[h]) \in Job /\ JobOK(Afterwards(job[h]), Known)
      /\ Afterwards(job[h]).msg \in {NoMsg, job[h].msg} /\ Afterwards(job[h]).pc \in {"idle", "take"}
  BY <1>1, HandlerFits, AfterwardsFits
<1>5. conv[c].stamps + 0 = conv[c].stamps
  BY <1>1, RowFits DEF Row
<1>6. Writes(job[h].conv, row, job[h].pc = "assign")
  <2>1. (job[h].pc = "assign") = FALSE
    BY <1>0
  <2> QED BY <1>0, <2>1
<1> HIDE DEF row
<1> QED BY <1>0, <1>1, <1>2, <1>3, <1>4, <1>5, <1>6, WritesShaped

LEMMA AssignedFits ==
  ASSUME NEW r \in Row, NEW who \in Owners
  PROVE  Assigned(r, who) \in Row /\ Assigned(r, who).stamps = r.stamps
         /\ Assigned(r, who).owner = who /\ Assigned(r, who).placed = r.placed
         /\ Assigned(r, who).status \in {"queued", "assigned"}
  BY DEF Assigned, Row, Statuses

LEMMA RouteAssignsShaped ==
  ASSUME Base, NEW h \in Handlers, RouteAssigns(h) PROVE Shaped
<1> DEFINE c == job[h].conv
<1>0. /\ job[h].pc \in {"assign", "appoint"} /\ Turn(h, job[h].rest)
      /\ UNCHANGED <<copies, present, pending, told, asked>>
  BY DEF RouteAssigns, Silently
<1>1. c \in Known /\ c \in Conversations /\ job[h].pick \in Owners /\ job[h].rest \in SUBSET Known
  BY <1>0, HandlerFits DEF JobOK, RowPCs, RoutingPCs, Job
<1>2. conv[c] \in Row
  BY <1>1, RowFits
<1>3. PICK placed \in BOOLEAN :
        /\ Writes(c, [Assigned(conv[c], job[h].pick) EXCEPT !.placed = placed], job[h].pc = "assign")
        /\ aside' = IF placed THEN aside ELSE aside \cup {c}
  <2>1. conv[c].placed \in BOOLEAN
    BY <1>2 DEF Row
  <2>2. {TRUE} \cup (IF job[h].pc = "appoint" THEN {conv[c].placed} ELSE {}) \subseteq BOOLEAN
    BY <2>1
  <2> QED BY <2>2 DEF RouteAssigns
<1> DEFINE row == [Assigned(conv[c], job[h].pick) EXCEPT !.placed = placed]
<1>4. row \in Row /\ row.stamps = conv[c].stamps /\ row.owner = job[h].pick
  BY <1>1, <1>2, AssignedFits DEF Row
<1>5. Writes(c, row, job[h].pc = "assign")
  BY <1>3
<1>6. PICK j \in Job : JobOK(j, Known) /\ Goes(h, j) /\ j.msg = NoMsg /\ j.pc \in {"idle", "offer"}
  BY <1>0, <1>1, TurnFits
<1> HIDE DEF row
<1>7. Around
  <2>1. aside' \subseteq Conversations
    BY <1>1, <1>3 DEF Base, TypeOK
  <2> QED BY <1>0, <1>5, <2>1, AroundKept, WritesKeepKnown DEF Base, TypeOK
<1>8. conv[c].stamps + 0 = conv[c].stamps
  BY <1>2 DEF Row
<1> QED BY <1>0, <1>1, <1>4, <1>5, <1>6, <1>7, <1>8, WritesShaped

LEMMA ParksShaped ==
  ASSUME Base, NEW h \in Handlers, Parks(h) PROVE Shaped
<1> DEFINE c == job[h].conv
           row == Parked(conv[c])
<1>0. /\ job[h].pc = "park" /\ Goes(h, NoJob) /\ Writes(c, row, FALSE)
      /\ UNCHANGED <<copies, present, pending, told, asked, aside>>
  BY DEF Parks, Silently
<1>1. c \in Known
  BY <1>0, HandlerFits DEF JobOK, RowPCs, RoutingPCs
<1>2. row \in Row /\ row.stamps = conv[c].stamps
  BY <1>1, RowFits DEF Parked, Row, Statuses
<1>3. Around
  BY <1>0, AroundKept, WritesKeepKnown DEF Base, TypeOK
<1>4. NoJob.msg = NoMsg /\ NoJob.pc = "idle"
  BY DEF NoJob
<1>5. conv[c].stamps + 0 = conv[c].stamps
  BY <1>1, RowFits DEF Row
<1>6. Writes(job[h].conv, row, job[h].pc = "assign")
  <2>1. (job[h].pc = "assign") = FALSE
    BY <1>0
  <2> QED BY <1>0, <2>1
<1> HIDE DEF row
<1> QED BY <1>0, <1>1, <1>2, <1>3, <1>4, <1>5, <1>6, NoJobFits, WritesShaped

LEMMA HandShaped ==
  ASSUME Base, NEW c \in Known, NEW row \in Row, row.stamps = conv[c].stamps,
         Writes(c, row, FALSE), Within,
         UNCHANGED <<copies, present, pending, told, job, crowd, aside>>
  PROVE  Shaped
<1>1. Around
  BY AroundKept, WritesKeepKnown, RequestTypes DEF Base, TypeOK
<1>2. HandStep(c, row)
  BY <1>1 DEF HandStep
<1> QED BY <1>2 DEF Shaped

LEMMA AssignsShaped ==
  ASSUME Base, NEW c \in Conversations, NEW who \in Owners, Assigns(c, who) PROVE Shaped
<1>1. /\ c \in Known /\ Within /\ Writes(c, Assigned(conv[c], who), FALSE)
      /\ UNCHANGED <<copies, present, pending, told, job, crowd, aside>>
  BY DEF Assigns, Silently
<1> QED BY <1>1, RowFits, AssignedFits, HandShaped

LEMMA TransfersShaped ==
  ASSUME Base, NEW c \in Conversations, Transfers(c) PROVE Shaped
<1>1. /\ c \in Known /\ Within
      /\ UNCHANGED <<copies, present, pending, told, job, crowd, aside>>
  BY DEF Transfers, Silently
<1>2. conv[c] \in Row /\ Nobody \in Owners
  BY <1>1, RowFits DEF Owners
<1>3. PICK placed \in {TRUE, conv[c].placed} :
        Writes(c, [Assigned(conv[c], Nobody) EXCEPT !.placed = placed], FALSE)
  BY DEF Transfers
<1> DEFINE row == [Assigned(conv[c], Nobody) EXCEPT !.placed = placed]
<1>4. row \in Row /\ row.stamps = conv[c].stamps
  <2>1. Assigned(conv[c], Nobody) \in Row /\ Assigned(conv[c], Nobody).stamps = conv[c].stamps
    BY <1>2, AssignedFits
  <2>2. placed \in BOOLEAN
    BY <1>2 DEF Row
  <2> QED BY <2>1, <2>2 DEF Row
<1>5. Writes(c, row, FALSE)
  BY <1>3
<1> HIDE DEF row
<1> QED BY <1>1, <1>4, <1>5, HandShaped

LEMMA EscalatesShaped ==
  ASSUME Base, NEW c \in Conversations, NEW a \in Agents, Escalates(c, a) PROVE Shaped
<1> DEFINE row == [conv[c] EXCEPT !.owner = a]
<1>1. /\ c \in Known /\ Within /\ Writes(c, row, FALSE)
      /\ UNCHANGED <<copies, present, pending, told, job, crowd, aside>>
  BY DEF Escalates, Silently
<1>2. row \in Row /\ row.stamps = conv[c].stamps
  BY <1>1, RowFits DEF Row, Owners
<1> HIDE DEF row
<1> QED BY <1>1, <1>2, HandShaped

LEMMA ChangesPresenceShaped ==
  ASSUME Base, NEW a \in Agents, ChangesPresence(a) PROVE Shaped
<1>1. /\ Within /\ present' \subseteq Agents
      /\ UNCHANGED <<pending, told, conv, copies, job, crowd, unchecked, opened, aside>>
  BY DEF ChangesPresence, Silently, history, Base, TypeOK
<1>2. Around
  BY <1>1, AroundKept, RequestTypes DEF Known, Base, TypeOK
<1> QED BY <1>1, <1>2 DEF RestStep, Shaped

\* Every step has a shape.
LEMMA StepShaped == ASSUME Base, Next PROVE Shaped
<1>1. ASSUME NEW h \in Handlers, Step(h) PROVE Shaped
  BY <1>1, FindsShaped, CreatesShaped, AnnouncesShaped, TakesShaped, StoresShaped,
     DraftsShaped, SendsShaped, ActivatesShaped, SetsStatusShaped, OffersShaped, WeighsShaped,
     RouteAssignsShaped, RouteFailsShaped, ParksShaped, HearsShaped DEF Step
<1>2. ASSUME NEW h \in Handlers, Request(h) PROVE Shaped
  BY <1>2, ReceivesShaped, RepliesShaped, AsksRouteShaped, AsksStatusShaped, OpensShaped,
     AsksDrainShaped, HearsAgainShaped DEF Request
<1> QED BY <1>1, <1>2, AssignsShaped, TransfersShaped, EscalatesShaped, ChangesPresenceShaped DEF Next

-----------------------------------------------------------------------------
(* Types, and the crowd.                                                   *)

LEMMA WritesFacts ==
  ASSUME Base, NEW c \in Known, NEW row \in Row, NEW weighed, Writes(c, row, weighed)
  PROVE  /\ Known' = Known /\ conv'[c] = row /\ \A d \in Known \ {c} : conv'[d] = conv[d]
         /\ unchecked' \in [Agents -> Nat]
         /\ opened' \in Nat /\ opened <= opened'
         /\ row.status \in OpenStatuses /\ conv[c].status \notin OpenStatuses => opened' = opened + 1
<1>1. Known' = Known
  BY WritesKeepKnown
<1>2. conv' = [conv EXCEPT ![c] = row]
  BY DEF Writes
<1>3. conv'[c] = row /\ \A d \in Known \ {c} : conv'[d] = conv[d]
  BY <1>2 DEF Known
<1>4. unchecked' \in [Agents -> Nat]
  BY DEF Writes, Base, TypeOK
<1>5. opened' = IF row.status \in OpenStatuses /\ conv[c].status \notin OpenStatuses
                THEN opened + 1 ELSE opened
  BY DEF Writes
<1>6. opened \in Nat
  BY DEF Base, TypeOK
<1> QED BY <1>1, <1>3, <1>4, <1>5, <1>6

\* The rows, the messages and the histories of a state keep their types.
Typed ==
  /\ Known \subseteq Conversations /\ \A c \in Known : conv[c] \in Row
  /\ copies \in [Messages -> Seq(Conversations)]
  /\ unchecked \in [Agents -> Nat] /\ opened \in Nat

LEMMA BaseTyped == ASSUME Base PROVE Typed /\ crowd \in Nat /\ job \in [Handlers -> Job]
  BY DEF Base, TypeOK, Typed, Known

LEMMA BaseFromParts ==
  ASSUME Around, Typed', job' \in [Handlers -> Job], JobsOK', CrowdOK', crowd' \in Nat
  PROVE  Base'
<1>1. TypeOK'
  BY DEF Around, Typed, TypeOK, Known
<1>2. ToldOK'
  BY DEF Around, ToldOK
<1> QED BY <1>1, <1>2 DEF Base

LEMMA ReadKeepsBase ==
  ASSUME Base, NEW h, NEW j, ReadStep(h, j) PROVE Base' /\ Known' = Known /\ crowd <= crowd'
<1>1. Known' = Known /\ Enters(h, j) /\ Around
  BY DEF ReadStep, Known
<1>2. Typed'
  BY BaseTyped, <1>1 DEF Typed, ReadStep
<1> QED BY <1>1, <1>2, EntersFacts, BaseFromParts

LEMMA WriteKeepsBase ==
  ASSUME Base, NEW h, NEW j, NEW row, WriteStep(h, j, row)
  PROVE  Base' /\ Known' = Known /\ crowd <= crowd' /\ h \in Handlers
         /\ job[h].conv \in Known /\ row \in Row
<1>1. Enters(h, j) /\ Around /\ h \in Handlers /\ job[h].conv \in Known /\ row \in Row
  BY DEF WriteStep, Enters
<1>2. Writes(job[h].conv, row, job[h].pc = "assign")
  BY DEF WriteStep
<1>3. /\ Known' = Known /\ conv'[job[h].conv] = row
      /\ \A d \in Known \ {job[h].conv} : conv'[d] = conv[d]
      /\ unchecked' \in [Agents -> Nat] /\ opened' \in Nat
  BY <1>1, <1>2, WritesFacts
<1>4. copies' \in [Messages -> Seq(Conversations)]
  <2>1. CASE copies' = copies
    BY <2>1, BaseTyped DEF Typed
  <2>2. CASE /\ job[h].msg \in Messages
             /\ copies' = [copies EXCEPT ![job[h].msg] = Append(@, job[h].conv)]
    <3>1. job[h].conv \in Conversations /\ copies \in [Messages -> Seq(Conversations)]
      BY <1>1, BaseTyped DEF Typed
    <3>2. Append(copies[job[h].msg], job[h].conv) \in Seq(Conversations)
      BY <2>2, <3>1
    <3> QED BY <2>2, <3>1, <3>2
  <2> QED BY <2>1, <2>2 DEF WriteStep
<1>5. Typed'
  BY <1>1, <1>3, <1>4, BaseTyped DEF Typed
<1> QED BY <1>1, <1>3, <1>5, EntersFacts, BaseFromParts

LEMMA HandKeepsBase ==
  ASSUME Base, NEW c, NEW row, HandStep(c, row) PROVE Base' /\ Known' = Known
<1>1. Around /\ c \in Known /\ row \in Row /\ Writes(c, row, FALSE)
      /\ UNCHANGED <<copies, job, crowd>>
  BY DEF HandStep
<1>2. /\ Known' = Known /\ conv'[c] = row /\ \A d \in Known \ {c} : conv'[d] = conv[d]
      /\ unchecked' \in [Agents -> Nat] /\ opened' \in Nat
  BY <1>1, WritesFacts
<1>3. Typed'
  BY <1>1, <1>2, BaseTyped DEF Typed
<1>4. JobsOK' /\ CrowdOK'
  BY <1>1, <1>2 DEF Base, JobsOK, CrowdOK, Busy
<1> QED BY <1>1, <1>2, <1>3, <1>4, BaseTyped, BaseFromParts

LEMMA CreateKeepsBase ==
  ASSUME Base, NEW h, NEW j, NEW c, NEW row, CreateStep(h, j, c, row)
  PROVE  Base' /\ Known' = Known \cup {c} /\ conv'[c] = row /\ (\A d \in Known : conv'[d] = conv[d])
         /\ crowd <= crowd'
<1>1. /\ Enters(h, j) /\ Around /\ c \in Conversations \ Known /\ row \in Row
      /\ UNCHANGED <<copies, unchecked, opened>>
      /\ conv' = [d \in Known \cup {c} |-> IF d = c THEN row ELSE conv[d]]
  BY DEF CreateStep
<1>2. Known' = Known \cup {c} /\ conv'[c] = row /\ \A d \in Known : conv'[d] = conv[d]
  BY <1>1 DEF Known
<1>3. Typed'
  BY <1>1, <1>2, BaseTyped DEF Typed
<1> QED BY <1>1, <1>2, <1>3, EntersFacts, BaseFromParts

LEMMA RestKeepsBase == ASSUME Base, RestStep PROVE Base' /\ Known' = Known
<1>1. Around /\ Known' = Known /\ UNCHANGED <<conv, copies, job, crowd, unchecked, opened>>
  BY DEF RestStep, Known
<1>2. Typed' /\ JobsOK' /\ CrowdOK'
  BY <1>1, BaseTyped DEF Typed, Base, JobsOK, CrowdOK, Busy
<1> QED BY <1>1, <1>2, BaseTyped, BaseFromParts

LEMMA BaseHolds == Spec => []Base
<1>1. Init => Base
  <2> SUFFICES ASSUME Init PROVE Base
    OBVIOUS
  <2>1. Known = {} /\ told = {} /\ pending = {} /\ aside = {} /\ present = {}
    BY DEF Init, Known
  <2>2. job \in [Handlers -> Job] /\ JobsOK /\ Busy = {}
    BY NoJobFits DEF Init, JobsOK, Busy, NoJob
  <2>3. CrowdOK
    BY <2>2, FS_EmptySet DEF CrowdOK, Init
  <2>4. copies \in [Messages -> Seq(Conversations)]
    BY DEF Init
  <2>5. TypeOK
    BY <2>1, <2>2, <2>4 DEF TypeOK, Init, Known
  <2> QED BY <2>1, <2>2, <2>3, <2>5 DEF Base, ToldOK
<1>2. Base /\ [Next]_vars => Base'
  <2>1. ASSUME Base, Next PROVE Base'
    BY <2>1, StepShaped, ReadKeepsBase, WriteKeepsBase, HandKeepsBase, CreateKeepsBase, RestKeepsBase
       DEF Shaped
  <2>2. ASSUME Base, UNCHANGED vars PROVE Base'
    BY <2>2 DEF Base, TypeOK, JobsOK, ToldOK, CrowdOK, Busy, Known, vars, history
  <2> QED BY <2>1, <2>2
<1> QED BY <1>1, <1>2, PTL DEF Spec

\* Every variable keeps its type, for any number of handlers, conversations and agents.
THEOREM TypeCorrect == Spec => []TypeOK
  BY BaseHolds, PTL DEF Base

-----------------------------------------------------------------------------
(* Copies of a message.                                                    *)

\* Who carries a message is not idle, so a carrier that joins finds room.
LEMMA CarriersBusy ==
  ASSUME Base, NEW m \in Messages
  PROVE  Carriers(m) \in SUBSET Handlers /\ Cardinality(Carriers(m)) \in Nat
         /\ Cardinality(Carriers(m)) <= crowd
<1>1. Carriers(m) \subseteq Busy /\ Busy \in SUBSET Handlers
  <2>1. m # NoMsg
    OBVIOUS
  <2>2. NoJob.msg = NoMsg
    BY DEF NoJob
  <2> QED BY <2>1, <2>2 DEF Carriers, Busy, Base, JobsOK, JobOK
<1>2. Cardinality(Carriers(m)) \in Nat /\ Cardinality(Busy) \in Nat
      /\ Cardinality(Carriers(m)) <= Cardinality(Busy)
  BY <1>1, HandlersFinite, Fewer
<1>3. Cardinality(Busy) <= crowd /\ crowd \in Nat
  BY BaseTyped DEF Base, CrowdOK
<1> QED BY <1>1, <1>2, <1>3

\* The same in the next state.
LEMMA CarriersBusyNext ==
  ASSUME Base', NEW m \in Messages
  PROVE  /\ Carriers(m)' \in SUBSET Handlers /\ Cardinality(Carriers(m)') \in Nat
         /\ Cardinality(Carriers(m)') <= crowd'
<1>1. Carriers(m)' \subseteq Busy' /\ Busy' \in SUBSET Handlers
  <2>1. m # NoMsg
    OBVIOUS
  <2>2. NoJob.msg = NoMsg
    BY DEF NoJob
  <2> QED BY <2>1, <2>2 DEF Carriers, Busy, Base, JobsOK, JobOK
<1>2. Cardinality(Carriers(m)') \in Nat /\ Cardinality(Busy') \in Nat
      /\ Cardinality(Carriers(m)') <= Cardinality(Busy')
  BY <1>1, HandlersFinite, Fewer
<1>3. Cardinality(Busy') <= crowd' /\ crowd' \in Nat
  BY DEF Base, CrowdOK, TypeOK
<1> QED BY <1>1, <1>2, <1>3

LEMMA CarriersMove ==
  ASSUME Base, NEW h, NEW j, Enters(h, j), Known \subseteq Known', NEW m \in Messages
  PROVE  /\ Carriers(m) \ {h} = Carriers(m)' \ {h}
         /\ h \in Carriers(m) <=> job[h].msg = m
         /\ h \in Carriers(m)' <=> j.msg = m
  BY EntersFacts DEF Carriers, Enters

LEMMA CopiesKept == ASSUME Base, CopiesOK, Shaped PROVE CopiesOK'
<1>0. \A m \in Messages : copies[m] \in Seq(Conversations) /\ Len(copies[m]) \in Nat
  BY BaseTyped DEF Typed
<1> DEFINE Room(m) == Len(copies[m]) + Cardinality(Carriers(m)) <= crowd
\* A handler moves, and no copy is stored of m.
<1>1. ASSUME NEW h, NEW j, Enters(h, j), Base', Known \subseteq Known', crowd <= crowd', NEW m \in Messages,
             copies'[m] = copies[m],
             j.msg = NoMsg \/ j.msg = job[h].msg \/ copies[j.msg] = <<>>
      PROVE  Room(m)'
  <2>1. /\ Cardinality(Carriers(m)') \in Nat /\ Cardinality(Carriers(m)) \in Nat
        /\ crowd \in Nat /\ crowd' \in Nat /\ Len(copies[m]) \in Nat
        /\ Cardinality(Carriers(m)') <= crowd'
        /\ Len(copies[m]) + Cardinality(Carriers(m)) <= crowd
        /\ Len(copies'[m]) = Len(copies[m])
    BY <1>0, <1>1, CarriersBusy, CarriersBusyNext, BaseTyped DEF CopiesOK, Base, TypeOK
  <2>2. CASE h \in Carriers(m)' /\ h \notin Carriers(m)
    <3>1. j.msg = m /\ job[h].msg # m /\ m # NoMsg
      BY <1>1, <2>2, CarriersMove
    <3>2. Len(copies[m]) = 0
      BY <1>1, <3>1
    <3> QED BY <2>1, <3>2
  <2>3. CASE ~(h \in Carriers(m)' /\ h \notin Carriers(m))
    <3>1. Carriers(m)' \in SUBSET Carriers(m) /\ Carriers(m) \in SUBSET Handlers
      BY <1>1, <2>3, CarriersMove, CarriersBusy
    <3>2. Cardinality(Carriers(m)') <= Cardinality(Carriers(m))
      BY <3>1, Fewer
    <3> QED BY <1>1, <2>1, <3>2
  <2> QED BY <2>2, <2>3
\* A handler stores its message and lets go of it.
<1>2. ASSUME NEW h, NEW j, Enters(h, j), Base', Known \subseteq Known', crowd <= crowd', j.msg = NoMsg,
             NEW m \in Messages, m = job[h].msg, job[h].conv \in Conversations,
             copies' = [copies EXCEPT ![m] = Append(@, job[h].conv)]
      PROVE  Room(m)'
  <2>1. Carriers(m)' \in SUBSET Handlers /\ Carriers(m) \in SUBSET Handlers
        /\ h \in Carriers(m) /\ h \notin Carriers(m)' /\ Carriers(m) \ {h} = Carriers(m)' \ {h}
    BY <1>2, CarriersMove, CarriersBusy, CarriersBusyNext
  <2>2. Cardinality(Carriers(m)) = Cardinality(Carriers(m)') + 1
    BY <2>1, Counting
  <2>3. Len(copies'[m]) = Len(copies[m]) + 1
    <3>1. copies \in [Messages -> Seq(Conversations)]
      BY BaseTyped DEF Typed
    <3> QED BY <1>2, <3>1
  <2>4. Len(copies[m]) + Cardinality(Carriers(m)) <= crowd /\ Len(copies[m]) \in Nat
        /\ Cardinality(Carriers(m)') \in Nat /\ crowd \in Nat /\ crowd' \in Nat
    BY <1>0, <1>2, BaseTyped, CarriersBusyNext DEF CopiesOK, Base, TypeOK
  <2> QED BY <1>2, <2>2, <2>3, <2>4
<1>3. ASSUME NEW h, NEW j, ReadStep(h, j) PROVE CopiesOK'
  <2>1. /\ Enters(h, j) /\ copies' = copies /\ Known \subseteq Known' /\ crowd <= crowd' /\ Base'
        /\ j.msg = NoMsg \/ j.msg = job[h].msg \/ copies[j.msg] = <<>>
    BY <1>3, ReadKeepsBase DEF ReadStep
  <2> QED BY <1>1, <2>1 DEF CopiesOK
<1>4. ASSUME NEW h, NEW j, NEW row, WriteStep(h, j, row) PROVE CopiesOK'
  <2>1. /\ Enters(h, j) /\ Known \subseteq Known' /\ crowd <= crowd' /\ Base'
        /\ job[h].conv \in Conversations
    BY <1>4, WriteKeepsBase, BaseTyped DEF WriteStep, Typed
  <2>2. CASE copies' = copies /\ j.msg \in {NoMsg, job[h].msg}
    BY <1>1, <2>1, <2>2 DEF CopiesOK
  <2>3. CASE /\ j.msg = NoMsg /\ job[h].msg \in Messages
             /\ copies' = [copies EXCEPT ![job[h].msg] = Append(@, job[h].conv)]
    <3>1. ASSUME NEW m \in Messages, m # job[h].msg PROVE copies'[m] = copies[m]
      BY <2>3, <3>1, BaseTyped DEF Typed
    <3>2. ASSUME NEW m \in Messages PROVE Room(m)'
      <4>1. CASE m = job[h].msg
        BY <1>2, <2>1, <2>3, <4>1
      <4>2. CASE m # job[h].msg
        BY <1>1, <2>1, <2>3, <3>1, <4>2
      <4> QED BY <4>1, <4>2
    <3> QED BY <3>2 DEF CopiesOK
  <2> QED BY <1>4, <2>2, <2>3 DEF WriteStep
<1>5. ASSUME NEW h, NEW j, NEW c, NEW row, CreateStep(h, j, c, row) PROVE CopiesOK'
  <2>1. /\ Enters(h, j) /\ copies' = copies /\ Known \subseteq Known' /\ crowd <= crowd' /\ Base'
        /\ j.msg = job[h].msg
    BY <1>5, CreateKeepsBase DEF CreateStep
  <2> QED BY <1>1, <2>1 DEF CopiesOK
<1>6. ASSUME UNCHANGED <<copies, job, crowd>> PROVE CopiesOK'
  BY <1>6 DEF CopiesOK, Carriers
<1> QED BY <1>3, <1>4, <1>5, <1>6 DEF Shaped, HandStep, RestStep

LEMMA CopiesOKHolds == Spec => []CopiesOK
<1>1. Init => CopiesOK
  <2> SUFFICES ASSUME Init, NEW m \in Messages PROVE Len(copies[m]) + Cardinality(Carriers(m)) <= crowd
    BY DEF CopiesOK
  <2>1. Carriers(m) = {} /\ copies[m] = <<>> /\ crowd = 0
    BY DEF Init, Carriers, NoJob
  <2> QED BY <2>1, FS_EmptySet
<1>2. Base /\ CopiesOK /\ [Next]_vars => CopiesOK'
  <2>1. ASSUME CopiesOK, UNCHANGED vars PROVE CopiesOK'
    BY <2>1 DEF CopiesOK, Carriers, vars
  <2> QED BY <2>1, StepShaped, CopiesKept
<1> QED BY <1>1, <1>2, BaseHolds, PTL DEF Spec

\* However often a provider redelivers a message, it is stored at most once for
\* each handler that was in flight at the same time.
THEOREM CopiesBoundedHolds == Spec => []CopiesBounded
<1>1. Base /\ CopiesOK => CopiesBounded
  <2> SUFFICES ASSUME Base, CopiesOK, NEW m \in Messages PROVE Len(copies[m]) <= crowd
    BY DEF CopiesBounded
  <2>1. /\ Len(copies[m]) + Cardinality(Carriers(m)) <= crowd /\ Cardinality(Carriers(m)) \in Nat
        /\ crowd \in Nat /\ Len(copies[m]) \in Nat
    BY CarriersBusy, BaseTyped DEF CopiesOK, Typed
  <2> QED BY <2>1
<1> QED BY <1>1, BaseHolds, CopiesOKHolds, PTL

-----------------------------------------------------------------------------
(* Stamps of the first response.                                           *)

LEMMA RoomForSome ==
  ASSUME NEW B \in SUBSET Handlers, NEW S \in SUBSET B, NEW n \in Nat, Cardinality(B) <= n
  PROVE  S \in SUBSET Handlers /\ Cardinality(S) \in Nat /\ Cardinality(S) <= n
<1>1. Cardinality(S) \in Nat /\ Cardinality(B) \in Nat /\ Cardinality(S) <= Cardinality(B)
  BY HandlersFinite, Fewer
<1> QED BY <1>1

\* A set of handlers at work has no more members than the crowd.
LEMMA AtWork ==
  ASSUME Base, NEW S \in SUBSET Busy
  PROVE  S \in SUBSET Handlers /\ Cardinality(S) \in Nat /\ Cardinality(S) <= crowd /\ crowd \in Nat
<1>1. Busy \in SUBSET Handlers /\ Cardinality(Busy) <= crowd /\ crowd \in Nat
  BY BaseTyped DEF Base, CrowdOK, Busy
<1> QED BY <1>1, RoomForSome

LEMMA AtWorkNext ==
  ASSUME Base', NEW S \in SUBSET (Busy')
  PROVE  S \in SUBSET Handlers /\ Cardinality(S) \in Nat /\ Cardinality(S) <= crowd' /\ crowd' \in Nat
<1>1. Busy' \in SUBSET Handlers /\ Cardinality(Busy') <= crowd' /\ crowd' \in Nat
  BY DEF Base, CrowdOK, Busy, TypeOK
<1> QED BY <1>1, RoomForSome

LEMMA AnsweringMove ==
  ASSUME Base, NEW h, NEW j, Enters(h, j), Known \subseteq Known', NEW c
  PROVE  /\ Answering(c) \in SUBSET Busy /\ Answering(c)' \in SUBSET (Busy')
         /\ Answering(c) \ {h} = Answering(c)' \ {h}
         /\ h \in Answering(c) <=> job[h].pc = "send" /\ job[h].first /\ job[h].conv = c
         /\ h \in Answering(c)' <=> j.pc = "send" /\ j.first /\ j.conv = c
  BY EntersFacts DEF Answering, Enters, Busy

LEMMA StampsKept == ASSUME Base, StampsOK, Shaped PROVE StampsOK'
<1> DEFINE Room(c) == conv[c].stamps + Cardinality(Answering(c)) <= crowd
<1>0. ASSUME NEW c \in Known PROVE conv[c].stamps \in Nat
  BY RowFits DEF Row
\* A handler moves, and nothing is stamped.
<1>1. ASSUME NEW h, NEW j, Enters(h, j), Base', Known \subseteq Known', crowd <= crowd', NEW c \in Known,
             conv'[c].stamps = conv[c].stamps,
             j.pc = "send" /\ j.first /\ j.conv = c => conv[c].stamps = 0
      PROVE  Room(c)'
  <2>1. /\ Answering(c) \in SUBSET Handlers /\ Cardinality(Answering(c)) \in Nat /\ crowd \in Nat
        /\ Cardinality(Answering(c)') \in Nat /\ Cardinality(Answering(c)') <= crowd' /\ crowd' \in Nat
    BY <1>1, AnsweringMove, AtWork, AtWorkNext
  <2>2. conv[c].stamps \in Nat /\ conv[c].stamps + Cardinality(Answering(c)) <= crowd
    BY <1>0 DEF StampsOK
  <2>3. CASE h \in Answering(c)'
    <3>1. conv[c].stamps = 0
      BY <1>1, <2>3, AnsweringMove
    <3> QED BY <1>1, <2>1, <3>1
  <2>4. CASE h \notin Answering(c)'
    <3>1. Answering(c)' \in SUBSET Answering(c)
      BY <1>1, <2>4, AnsweringMove
    <3>2. Cardinality(Answering(c)') <= Cardinality(Answering(c))
      BY <2>1, <3>1, Fewer
    <3> QED BY <1>1, <2>1, <2>2, <3>2
  <2> QED BY <2>3, <2>4
\* A handler stamps its conversation and is done with it.
<1>2. ASSUME NEW h, NEW j, Enters(h, j), Base', Known \subseteq Known', crowd <= crowd', NEW c \in Known,
             conv'[c].stamps = conv[c].stamps + 1, job[h].conv = c, j.pc # "send",
             job[h].pc = "send", job[h].first
      PROVE  Room(c)'
  <2>1. /\ Answering(c) \in SUBSET Handlers /\ crowd \in Nat
        /\ Answering(c)' \in SUBSET Handlers /\ Cardinality(Answering(c)') \in Nat /\ crowd' \in Nat
    <3>1. Answering(c) \in SUBSET Busy /\ Answering(c)' \in SUBSET (Busy')
      BY <1>2, AnsweringMove
    <3>2. Answering(c) \in SUBSET Handlers /\ crowd \in Nat
      BY <3>1, AtWork
    <3>3. /\ Answering(c)' \in SUBSET Handlers /\ Cardinality(Answering(c)') \in Nat /\ crowd' \in Nat
      BY <1>2, <3>1, AtWorkNext
    <3> QED BY <3>2, <3>3
  <2>2. conv[c].stamps \in Nat /\ conv[c].stamps + Cardinality(Answering(c)) <= crowd
    BY <1>0 DEF StampsOK
  <2>3. h \in Answering(c) /\ h \notin Answering(c)' /\ Answering(c) \ {h} = Answering(c)' \ {h}
    BY <1>2, AnsweringMove
  <2>4. Cardinality(Answering(c)) = Cardinality(Answering(c)') + 1
    BY <2>1, <2>3, Counting
  <2> QED BY <1>2, <2>1, <2>2, <2>4
<1>3. ASSUME NEW h, NEW j, ReadStep(h, j) PROVE StampsOK'
  <2>1. /\ Enters(h, j) /\ conv' = conv /\ Known' = Known /\ crowd <= crowd' /\ Base'
        /\ j.pc = "send" /\ j.first => conv[j.conv].stamps = 0
    BY <1>3, ReadKeepsBase DEF ReadStep
  <2> QED BY <1>1, <2>1 DEF StampsOK
<1>4. ASSUME NEW h, NEW j, NEW row, WriteStep(h, j, row) PROVE StampsOK'
  <2>1. /\ Enters(h, j) /\ Known' = Known /\ crowd <= crowd' /\ Base' /\ job[h].conv \in Known /\ row \in Row
    BY <1>4, WriteKeepsBase DEF WriteStep
  <2>2. /\ j.pc # "send"
        /\ row.stamps = conv[job[h].conv].stamps
                        + (IF job[h].pc = "send" /\ job[h].first THEN 1 ELSE 0)
        /\ Writes(job[h].conv, row, job[h].pc = "assign")
    BY <1>4 DEF WriteStep
  <2>3. conv'[job[h].conv] = row /\ \A d \in Known \ {job[h].conv} : conv'[d] = conv[d]
    BY <2>1, <2>2, WritesFacts
  <2>4. ASSUME NEW c \in Known PROVE Room(c)'
    <3>1. CASE c # job[h].conv
      BY <1>1, <2>1, <2>2, <2>3, <3>1
    <3>2. CASE c = job[h].conv /\ job[h].pc = "send" /\ job[h].first
      <4>1. conv'[c].stamps = conv[c].stamps + 1
        BY <2>2, <2>3, <3>2
      <4> QED BY <1>2, <2>1, <2>2, <3>2, <4>1
    <3>3. CASE c = job[h].conv /\ ~(job[h].pc = "send" /\ job[h].first)
      <4>1. conv'[c].stamps = conv[c].stamps
        BY <1>0, <2>1, <2>2, <2>3, <3>3
      <4> QED BY <1>1, <2>1, <2>2, <4>1
    <3> QED BY <3>1, <3>2, <3>3
  <2> QED BY <2>1, <2>4 DEF StampsOK
<1>5. ASSUME NEW c, NEW row, HandStep(c, row) PROVE StampsOK'
  <2>1. c \in Known /\ row \in Row /\ Writes(c, row, FALSE) /\ row.stamps = conv[c].stamps
        /\ job' = job /\ crowd' = crowd
    BY <1>5 DEF HandStep
  <2>2. Known' = Known /\ \A d \in Known : conv'[d].stamps = conv[d].stamps
    BY <2>1, WritesFacts
  <2> QED BY <2>1, <2>2 DEF StampsOK, Answering
<1>6. ASSUME NEW h, NEW j, NEW d, NEW row, CreateStep(h, j, d, row) PROVE StampsOK'
  <2>1. /\ Enters(h, j) /\ j.pc = "announce" /\ row.stamps = 0
        /\ Base' /\ crowd <= crowd' /\ Known' = Known \cup {d} /\ conv'[d] = row
        /\ \A c \in Known : conv'[c] = conv[c]
    BY <1>6, CreateKeepsBase DEF CreateStep
  <2>2. ASSUME NEW c \in Known PROVE Room(c)'
    BY <1>1, <2>1
  <2>3. Room(d)'
    <3>1. Cardinality(Answering(d)') \in Nat /\ Cardinality(Answering(d)') <= crowd' /\ crowd' \in Nat
      BY <2>1, AnsweringMove, AtWorkNext
    <3> QED BY <2>1, <3>1
  <2> QED BY <2>1, <2>2, <2>3 DEF StampsOK
<1>7. ASSUME RestStep PROVE StampsOK'
  BY <1>7 DEF RestStep, StampsOK, Answering, Known
<1> QED BY <1>3, <1>4, <1>5, <1>6, <1>7 DEF Shaped

LEMMA StampsOKHolds == Spec => []StampsOK
<1>1. Init => StampsOK
  BY DEF Init, StampsOK, Known
<1>2. Base /\ StampsOK /\ [Next]_vars => StampsOK'
  <2>1. ASSUME StampsOK, UNCHANGED vars PROVE StampsOK'
    BY <2>1 DEF StampsOK, Answering, vars, Known
  <2> QED BY <2>1, StepShaped, StampsKept
<1> QED BY <1>1, <1>2, BaseHolds, PTL DEF Spec

\* The time of the first response is written at most once for each handler that
\* was in flight at the same time.
THEOREM StampsBoundedHolds == Spec => []StampsBounded
<1>1. Base /\ StampsOK => StampsBounded
  <2> SUFFICES ASSUME Base, StampsOK, NEW c \in Known PROVE conv[c].stamps <= crowd
    BY DEF StampsBounded
  <2>1. Answering(c) \in SUBSET Busy
    BY DEF Answering, Busy
  <2>2. /\ conv[c].stamps + Cardinality(Answering(c)) <= crowd /\ Cardinality(Answering(c)) \in Nat
        /\ crowd \in Nat /\ conv[c].stamps \in Nat
    BY <2>1, AtWork, RowFits DEF StampsOK, Row
  <2> QED BY <2>2
<1> QED BY <1>1, BaseHolds, StampsOKHolds, PTL

-----------------------------------------------------------------------------
(* Open conversations.                                                     *)

\* A set that differs in one element at most.
LEMMA OneApart ==
  ASSUME NEW S, NEW T, IsFiniteSet(S), IsFiniteSet(T), NEW x, S \ {x} = T \ {x}
  PROVE  /\ Cardinality(S) \in Nat /\ Cardinality(T) \in Nat
         /\ Cardinality(T) <= Cardinality(S) + 1
         /\ x \in S \/ x \notin T => Cardinality(T) <= Cardinality(S)
         /\ x \in S /\ x \notin T => Cardinality(S) = Cardinality(T) + 1
<1>0. Cardinality(S) \in Nat /\ Cardinality(T) \in Nat
  BY FS_CardinalityType
<1>1. CASE x \in S /\ x \notin T
  <2>1. S = T \cup {x}
    BY <1>1
  <2>2. Cardinality(S) = Cardinality(T) + 1
    BY <1>1, <2>1, FS_AddElement
  <2> QED BY <1>0, <1>1, <2>2
<1>2. CASE x \notin S /\ x \in T
  <2>1. T = S \cup {x}
    BY <1>2
  <2>2. Cardinality(T) = Cardinality(S) + 1
    BY <1>2, <2>1, FS_AddElement
  <2> QED BY <1>0, <1>2, <2>2
<1>3. CASE x \in S <=> x \in T
  <2>1. S = T
    BY <1>3
  <2> QED BY <1>0, <1>3, <2>1
<1> QED BY <1>1, <1>2, <1>3

LEMMA FewConversations ==
  ASSUME NEW S \in SUBSET Conversations
  PROVE  IsFiniteSet(S) /\ Cardinality(S) \in Nat
  BY FS_Subset, FS_CardinalityType

LEMMA CreatingMove ==
  ASSUME Base, NEW h, NEW j, Enters(h, j), Known \subseteq Known'
  PROVE  /\ Creating \in SUBSET Busy /\ Creating' \in SUBSET (Busy')
         /\ Creating \ {h} = Creating' \ {h}
         /\ h \in Creating <=> job[h].pc = "create"
         /\ h \in Creating' <=> j.pc = "create"
  BY EntersFacts DEF Creating, Enters, Busy

LEMMA CreatingFinite ==
  IsFiniteSet(Creating) /\ Cardinality(Creating) \in Nat
  BY HandlersFinite DEF Creating

LEMMA CreatingFiniteNext ==
  IsFiniteSet(Creating') /\ Cardinality(Creating') \in Nat
  BY HandlersFinite DEF Creating

LEMMA OpenOnesFinite ==
  ASSUME Base
  PROVE  IsFiniteSet(OpenOnes) /\ Cardinality(OpenOnes) \in Nat
  BY FewConversations, BaseTyped DEF OpenOnes, Typed

\* A write opens at most the conversation it is about, and counts it.
LEMMA OpenOnesWritten ==
  ASSUME Base, NEW c \in Known, NEW row \in Row, NEW weighed, Writes(c, row, weighed)
  PROVE  /\ Cardinality(OpenOnes') \in Nat
         /\ opened' \in Nat
         /\ Cardinality(OpenOnes') + opened <= Cardinality(OpenOnes) + opened'
<1>1. /\ Known' = Known /\ conv'[c] = row /\ \A d \in Known \ {c} : conv'[d] = conv[d]
      /\ opened' \in Nat /\ opened <= opened'
      /\ row.status \in OpenStatuses /\ conv[c].status \notin OpenStatuses => opened' = opened + 1
  BY WritesFacts
<1>2. OpenOnes \ {c} = OpenOnes' \ {c}
  BY <1>1 DEF OpenOnes
<1>3. IsFiniteSet(OpenOnes) /\ IsFiniteSet(OpenOnes')
  BY <1>1, FewConversations, BaseTyped DEF OpenOnes, Typed
<1>4. c \in OpenOnes' /\ c \notin OpenOnes => opened' = opened + 1
  BY <1>1 DEF OpenOnes
<1>5. opened \in Nat
  BY BaseTyped DEF Typed
<1>6. /\ Cardinality(OpenOnes) \in Nat /\ Cardinality(OpenOnes') \in Nat
      /\ Cardinality(OpenOnes') <= Cardinality(OpenOnes) + 1
      /\ c \in OpenOnes \/ c \notin OpenOnes' => Cardinality(OpenOnes') <= Cardinality(OpenOnes)
  BY <1>2, <1>3, OneApart
<1> HIDE DEF OpenOnes
<1> QED BY <1>1, <1>4, <1>5, <1>6

LEMMA OpenKept == ASSUME Base, OpenOK, Shaped PROVE OpenOK'
<1>0. /\ Cardinality(OpenOnes) \in Nat /\ Cardinality(Creating) \in Nat /\ Cardinality(Creating') \in Nat
      /\ crowd \in Nat /\ opened \in Nat
      /\ Cardinality(OpenOnes) + Cardinality(Creating) <= crowd + opened
  BY OpenOnesFinite, CreatingFinite, CreatingFiniteNext, BaseTyped DEF OpenOK, Typed
<1>1. ASSUME NEW h, NEW j, ReadStep(h, j) PROVE OpenOK'
  <2>1. /\ Enters(h, j) /\ UNCHANGED conv /\ opened' \in {opened, opened + 1}
        /\ j.pc = "create" => OpenOnes = {} \/ opened' = opened + 1
    BY <1>1 DEF ReadStep
  <2>2. Base' /\ Known' = Known /\ crowd <= crowd' /\ crowd' \in Nat
    BY <1>1, ReadKeepsBase DEF Base, TypeOK
  <2>3. OpenOnes' = OpenOnes
    BY <2>1, <2>2 DEF OpenOnes
  <2>4. /\ Creating' \in SUBSET (Busy') /\ Creating \ {h} = Creating' \ {h}
        /\ h \in Creating' <=> j.pc = "create"
    BY <2>1, <2>2, CreatingMove
  <2>5. /\ Cardinality(Creating') <= Cardinality(Creating) + 1
        /\ h \notin Creating' => Cardinality(Creating') <= Cardinality(Creating)
    BY <2>4, CreatingFinite, CreatingFiniteNext, OneApart
  <2>6. Cardinality(Creating') <= crowd'
    BY <2>2, <2>4, AtWorkNext
  <2>7. CASE j.pc # "create"
    BY <1>0, <2>1, <2>2, <2>3, <2>4, <2>5, <2>7 DEF OpenOK
  <2>8. CASE opened' = opened + 1
    BY <1>0, <2>2, <2>3, <2>5, <2>8 DEF OpenOK
  <2>9. CASE OpenOnes = {}
    <3>1. Cardinality(OpenOnes') = 0
      BY <2>3, <2>9, FS_EmptySet
    <3>2. opened' \in Nat
      BY <1>0, <2>1
    <3> QED BY <1>0, <2>2, <2>6, <3>1, <3>2 DEF OpenOK
  <2> QED BY <2>1, <2>7, <2>8, <2>9
<1>2. ASSUME NEW h, NEW j, NEW row, WriteStep(h, j, row) PROVE OpenOK'
  <2>1. /\ Enters(h, j) /\ Writes(job[h].conv, row, job[h].pc = "assign")
        /\ job[h].pc # "create" /\ j.pc # "create"
    BY <1>2 DEF WriteStep
  <2>2. Base' /\ Known' = Known /\ crowd <= crowd' /\ crowd' \in Nat /\ job[h].conv \in Known /\ row \in Row
    BY <1>2, WriteKeepsBase DEF Base, TypeOK
  <2>3. Creating' = Creating
    BY <2>1, <2>2, CreatingMove
  <2>4. /\ Cardinality(OpenOnes') \in Nat /\ opened' \in Nat
        /\ Cardinality(OpenOnes') + opened <= Cardinality(OpenOnes) + opened'
    BY <2>1, <2>2, OpenOnesWritten
  <2> QED BY <1>0, <2>2, <2>3, <2>4 DEF OpenOK
<1>3. ASSUME NEW c, NEW row, HandStep(c, row) PROVE OpenOK'
  <2>1. c \in Known /\ row \in Row /\ Writes(c, row, FALSE) /\ job' = job /\ crowd' = crowd
    BY <1>3 DEF HandStep
  <2>2. Creating' = Creating
    BY <2>1 DEF Creating
  <2>3. /\ Cardinality(OpenOnes') \in Nat /\ opened' \in Nat
        /\ Cardinality(OpenOnes') + opened <= Cardinality(OpenOnes) + opened'
    BY <2>1, OpenOnesWritten
  <2> QED BY <1>0, <2>1, <2>2, <2>3 DEF OpenOK
<1>4. ASSUME NEW h, NEW j, NEW c, NEW row, CreateStep(h, j, c, row) PROVE OpenOK'
  <2>1. Enters(h, j) /\ job[h].pc = "create" /\ j.pc # "create" /\ opened' = opened
    BY <1>4 DEF CreateStep
  <2>2. /\ Base' /\ Known' = Known \cup {c} /\ (\A d \in Known : conv'[d] = conv[d])
        /\ crowd <= crowd' /\ crowd' \in Nat
    BY <1>4, CreateKeepsBase DEF Base, TypeOK
  <2>3. Creating \ {h} = Creating' \ {h} /\ h \in Creating /\ h \notin Creating'
    BY <2>1, <2>2, CreatingMove
  <2>4. Cardinality(Creating) = Cardinality(Creating') + 1
    BY <2>3, CreatingFinite, CreatingFiniteNext, OneApart
  <2>5. OpenOnes \ {c} = OpenOnes' \ {c}
    BY <2>2 DEF OpenOnes
  <2>6. IsFiniteSet(OpenOnes) /\ IsFiniteSet(OpenOnes')
    <3>1. Known' \in SUBSET Conversations
      BY <2>2 DEF Base, TypeOK, Known
    <3>2. OpenOnes' \in SUBSET Conversations
      BY <3>1 DEF OpenOnes
    <3> QED BY <3>2, FewConversations, OpenOnesFinite
  <2>7. Cardinality(OpenOnes') <= Cardinality(OpenOnes) + 1 /\ Cardinality(OpenOnes') \in Nat
    BY <2>5, <2>6, OneApart
  <2> QED BY <1>0, <2>1, <2>2, <2>4, <2>7 DEF OpenOK
<1>5. ASSUME RestStep PROVE OpenOK'
  BY <1>5 DEF RestStep, OpenOK, OpenOnes, Known, Creating
<1> QED BY <1>1, <1>2, <1>3, <1>4, <1>5 DEF Shaped

LEMMA OpenOKHolds == Spec => []OpenOK
<1>1. Init => OpenOK
  <2> SUFFICES ASSUME Init PROVE OpenOK
    OBVIOUS
  <2>1. OpenOnes = {} /\ Creating = {} /\ crowd = 0 /\ opened = 0
    BY DEF Init, OpenOnes, Known, Creating, NoJob
  <2> QED BY <2>1, FS_EmptySet DEF OpenOK
<1>2. Base /\ OpenOK /\ [Next]_vars => OpenOK'
  <2>1. ASSUME OpenOK, UNCHANGED vars PROVE OpenOK'
    BY <2>1 DEF OpenOK, OpenOnes, Known, Creating, vars, history
  <2> QED BY <2>1, StepShaped, OpenKept
<1> QED BY <1>1, <1>2, BaseHolds, PTL DEF Spec

\* Beside those opened again or by request, a customer has at most as many open
\* conversations as handlers were in flight at the same time.
THEOREM OpenBoundedHolds == Spec => []OpenBounded
<1>1. Base /\ OpenOK => OpenBounded
  <2> SUFFICES ASSUME Base, OpenOK PROVE Cardinality(OpenOnes) <= crowd + opened
    BY DEF OpenBounded, OpenOnes
  <2>1. /\ Cardinality(OpenOnes) + Cardinality(Creating) <= crowd + opened
        /\ Cardinality(OpenOnes) \in Nat /\ Cardinality(Creating) \in Nat
        /\ crowd \in Nat /\ opened \in Nat
    BY OpenOnesFinite, CreatingFinite, BaseTyped DEF OpenOK, Typed
  <2> QED BY <2>1
<1> QED BY <1>1, BaseHolds, OpenOKHolds, PTL

-----------------------------------------------------------------------------
(* The loads of agents.                                                    *)

Chats(a) == {c \in Known : Serves(a, conv[c])}

LEMMA ChatsFinite ==
  ASSUME Base, NEW a
  PROVE  IsFiniteSet(Chats(a)) /\ Cardinality(Chats(a)) \in Nat /\ Load(a) = Cardinality(Chats(a))
<1>1. Chats(a) \in SUBSET Conversations
  BY BaseTyped DEF Chats, Typed
<1> QED BY <1>1, FewConversations DEF Load, Chats

LEMMA ChatsFiniteNext ==
  ASSUME Base', NEW a
  PROVE  IsFiniteSet(Chats(a)') /\ Cardinality(Chats(a)') \in Nat /\ Load(a)' = Cardinality(Chats(a)')
<1>1. Chats(a)' \in SUBSET Conversations
  BY DEF Chats, Base, TypeOK, Known
<1> QED BY <1>1, FewConversations DEF Load, Chats

\* The slack is a number and grows with the crowd.
LEMMA SlackGrows ==
  ASSUME NEW a \in Agents, NEW n \in Nat, NEW m \in Nat, n <= m
  PROVE  /\ Slack(a, n) \in Nat /\ Slack(a, m) \in Nat /\ Slack(a, n) <= Slack(a, m)
         /\ n # 0 => Slack(a, n) = MaxChats[a] - 1 + n
<1>1. MaxChats[a] \in Nat \ {0}
  OBVIOUS
<1> QED BY <1>1 DEF Slack

\* A write gives an agent at most one chat more, which was weighed or is counted.
LEMMA LoadWritten ==
  ASSUME Base, Base', NEW c \in Known, NEW row \in Row, NEW weighed, Writes(c, row, weighed),
         NEW a \in Agents
  PROVE  /\ Load(a) \in Nat /\ Load(a)' \in Nat /\ unchecked[a] \in Nat /\ unchecked'[a] \in Nat
         /\ \/ Load(a)' + unchecked[a] <= Load(a) + unchecked'[a]
            \/ /\ weighed /\ row.owner = a
               /\ Load(a)' <= Load(a) + 1 /\ unchecked'[a] = unchecked[a]
<1>1. /\ Known' = Known /\ conv'[c] = row /\ \A d \in Known \ {c} : conv'[d] = conv[d]
      /\ unchecked' \in [Agents -> Nat]
  BY WritesFacts
<1>2. unchecked \in [Agents -> Nat] /\ unchecked[a] \in Nat /\ unchecked'[a] \in Nat
  BY <1>1, BaseTyped DEF Typed
<1>3. unchecked'[a] = IF ~weighed /\ Serves(a, row) /\ ~Serves(a, conv[c]) THEN unchecked[a] + 1 ELSE unchecked[a]
  BY DEF Writes
<1>4. /\ Chats(a) \ {c} = Chats(a)' \ {c}
      /\ c \in Chats(a) <=> Serves(a, conv[c])
      /\ c \in Chats(a)' <=> Serves(a, row)
  BY <1>1 DEF Chats
<1>5. /\ IsFiniteSet(Chats(a)) /\ Load(a) = Cardinality(Chats(a))
      /\ IsFiniteSet(Chats(a)') /\ Load(a)' = Cardinality(Chats(a)')
  BY ChatsFinite, ChatsFiniteNext
<1>6. /\ Load(a) \in Nat /\ Load(a)' \in Nat /\ Load(a)' <= Load(a) + 1
      /\ c \in Chats(a) \/ c \notin Chats(a)' => Load(a)' <= Load(a)
  BY <1>4, <1>5, OneApart
<1>7. CASE c \in Chats(a) \/ c \notin Chats(a)'
  BY <1>2, <1>3, <1>6, <1>7
<1>8. CASE c \notin Chats(a) /\ c \in Chats(a)'
  <2>1. Serves(a, row) /\ ~Serves(a, conv[c]) /\ row.owner = a
    BY <1>4, <1>8 DEF Serves
  <2>2. CASE weighed
    BY <1>2, <1>3, <1>6, <2>1, <2>2
  <2>3. CASE ~weighed
    BY <1>2, <1>3, <1>6, <2>1, <2>3
  <2> QED BY <2>2, <2>3
<1> QED BY <1>7, <1>8

LEMMA ChoosingFinite ==
  ASSUME NEW a PROVE IsFiniteSet(Choosing(a)) /\ Cardinality(Choosing(a)) \in Nat
  BY HandlersFinite DEF Choosing

LEMMA ChoosingFiniteNext ==
  ASSUME NEW a PROVE IsFiniteSet(Choosing(a)') /\ Cardinality(Choosing(a)') \in Nat
  BY HandlersFinite DEF Choosing

LEMMA ChoosingMove ==
  ASSUME Base, NEW h, NEW j, Enters(h, j), Known \subseteq Known', NEW a
  PROVE  /\ Choosing(a)' \in SUBSET (Busy')
         /\ Choosing(a) \ {h} = Choosing(a)' \ {h}
         /\ h \in Choosing(a) <=> job[h].pc = "assign" /\ job[h].pick = a
         /\ h \in Choosing(a)' <=> j.pc = "assign" /\ j.pick = a
  BY EntersFacts DEF Choosing, Enters, Busy

LEMMA ChoosingCounts ==
  ASSUME Base, NEW h, NEW j, Enters(h, j), Known \subseteq Known', NEW a
  PROVE  /\ Cardinality(Choosing(a)') <= Cardinality(Choosing(a)) + 1
         /\ h \in Choosing(a) \/ h \notin Choosing(a)' => Cardinality(Choosing(a)') <= Cardinality(Choosing(a))
         /\ h \in Choosing(a) /\ h \notin Choosing(a)' => Cardinality(Choosing(a)) = Cardinality(Choosing(a)') + 1
<1>1. Choosing(a) \ {h} = Choosing(a)' \ {h}
  BY ChoosingMove
<1> QED BY <1>1, ChoosingFinite, ChoosingFiniteNext, OneApart

LEMMA LoadsKept == ASSUME Base, LoadsOK, Shaped PROVE LoadsOK'
<1> DEFINE Room(a) == Load(a) + Cardinality(Choosing(a)) <= unchecked[a] + Slack(a, crowd)
<1>0. ASSUME NEW a \in Agents
      PROVE  /\ Load(a) \in Nat /\ Cardinality(Choosing(a)) \in Nat /\ Cardinality(Choosing(a)') \in Nat
             /\ unchecked[a] \in Nat /\ crowd \in Nat /\ Slack(a, crowd) \in Nat
             /\ Load(a) + Cardinality(Choosing(a)) <= unchecked[a] + Slack(a, crowd)
  <2>1. Load(a) \in Nat
    BY ChatsFinite
  <2>2. unchecked[a] \in Nat /\ crowd \in Nat
    BY BaseTyped DEF Typed
  <2>3. Slack(a, crowd) \in Nat
    BY <2>2, SlackGrows
  <2> QED BY <2>1, <2>2, <2>3, ChoosingFinite, ChoosingFiniteNext DEF LoadsOK
\* The slack of the next state is no less.
<1>s. ASSUME Base', crowd <= crowd', NEW a \in Agents
      PROVE  Slack(a, crowd)' \in Nat /\ Slack(a, crowd) <= Slack(a, crowd)' /\ crowd' \in Nat
  <2>1. crowd \in Nat /\ crowd' \in Nat
    BY <1>s DEF Base, TypeOK
  <2>2. Slack(a, crowd)' = Slack(a, crowd')
    BY DEF Slack
  <2> QED BY <1>s, <2>1, <2>2, SlackGrows
\* A handler moves and no row is written.
<1>1. ASSUME NEW h, NEW j, Enters(h, j), Base', Known \subseteq Known', crowd <= crowd', NEW a \in Agents,
             Load(a)' = Load(a), unchecked' = unchecked,
             j.pc = "assign" => Load(j.pick) < MaxChats[j.pick]
      PROVE  Room(a)'
  <2>1. Slack(a, crowd)' \in Nat /\ Slack(a, crowd) <= Slack(a, crowd)' /\ crowd' \in Nat
    BY <1>1, <1>s
  <2>2. CASE h \in Choosing(a)'
    <3>1. Load(a) < MaxChats[a]
      BY <1>1, <2>2, ChoosingMove
    <3>2. Choosing(a)' \in SUBSET (Busy')
      BY <1>1, ChoosingMove
    <3>3. Cardinality(Choosing(a)') <= crowd'
      BY <1>1, <3>2, AtWorkNext
    <3>4. Cardinality(Choosing(a)') # 0
      BY <2>2, ChoosingFiniteNext, FS_EmptySet
    <3>5. crowd' # 0
      BY <1>0, <2>1, <3>3, <3>4
    <3>6. Slack(a, crowd)' = MaxChats[a] - 1 + crowd'
      BY <3>5 DEF Slack
    <3>7. MaxChats[a] \in Nat
      OBVIOUS
    <3> QED BY <1>0, <1>1, <2>1, <3>1, <3>3, <3>6, <3>7
  <2>3. CASE h \notin Choosing(a)'
    <3>1. Cardinality(Choosing(a)') <= Cardinality(Choosing(a))
      BY <1>1, <2>3, ChoosingCounts
    <3> QED BY <1>0, <1>1, <2>1, <3>1
  <2> QED BY <2>2, <2>3
<1>3. ASSUME NEW h, NEW j, ReadStep(h, j) PROVE LoadsOK'
  <2>1. /\ Enters(h, j) /\ conv' = conv /\ unchecked' = unchecked
        /\ j.pc = "assign" => Load(j.pick) < MaxChats[j.pick]
    BY <1>3 DEF ReadStep
  <2>2. Base' /\ Known' = Known /\ crowd <= crowd'
    BY <1>3, ReadKeepsBase
  <2>3. ASSUME NEW a \in Agents PROVE Load(a)' = Load(a)
    BY <2>1, <2>2 DEF Load
  <2> QED BY <1>1, <2>1, <2>2, <2>3 DEF LoadsOK
<1>4. ASSUME NEW h, NEW j, NEW row, WriteStep(h, j, row) PROVE LoadsOK'
  <2>1. /\ Enters(h, j) /\ Writes(job[h].conv, row, job[h].pc = "assign") /\ j.pc # "assign"
        /\ job[h].pc = "assign" => row.owner = job[h].pick
    BY <1>4 DEF WriteStep
  <2>2. Base' /\ Known' = Known /\ crowd <= crowd' /\ job[h].conv \in Known /\ row \in Row
    BY <1>4, WriteKeepsBase
  <2>3. ASSUME NEW a \in Agents PROVE Room(a)'
    <3>1. /\ Load(a)' \in Nat /\ unchecked'[a] \in Nat
          /\ \/ Load(a)' + unchecked[a] <= Load(a) + unchecked'[a]
             \/ /\ job[h].pc = "assign" /\ row.owner = a
                /\ Load(a)' <= Load(a) + 1 /\ unchecked'[a] = unchecked[a]
      <4>1. PICK weighed \in BOOLEAN : weighed = (job[h].pc = "assign")
        OBVIOUS
      <4>2. Writes(job[h].conv, row, weighed)
        BY <2>1, <4>1
      <4>3. /\ Load(a)' \in Nat /\ unchecked'[a] \in Nat
            /\ \/ Load(a)' + unchecked[a] <= Load(a) + unchecked'[a]
               \/ /\ weighed /\ row.owner = a
                  /\ Load(a)' <= Load(a) + 1 /\ unchecked'[a] = unchecked[a]
        BY <2>2, <4>2, LoadWritten
      <4> QED BY <4>1, <4>3
    <3>2. Slack(a, crowd)' \in Nat /\ Slack(a, crowd) <= Slack(a, crowd)'
      BY <2>2, <1>s
    <3>3. h \notin Choosing(a)'
      BY <2>1, <2>2, ChoosingMove
    <3>4. CASE Load(a)' + unchecked[a] <= Load(a) + unchecked'[a]
      <4>1. Cardinality(Choosing(a)') <= Cardinality(Choosing(a))
        BY <2>1, <2>2, <3>3, ChoosingCounts
      <4> QED BY <1>0, <3>1, <3>2, <3>4, <4>1
    <3>5. CASE /\ job[h].pc = "assign" /\ row.owner = a
               /\ Load(a)' <= Load(a) + 1 /\ unchecked'[a] = unchecked[a]
      <4>1. h \in Choosing(a)
        BY <2>1, <2>2, <3>5, ChoosingMove
      <4>2. Cardinality(Choosing(a)) = Cardinality(Choosing(a)') + 1
        BY <2>1, <2>2, <3>3, <4>1, ChoosingCounts
      <4> QED BY <1>0, <3>1, <3>2, <3>5, <4>2
    <3> QED BY <3>1, <3>4, <3>5
  <2> QED BY <2>3 DEF LoadsOK
<1>5. ASSUME NEW c, NEW row, HandStep(c, row) PROVE LoadsOK'
  <2>1. c \in Known /\ row \in Row /\ Writes(c, row, FALSE) /\ job' = job /\ crowd' = crowd
    BY <1>5 DEF HandStep
  <2>2. Base'
    BY <1>5, HandKeepsBase
  <2>3. ASSUME NEW a \in Agents PROVE Room(a)'
    <3>1. /\ Load(a)' \in Nat /\ unchecked'[a] \in Nat
          /\ Load(a)' + unchecked[a] <= Load(a) + unchecked'[a]
      BY <2>1, <2>2, LoadWritten
    <3>2. Slack(a, crowd)' = Slack(a, crowd) /\ Choosing(a)' = Choosing(a)
      BY <2>1 DEF Slack, Choosing
    <3> QED BY <1>0, <3>1, <3>2
  <2> QED BY <2>3 DEF LoadsOK
<1>6. ASSUME NEW h, NEW j, NEW c, NEW row, CreateStep(h, j, c, row) PROVE LoadsOK'
  <2>1. Enters(h, j) /\ j.pc = "announce" /\ unchecked' = unchecked /\ row.owner = Nobody
    BY <1>6 DEF CreateStep
  <2>2. /\ Base' /\ Known' = Known \cup {c} /\ conv'[c] = row /\ (\A d \in Known : conv'[d] = conv[d])
        /\ crowd <= crowd' /\ c \notin Known
    BY <1>6, CreateKeepsBase DEF CreateStep
  <2>3. ASSUME NEW a \in Agents PROVE Load(a)' = Load(a)
    <3>1. ~Serves(a, conv'[c])
      BY <2>1, <2>2 DEF Serves
    <3> QED BY <2>2, <3>1 DEF Load
  <2> QED BY <1>1, <2>1, <2>2, <2>3 DEF LoadsOK
<1>7. ASSUME RestStep PROVE LoadsOK'
  BY <1>7 DEF RestStep, LoadsOK, Load, Choosing, Slack, Known
<1> QED BY <1>3, <1>4, <1>5, <1>6, <1>7 DEF Shaped

LEMMA LoadsOKHolds == Spec => []LoadsOK
<1>1. Init => LoadsOK
  <2> SUFFICES ASSUME Init, NEW a \in Agents
               PROVE  Load(a) + Cardinality(Choosing(a)) <= unchecked[a] + Slack(a, crowd)
    BY DEF LoadsOK
  <2>1. Chats(a) = {} /\ Choosing(a) = {} /\ crowd = 0 /\ unchecked[a] = 0
    BY DEF Init, Chats, Known, Choosing, NoJob
  <2>2. Load(a) = 0 /\ Cardinality(Choosing(a)) = 0
    BY <2>1, FS_EmptySet DEF Load, Chats
  <2> QED BY <2>1, <2>2 DEF Slack
<1>2. Base /\ LoadsOK /\ [Next]_vars => LoadsOK'
  <2>1. ASSUME LoadsOK, UNCHANGED vars PROVE LoadsOK'
    BY <2>1 DEF LoadsOK, Load, Known, Choosing, Slack, vars, history
  <2> QED BY <2>1, StepShaped, LoadsKept
<1> QED BY <1>1, <1>2, BaseHolds, PTL DEF Spec

\* Routing alone takes no agent past the ceiling by more chats than handlers were
\* in flight beside the one that chose rightly.
THEOREM OvershootBoundedHolds == Spec => []OvershootBounded
<1>1. Base /\ LoadsOK => OvershootBounded
  <2> SUFFICES ASSUME Base, LoadsOK, NEW a \in Agents PROVE Load(a) <= unchecked[a] + Slack(a, crowd)
    BY DEF OvershootBounded, Slack
  <2>1. /\ Load(a) + Cardinality(Choosing(a)) <= unchecked[a] + Slack(a, crowd)
        /\ Cardinality(Choosing(a)) \in Nat
    BY ChoosingFinite DEF LoadsOK
  <2>2. Load(a) \in Nat /\ unchecked[a] \in Nat /\ crowd \in Nat
    BY ChatsFinite, BaseTyped DEF Typed
  <2>3. Slack(a, crowd) \in Nat
    BY <2>2, SlackGrows
  <2> QED BY <2>1, <2>2, <2>3
<1> QED BY <1>1, BaseHolds, LoadsOKHolds, PTL

-----------------------------------------------------------------------------
(* What arrived is not lost.                                               *)

\* Nobody but h moves.
Others(h) == \A g \in Handlers \ {h} : job'[g] = job[g]

LEMMA GoesFacts ==
  ASSUME Base, NEW h \in Handlers, NEW j, Goes(h, j)
  PROVE  job'[h] = j /\ Others(h)
  BY BaseTyped DEF Goes, Others

LEMMA TurnFacts ==
  ASSUME Base, NEW h \in Handlers, NEW list, Turn(h, list)
  PROVE  Others(h)
  BY GoesFacts DEF Turn

\* Every way of being on the way is kept, or leads to another.
LEMMA ArrivalsStay ==
  ASSUME ArrivalsOK, Known' = Known, NEW h \in Handlers, Others(h), aside \subseteq aside',
         \A d \in Known : InPlace(d) => InPlace(d)' \/ d \in aside',
         \A d \in Known : <<"created", d>> \in pending => <<"created", d>> \in pending' \/ Carries(job'[h], d),
         \A d \in Known : Carries(job[h], d) =>
                            \/ Carries(job'[h], d) \/ <<"created", d>> \in pending'
                            \/ InPlace(d)' \/ d \in aside'
  PROVE  ArrivalsOK'
<1> SUFFICES ASSUME NEW d \in Known PROVE Arrived(d)'
  BY DEF ArrivalsOK
<1>1. Arrived(d)
  BY DEF ArrivalsOK
<1>2. CASE d \in aside
  BY <1>2 DEF Arrived
<1>3. CASE InPlace(d)
  BY <1>3 DEF Arrived
<1>4. CASE <<"created", d>> \in pending
  BY <1>4 DEF Arrived
<1>5. ASSUME NEW g \in Handlers, Carries(job[g], d) PROVE Arrived(d)'
  <2>1. CASE g = h
    BY <1>5, <2>1 DEF Arrived
  <2>2. CASE g # h
    <3>1. Carries(job'[g], d)
      BY <1>5, <2>2 DEF Others
    <3> QED BY <3>1 DEF Arrived
  <2> QED BY <2>1, <2>2
<1> QED BY <1>1, <1>2, <1>3, <1>4, <1>5 DEF Arrived

\* A handler that carries nothing moves, and no row is written.
LEMMA ArrivalsApart ==
  ASSUME Base, ArrivalsOK, NEW h \in Handlers, Others(h), conv' = conv,
         aside' = aside, pending \subseteq pending', job[h].pc \notin {"announce"} \cup RoutingPCs
  PROVE  ArrivalsOK'
<1>1. Known' = Known /\ \A d \in Known : InPlace(d)' <=> InPlace(d)
  BY DEF Known, InPlace
<1> QED BY <1>1, ArrivalsStay DEF Carries

\* A write leaves a conversation in its place.
LEMMA PlaceWritten ==
  ASSUME Base, NEW c \in Known, NEW row \in Row, NEW weighed, Writes(c, row, weighed),
         conv[c].placed => row.placed \/ c \in aside',
         row.status = "new" => conv[c].status = "new"
  PROVE  Known' = Known /\ \A d \in Known : InPlace(d) => InPlace(d)' \/ d \in aside'
<1>1. Known' = Known /\ conv'[c] = row /\ \A d \in Known \ {c} : conv'[d] = conv[d]
  BY WritesFacts
<1> QED BY <1>1 DEF InPlace

\* A handler that carries nothing writes the row of its conversation.
LEMMA ArrivalsWritten ==
  ASSUME Base, ArrivalsOK, NEW h \in Handlers, Others(h), NEW c \in Known, NEW row \in Row,
         Writes(c, row, FALSE), row.placed = conv[c].placed,
         row.status = "new" => conv[c].status = "new",
         aside' = aside, pending \subseteq pending', job[h].pc \notin {"announce"} \cup RoutingPCs
  PROVE  ArrivalsOK'
<1>1. Known' = Known /\ \A d \in Known : InPlace(d) => InPlace(d)' \/ d \in aside'
  BY PlaceWritten
<1> QED BY <1>1, ArrivalsStay DEF Carries

\* A row is written at one go.
LEMMA ArrivalsByHand ==
  ASSUME Base, ArrivalsOK, NEW c \in Known, NEW row \in Row, Writes(c, row, FALSE),
         conv[c].placed => row.placed, row.status = "new" => conv[c].status = "new",
         UNCHANGED <<job, pending, aside>>
  PROVE  ArrivalsOK'
<1>1. Known' = Known /\ \A d \in Known : InPlace(d) => InPlace(d)' \/ d \in aside'
  BY PlaceWritten
<1> SUFFICES ASSUME NEW d \in Known PROVE Arrived(d)'
  BY <1>1 DEF ArrivalsOK
<1> QED BY <1>1 DEF Arrived, ArrivalsOK

LEMMA LooksKeepArrivals ==
  ASSUME Base, ArrivalsOK, NEW h \in Handlers,
         \/ Finds(h) \/ Takes(h) \/ Drafts(h) \/ Activates(h) \/ Request(h)
  PROVE  ArrivalsOK'
<1>1. conv' = conv /\ aside' = aside /\ pending' = pending
  BY DEF Finds, Takes, Drafts, Activates, Request, Receives, Replies, AsksRoute, AsksStatus, Opens,
         AsksDrain, HearsAgain, Silently, history
<1>2. job[h].pc \notin {"announce"} \cup RoutingPCs
  BY DEF Finds, Takes, Drafts, Activates, Request, Receives, Replies, AsksRoute, AsksStatus, Opens,
         AsksDrain, HearsAgain, Listens, Starts, Idle, RoutingPCs
<1>3. Others(h)
  <2>1. CASE \/ Finds(h) \/ Takes(h) \/ Drafts(h) \/ Activates(h)
    BY <2>1, GoesFacts DEF Finds, Takes, Drafts, Activates
  <2>2. CASE Request(h)
    BY <2>2, GoesFacts, TurnFacts
       DEF Request, Receives, Replies, AsksRoute, AsksStatus, Opens, AsksDrain, HearsAgain, Starts, Listens
  <2> QED BY <2>1, <2>2
<1> QED BY <1>1, <1>2, <1>3, ArrivalsApart

LEMMA StoresKeepsArrivals ==
  ASSUME Base, ArrivalsOK, NEW h \in Handlers, Stores(h) PROVE ArrivalsOK'
<1> DEFINE c == job[h].conv
           row == Heard(conv[c], job[h].status)
<1>0. /\ job[h].pc = "store" /\ Goes(h, NoJob) /\ Writes(c, row, FALSE)
      /\ pending' = pending /\ aside' = aside
  BY DEF Stores, Silently
<1>1. c \in Known
  BY <1>0, HandlerFits DEF JobOK, RowPCs
<1>2. row \in Row /\ row.placed = conv[c].placed /\ (row.status = "new" => conv[c].status = "new")
  BY <1>1, RowFits DEF Heard, Row, Statuses
<1> HIDE DEF row
<1> QED BY <1>0, <1>1, <1>2, GoesFacts, ArrivalsWritten DEF RoutingPCs

LEMMA SendsKeepsArrivals ==
  ASSUME Base, ArrivalsOK, NEW h \in Handlers, Sends(h) PROVE ArrivalsOK'
<1> DEFINE c == job[h].conv
           row == Stamped(conv[c], job[h].first)
<1>0. /\ job[h].pc = "send" /\ Writes(c, row, FALSE) /\ \E j : Goes(h, j)
      /\ pending' = pending /\ aside' = aside
  BY DEF Sends, Silently
<1>1. c \in Known
  BY <1>0, HandlerFits DEF JobOK, RowPCs
<1>2. row \in Row /\ row.placed = conv[c].placed /\ (row.status = "new" => conv[c].status = "new")
  BY <1>1, RowFits DEF Stamped, Row
<1> HIDE DEF row
<1> QED BY <1>0, <1>1, <1>2, GoesFacts, ArrivalsWritten DEF RoutingPCs

LEMMA SetsStatusKeepsArrivals ==
  ASSUME Base, ArrivalsOK, NEW h \in Handlers, SetsStatus(h) PROVE ArrivalsOK'
<1> DEFINE c == job[h].conv
           row == [conv[c] EXCEPT !.status = job[h].status]
<1>0. /\ job[h].pc = "status" /\ Writes(c, row, FALSE) /\ \E j : Goes(h, j)
      /\ pending \subseteq pending' /\ aside' = aside
  BY DEF SetsStatus, Publishes
<1>1. c \in Known /\ job[h].status # "new" /\ job[h].status \in Statuses
  BY <1>0, HandlerFits DEF JobOK, RowPCs, Job
<1>2. row \in Row /\ row.placed = conv[c].placed /\ row.status # "new"
  BY <1>1, RowFits DEF Row
<1> HIDE DEF row
<1> QED BY <1>0, <1>1, <1>2, GoesFacts, ArrivalsWritten DEF RoutingPCs

LEMMA HandsKeepArrivals ==
  ASSUME Base, ArrivalsOK, NEW c \in Conversations,
         \/ \E who \in Owners : Assigns(c, who)
         \/ Transfers(c)
         \/ \E a \in Agents : Escalates(c, a)
  PROVE  ArrivalsOK'
<1>0. c \in Known /\ UNCHANGED <<job, pending, aside>>
  BY DEF Assigns, Transfers, Escalates, Silently
<1>1. conv[c] \in Row /\ conv[c].placed \in BOOLEAN /\ Nobody \in Owners
  BY <1>0, RowFits DEF Row, Owners
<1>2. ASSUME NEW who \in Owners, Assigns(c, who) PROVE ArrivalsOK'
  <2>1. Writes(c, Assigned(conv[c], who), FALSE)
    BY <1>2 DEF Assigns
  <2> QED BY <1>0, <1>1, <2>1, AssignedFits, ArrivalsByHand
<1>3. ASSUME Transfers(c) PROVE ArrivalsOK'
  <2>1. PICK placed \in {TRUE, conv[c].placed} :
          Writes(c, [Assigned(conv[c], Nobody) EXCEPT !.placed = placed], FALSE)
    BY <1>3 DEF Transfers
  <2> DEFINE row == [Assigned(conv[c], Nobody) EXCEPT !.placed = placed]
  <2>2. Assigned(conv[c], Nobody) \in Row /\ Assigned(conv[c], Nobody).status # "new" /\ placed \in BOOLEAN
    BY <1>1, AssignedFits
  <2>3. row \in Row /\ row.placed = placed /\ row.status # "new"
    BY <2>2 DEF Row
  <2>4. Writes(c, row, FALSE)
    BY <2>1
  <2> HIDE DEF row
  <2> QED BY <1>0, <2>1, <2>3, <2>4, ArrivalsByHand
<1>4. ASSUME NEW a \in Agents, Escalates(c, a) PROVE ArrivalsOK'
  <2> DEFINE row == [conv[c] EXCEPT !.owner = a]
  <2>1. row \in Row /\ row.placed = conv[c].placed /\ row.status = conv[c].status
    BY <1>1 DEF Row, Owners
  <2>2. Writes(c, row, FALSE)
    BY <1>4 DEF Escalates
  <2> HIDE DEF row
  <2> QED BY <1>0, <2>1, <2>2, ArrivalsByHand
<1> QED BY <1>2, <1>3, <1>4

LEMMA CreatesKeepsArrivals ==
  ASSUME Base, ArrivalsOK, NEW h \in Handlers, Creates(h) PROVE ArrivalsOK'
<1>1. job[h].pc = "create" /\ UNCHANGED <<pending, aside>>
  BY DEF Creates, Silently, history
<1>2. PICK c \in Conversations \ Known, placed \in BOOLEAN :
        /\ conv' = [d \in Known \cup {c} |->
             IF d = c THEN [status |-> "new", owner |-> Nobody, placed |-> placed, stamps |-> 0]
             ELSE conv[d]]
        /\ Goes(h, [job[h] EXCEPT !.pc = "announce", !.conv = c])
  BY DEF Creates
<1>3. Known' = Known \cup {c} /\ \A d \in Known : conv'[d] = conv[d]
  BY <1>2 DEF Known
<1> DEFINE j == [job[h] EXCEPT !.pc = "announce", !.conv = c]
<1>4. j.pc = "announce" /\ j.conv = c
  BY HandlerFits DEF Job
<1>5. Goes(h, j)
  BY <1>2
<1> HIDE DEF j
<1>6. job'[h] = j /\ Others(h)
  BY <1>5, GoesFacts
<1>7. Arrived(c)'
  BY <1>4, <1>6 DEF Arrived, Carries
<1>8. ASSUME NEW d \in Known PROVE Arrived(d)'
  <2>1. ~Carries(job[h], d)
    BY <1>1 DEF Carries, RoutingPCs
  <2>2. ASSUME NEW g \in Handlers, Carries(job[g], d) PROVE Carries(job'[g], d)
    BY <1>6, <2>1, <2>2 DEF Others
  <2>3. InPlace(d) => InPlace(d)'
    BY <1>3 DEF InPlace
  <2> QED BY <1>1, <2>2, <2>3 DEF ArrivalsOK, Arrived
<1> QED BY <1>3, <1>7, <1>8 DEF ArrivalsOK

LEMMA AnnouncesKeepsArrivals ==
  ASSUME Base, ArrivalsOK, NEW h \in Handlers, Announces(h) PROVE ArrivalsOK'
<1>1. /\ conv' = conv /\ aside' = aside /\ \E j : Goes(h, j)
      /\ pending' = pending \cup {<<"created", job[h].conv>>}
  BY DEF Announces, Publishes, history
<1>2. Known' = Known /\ \A d \in Known : InPlace(d)' <=> InPlace(d)
  BY <1>1 DEF Known, InPlace
<1>3. \A d \in Known : Carries(job[h], d) => <<"created", d>> \in pending'
  BY <1>1 DEF Carries
<1>4. Others(h)
  BY <1>1, GoesFacts
<1> QED BY <1>1, <1>2, <1>3, <1>4, ArrivalsStay

LEMMA ChoicesKeepArrivals ==
  ASSUME Base, ArrivalsOK, NEW h \in Handlers, Offers(h) \/ Weighs(h) PROVE ArrivalsOK'
<1>1. conv' = conv /\ aside' = aside /\ pending' = pending /\ \E j : Goes(h, j)
  BY DEF Offers, Weighs, Silently, history
<1>2. Known' = Known /\ \A d \in Known : InPlace(d)' <=> InPlace(d)
  BY <1>1 DEF Known, InPlace
<1>3. job'[h].conv = job[h].conv /\ job'[h].pc \in RoutingPCs
  <2>0. job[h] \in Job
    BY HandlerFits
  <2>1. ASSUME NEW who, Goes(h, [job[h] EXCEPT !.pc = "appoint", !.pick = who])
        PROVE  job'[h].conv = job[h].conv /\ job'[h].pc \in RoutingPCs
    <3> DEFINE j == [job[h] EXCEPT !.pc = "appoint", !.pick = who]
    <3>1. j.conv = job[h].conv /\ j.pc \in RoutingPCs
      BY <2>0 DEF RoutingPCs, Job
    <3>2. Goes(h, j)
      BY <2>1
    <3> HIDE DEF j
    <3> QED BY <3>1, <3>2, GoesFacts
  <2>2. ASSUME Goes(h, [job[h] EXCEPT !.pc = "park"])
        PROVE  job'[h].conv = job[h].conv /\ job'[h].pc \in RoutingPCs
    <3> DEFINE j == [job[h] EXCEPT !.pc = "park"]
    <3>1. j.conv = job[h].conv /\ j.pc \in RoutingPCs
      BY <2>0 DEF RoutingPCs, Job
    <3>2. Goes(h, j)
      BY <2>2
    <3> HIDE DEF j
    <3> QED BY <3>1, <3>2, GoesFacts
  <2>3. ASSUME Goes(h, [job[h] EXCEPT !.pc = "weigh", !.from = present])
        PROVE  job'[h].conv = job[h].conv /\ job'[h].pc \in RoutingPCs
    <3> DEFINE j == [job[h] EXCEPT !.pc = "weigh", !.from = present]
    <3>1. j.conv = job[h].conv /\ j.pc \in RoutingPCs
      BY <2>0 DEF RoutingPCs, Job
    <3>2. Goes(h, j)
      BY <2>3
    <3> HIDE DEF j
    <3> QED BY <3>1, <3>2, GoesFacts
  <2>4. ASSUME Goes(h, [job[h] EXCEPT !.pc = "park", !.from = {}])
        PROVE  job'[h].conv = job[h].conv /\ job'[h].pc \in RoutingPCs
    <3> DEFINE j == [job[h] EXCEPT !.pc = "park", !.from = {}]
    <3>1. j.conv = job[h].conv /\ j.pc \in RoutingPCs
      BY <2>0 DEF RoutingPCs, Job
    <3>2. Goes(h, j)
      BY <2>4
    <3> HIDE DEF j
    <3> QED BY <3>1, <3>2, GoesFacts
  <2>5. ASSUME NEW a, Goes(h, [job[h] EXCEPT !.pc = "assign", !.from = {}, !.pick = a])
        PROVE  job'[h].conv = job[h].conv /\ job'[h].pc \in RoutingPCs
    <3> DEFINE j == [job[h] EXCEPT !.pc = "assign", !.from = {}, !.pick = a]
    <3>1. j.conv = job[h].conv /\ j.pc \in RoutingPCs
      BY <2>0 DEF RoutingPCs, Job
    <3>2. Goes(h, j)
      BY <2>5
    <3> HIDE DEF j
    <3> QED BY <3>1, <3>2, GoesFacts
  <2>6. CASE Offers(h)
    BY <2>1, <2>2, <2>3, <2>6 DEF Offers
  <2>7. CASE Weighs(h)
    BY <2>4, <2>5, <2>7 DEF Weighs
  <2> QED BY <2>6, <2>7
<1>4. \A d \in Known : Carries(job[h], d) => Carries(job'[h], d)
  BY <1>3 DEF Carries
<1>5. Others(h)
  BY <1>1, GoesFacts
<1> QED BY <1>1, <1>2, <1>4, <1>5, ArrivalsStay

LEMMA RouteAssignsKeepsArrivals ==
  ASSUME Base, ArrivalsOK, NEW h \in Handlers, RouteAssigns(h) PROVE ArrivalsOK'
<1>c. PICK c : c = job[h].conv
  OBVIOUS
<1>0. job[h].pc \in {"assign", "appoint"} /\ Turn(h, job[h].rest) /\ pending' = pending
  BY DEF RouteAssigns, Silently
<1>1. c \in Known /\ job[h].pick \in Owners
  BY <1>0, <1>c, HandlerFits DEF JobOK, RowPCs, RoutingPCs, Job
<1>2. conv[c] \in Row
  BY <1>1, RowFits
<1>3. PICK placed \in BOOLEAN :
        /\ Writes(c, [Assigned(conv[c], job[h].pick) EXCEPT !.placed = placed], job[h].pc = "assign")
        /\ aside' = IF placed THEN aside ELSE aside \cup {c}
  <2>1. {TRUE} \cup (IF job[h].pc = "appoint" THEN {conv[c].placed} ELSE {}) \subseteq BOOLEAN
    BY <1>2 DEF Row
  <2> QED BY <1>c, <2>1 DEF RouteAssigns
<1> DEFINE row == [Assigned(conv[c], job[h].pick) EXCEPT !.placed = placed]
<1>4. row \in Row /\ row.placed = placed /\ row.status # "new"
  <2>1. Assigned(conv[c], job[h].pick) \in Row /\ Assigned(conv[c], job[h].pick).status # "new"
    BY <1>1, <1>2, AssignedFits
  <2> QED BY <2>1 DEF Row
<1>5. PICK weighed \in BOOLEAN : weighed = (job[h].pc = "assign")
  OBVIOUS
<1>6. Writes(c, row, weighed)
  BY <1>3, <1>5
<1> HIDE DEF row
<1>7. Known' = Known /\ \A d \in Known : InPlace(d) => InPlace(d)' \/ d \in aside'
  BY <1>1, <1>3, <1>4, <1>6, PlaceWritten
<1>8. conv'[c] = row
  BY <1>1, <1>4, <1>6, WritesFacts
<1>9. InPlace(c)' \/ c \in aside'
  BY <1>3, <1>4, <1>8 DEF InPlace
<1>10. Others(h) /\ aside \subseteq aside'
  BY <1>0, <1>3, TurnFacts
<1> QED BY <1>c, <1>0, <1>7, <1>9, <1>10, ArrivalsStay DEF Carries

LEMMA RouteFailsKeepsArrivals ==
  ASSUME Base, ArrivalsOK, NEW h \in Handlers, RouteFails(h) PROVE ArrivalsOK'
<1>1. conv' = conv /\ aside' = aside \cup {job[h].conv} /\ pending' = pending /\ Others(h)
  BY GoesFacts DEF RouteFails, Silently
<1>2. Known' = Known /\ \A d \in Known : InPlace(d)' <=> InPlace(d)
  BY <1>1 DEF Known, InPlace
<1> QED BY <1>1, <1>2, ArrivalsStay DEF Carries

LEMMA ParksKeepsArrivals ==
  ASSUME Base, ArrivalsOK, NEW h \in Handlers, Parks(h) PROVE ArrivalsOK'
<1>c. PICK c : c = job[h].conv
  OBVIOUS
<1> DEFINE row == Parked(conv[c])
<1>0. /\ job[h].pc = "park" /\ Goes(h, NoJob) /\ Writes(c, row, FALSE)
      /\ pending' = pending /\ aside' = aside
  BY <1>c DEF Parks, Silently
<1>1. c \in Known
  BY <1>0, <1>c, HandlerFits DEF JobOK, RowPCs, RoutingPCs
<1>2. row \in Row /\ row.placed /\ row.status # "new"
  BY <1>1, RowFits DEF Parked, Row, Statuses
<1> HIDE DEF row
<1>3. Known' = Known /\ \A d \in Known : InPlace(d) => InPlace(d)' \/ d \in aside'
  BY <1>0, <1>1, <1>2, PlaceWritten
<1>4. InPlace(c)'
  BY <1>0, <1>1, <1>2, WritesFacts DEF InPlace
<1>5. Others(h)
  BY <1>0, GoesFacts
<1> QED BY <1>c, <1>0, <1>3, <1>4, <1>5, ArrivalsStay DEF Carries

LEMMA HearsKeepsArrivals ==
  ASSUME Base, ArrivalsOK, NEW h \in Handlers, Hears(h) PROVE ArrivalsOK'
<1>1. PICK e \in pending : Listens(h, e) /\ pending' = pending \ {e}
  BY DEF Hears
<1>2. conv' = conv /\ aside' = aside /\ job[h].pc = "idle"
  BY <1>1 DEF Hears, history, Listens, Idle
<1>3. e \in told
  BY DEF Base, TypeOK
<1>4. PICK j \in Job : Goes(h, j) /\ (e[1] = "created" => j.pc = "offer" /\ j.conv = e[2])
  BY <1>1, <1>3, ListensFits
<1>5. job'[h] = j /\ Others(h)
  BY <1>4, GoesFacts
<1>6. Known' = Known /\ \A d \in Known : InPlace(d)' <=> InPlace(d)
  BY <1>2 DEF Known, InPlace
<1>7. ASSUME NEW d \in Known, <<"created", d>> \in pending
      PROVE  <<"created", d>> \in pending' \/ Carries(job'[h], d)
  <2>1. CASE e = <<"created", d>>
    BY <1>4, <1>5, <2>1 DEF Carries, RoutingPCs
  <2>2. CASE e # <<"created", d>>
    BY <1>1, <1>7, <2>2
  <2> QED BY <2>1, <2>2
<1>8. \A d \in Known : ~Carries(job[h], d)
  BY <1>2 DEF Carries, RoutingPCs
<1> QED BY <1>2, <1>5, <1>6, <1>7, <1>8, ArrivalsStay

LEMMA ArrivalsKept == ASSUME Base, ArrivalsOK, Next PROVE ArrivalsOK'
<1>1. ASSUME NEW h \in Handlers, Step(h) PROVE ArrivalsOK'
  BY <1>1, LooksKeepArrivals, CreatesKeepsArrivals, AnnouncesKeepsArrivals, StoresKeepsArrivals,
     SendsKeepsArrivals, SetsStatusKeepsArrivals, ChoicesKeepArrivals, RouteAssignsKeepsArrivals,
     RouteFailsKeepsArrivals, ParksKeepsArrivals, HearsKeepsArrivals DEF Step
<1>2. ASSUME NEW h \in Handlers, Request(h) PROVE ArrivalsOK'
  BY <1>2, LooksKeepArrivals
<1>3. ASSUME NEW a \in Agents, ChangesPresence(a) PROVE ArrivalsOK'
  BY <1>3 DEF ChangesPresence, Silently, history, ArrivalsOK, Arrived, InPlace, Known
<1> QED BY <1>1, <1>2, <1>3, HandsKeepArrivals DEF Next

LEMMA ArrivalsOKHolds == Spec => []ArrivalsOK
<1>1. Init => ArrivalsOK
  BY DEF Init, ArrivalsOK, Known
<1>2. Base /\ ArrivalsOK /\ [Next]_vars => ArrivalsOK'
  <2>1. ASSUME ArrivalsOK, UNCHANGED vars PROVE ArrivalsOK'
    BY <2>1 DEF ArrivalsOK, Arrived, InPlace, Known, vars, history
  <2> QED BY <2>1, ArrivalsKept
<1> QED BY <1>1, <1>2, BaseHolds, PTL DEF Spec

\* Whatever handlers wrote over each other, once every event has been heard a
\* conversation is no longer new, and one that waits for anybody is in a queue;
\* except where routing failed or a rule named no queue.
THEOREM ArrivalsAreListedHolds == Spec => []ArrivalsAreListed
<1>1. Base /\ ArrivalsOK => ArrivalsAreListed
  <2> SUFFICES ASSUME ArrivalsOK, Quiet, NEW c \in Known, c \notin aside PROVE Listed(c)
    BY DEF ArrivalsAreListed
  <2>1. Arrived(c) /\ pending = {} /\ \A h \in Handlers : ~Carries(job[h], c)
    BY DEF ArrivalsOK, Quiet, Idle, Carries, RoutingPCs
  <2>2. InPlace(c)
    BY <2>1 DEF Arrived
  <2> QED BY <2>2 DEF InPlace, Listed
<1> QED BY <1>1, BaseHolds, ArrivalsOKHolds, PTL
-----------------------------------------------------------------------------
(* Customers and their rights move by themselves.                          *)

LEMMA StartsEveryPart == AllInit => C!Init /\ R!Init
  BY Zenon DEF AllInit

LEMMA StepsOnePart == [AllNext]_AllVars =>
  /\ C!Next \/ UNCHANGED customerVars
  /\ R!Next \/ UNCHANGED rightsVars
  BY Zenon DEF AllNext, AllVars

-----------------------------------------------------------------------------
(* What is kept of a customer, and its erasure.                            *)

\* A row an erasure owes: of a table in the plan, with personal data, and there in time.
Owed(k) == k \in R!Planned /\ data[k] = "held" /\ k \notin late

\* The ids an erasure has read, by where it is.
ReadBy(t, r) ==
  \/ r = "conversation" /\ t.pc \notin {"idle", "conversation"}
  \/ r = "ticket" /\ t.pc \notin {"idle", "conversation", "ticket"}
  \/ r = "call" /\ t.pc \notin {"idle", "conversation", "ticket", "call"}
IsErasure(t) ==
  /\ t \in [pc : {"idle", "conversation", "ticket", "call", "message", "archive", "step", "row"},
            n : 0 .. 10, scope : SUBSET R!Kinds]
  /\ t.pc \in {"step", "row"} <=> t.n # 0
  /\ t.pc = "idle" => t = R!NoErasure
\* Of the rows still owed, it has read what leads to them, and it has passed none.
EraserOK(t) ==
  /\ \A k \in R!Kinds : Owed(k) /\ k # "own" /\ ReadBy(t, R!RootOf(k)) => R!RootOf(k) \in t.scope
  /\ t.pc \in {"archive", "step", "row"} /\ (Owed("message") \/ Owed("attachment")) => "message" \in t.scope
  /\ t.pc \in {"step", "row"} => /\ archive => "export" \in rightsExcuse
                                 /\ \A m \in 1 .. 9 : m < t.n => ~Owed(R!Plan[m])
  /\ \A k \in R!Stored : k \in t.scope =>
       t.pc = "row" /\ R!Plan[t.n] = k /\ data[k] # "none" /\ (k \in object => "store" \in rightsExcuse)
  /\ t.pc = "row" => R!Plan[t.n] \in R!Stored /\ (Owed(R!Plan[t.n]) => R!Plan[t.n] \in t.scope)
RightsType ==
  /\ subject \in BOOLEAN /\ archive \in BOOLEAN /\ export \in BOOLEAN
  /\ data \in [R!Kinds -> {"none", "held", "erased"}] /\ object \subseteq R!Stored
  /\ erase \in [Erasers -> {erase[e] : e \in Erasers}]
  /\ \A e \in Erasers : IsErasure(erase[e])
RightsInv ==
  /\ RightsType
  /\ \A k \in DOMAIN R!Parent : data[k] # "none" => data[R!Parent[k]] # "none"
  /\ \A e \in Erasers : EraserOK(erase[e])
  /\ export /\ (R!Erasing \/ ~subject) => "export" \in rightsExcuse
  /\ R!NothingStranded

LEMMA PlanIs ==
  /\ R!Plan[1] = "own" /\ R!Plan[2] = "attachment" /\ R!Plan[3] = "recording" /\ R!Plan[4] = "message"
  /\ R!Plan[5] = "participant" /\ R!Plan[6] = "event" /\ R!Plan[7] = "call" /\ R!Plan[8] = "conversation"
  /\ R!Plan[9] = "ticket" /\ R!Plan[10] = "customer" /\ DOMAIN R!Plan = 1 .. 10
  BY DEF R!Plan

LEMMA ParentsAre ==
  /\ DOMAIN R!Parent = {"message", "participant", "attachment", "comment", "event", "recording", "segment"}
  /\ R!Parent["message"] = "conversation" /\ R!Parent["participant"] = "conversation"
  /\ R!Parent["attachment"] = "message" /\ R!Parent["comment"] = "ticket" /\ R!Parent["event"] = "call"
  /\ R!Parent["recording"] = "call" /\ R!Parent["segment"] = "call"
  BY DEF R!Parent

LEMMA KindsAre ==
  /\ R!Roots = {"conversation", "ticket", "call"} /\ R!Stored = {"attachment", "recording"}
  /\ R!Kinds = {"conversation", "ticket", "call", "own", "message", "participant", "attachment", "comment",
                "event", "recording", "segment"}
  BY ParentsAre DEF R!Kinds, R!Roots, R!Stored

LEMMA PlannedAre ==
  R!Planned = {"own", "attachment", "recording", "message", "participant", "event", "call", "conversation", "ticket"}
<1>1. \A n \in 1 .. 10 : n \in {1, 2, 3, 4, 5, 6, 7, 8, 9, 10}
  OBVIOUS
<1>2. {R!Plan[n] : n \in DOMAIN R!Plan} =
        {"own", "attachment", "recording", "message", "participant", "event", "call", "conversation", "ticket", "customer"}
  BY <1>1, PlanIs
<1> QED BY <1>2 DEF R!Planned

LEMMA RootsAre ==
  /\ \A k \in {"conversation", "message", "participant", "attachment"} : R!RootOf(k) = "conversation"
  /\ \A k \in {"ticket", "comment"} : R!RootOf(k) = "ticket"
  /\ \A k \in {"call", "event", "recording", "segment"} : R!RootOf(k) = "call"
  /\ R!RootOf("own") = "own"
  BY ParentsAre DEF R!RootOf

LEMMA RootsOfKinds ==
  ASSUME NEW k \in R!Kinds
  PROVE  /\ k # "own" => R!RootOf(k) \in R!Roots
         /\ k \in DOMAIN R!Parent => R!Parent[k] \in R!Kinds \ (R!Stored \cup {"own"}) /\ R!RootOf(R!Parent[k]) = R!RootOf(k)
         /\ k \in R!Roots => R!RootOf(k) = k
  BY KindsAre, RootsAre, ParentsAre

LEMMA NoErasureIs ==
  /\ IsErasure(R!NoErasure) /\ R!NoErasure.pc = "idle" /\ R!NoErasure.n = 0 /\ R!NoErasure.scope = {}
  BY DEF IsErasure, R!NoErasure

LEMMA RightsHas ==
  ASSUME RightsInv, NEW e \in Erasers
  PROVE  /\ IsErasure(erase[e]) /\ EraserOK(erase[e])
         /\ (erase[e].pc # "idle" => R!Erasing)
<1>1. IsErasure(erase[e]) /\ EraserOK(erase[e])
  BY DEF RightsInv, RightsType
<1>2. erase[e].pc # "idle" => R!Erasing
  BY NoErasureIs DEF R!Erasing
<1> QED BY <1>1, <1>2

\* An erasure stays right while no more is owed.
LEMMA EraserStands ==
  ASSUME NEW t, IsErasure(t), EraserOK(t), NEW u, IsErasure(u), u.pc = t.pc, u.n = t.n,
         u.scope \subseteq t.scope, t.scope \ u.scope \subseteq R!Stored,
         \A k \in t.scope \ u.scope : ~Owed(k)', \A k \in R!Kinds : Owed(k)' => Owed(k),
         rightsExcuse \subseteq rightsExcuse', archive' => archive \/ "export" \in rightsExcuse',
         \A k \in R!Stored : k \in u.scope => data'[k] # "none" /\ (k \in object' => k \in object \/ "store" \in rightsExcuse')
  PROVE  EraserOK(u)'
<1>1. \A k \in R!Kinds : Owed(k)' /\ k # "own" /\ ReadBy(u, R!RootOf(k)) => R!RootOf(k) \in u.scope
  BY RootsOfKinds, KindsAre DEF EraserOK, ReadBy
<1>2. u.pc \in {"archive", "step", "row"} /\ (Owed("message")' \/ Owed("attachment")') => "message" \in u.scope
  BY KindsAre DEF EraserOK
<1>3. u.pc \in {"step", "row"} => /\ archive' => "export" \in rightsExcuse'
                                  /\ \A m \in 1 .. 9 : m < u.n => ~Owed(R!Plan[m])'
  <2>1. \A m \in 1 .. 9 : R!Plan[m] \in R!Kinds
    <3>1. \A m \in 1 .. 9 : m \in {1, 2, 3, 4, 5, 6, 7, 8, 9}
      OBVIOUS
    <3> QED BY <3>1, PlanIs, KindsAre
  <2> QED BY <2>1 DEF EraserOK
<1>4. \A k \in R!Stored : k \in u.scope =>
        u.pc = "row" /\ R!Plan[u.n] = k /\ data'[k] # "none" /\ (k \in object' => "store" \in rightsExcuse')
  BY DEF EraserOK
<1>5. u.pc = "row" => R!Plan[u.n] \in R!Stored /\ (Owed(R!Plan[u.n])' => R!Plan[u.n] \in u.scope)
  BY KindsAre DEF EraserOK
<1> QED BY <1>1, <1>2, <1>3, <1>4, <1>5 DEF EraserOK

\* A request moves on, and rows stay as they are.
LEMMA RightsByGoing ==
  ASSUME RightsInv, NEW e \in Erasers, NEW u, IsErasure(u), EraserOK(u)', erase' = [erase EXCEPT ![e] = u],
         UNCHANGED <<subject, data, linked, export, late>>, archive' \in {archive, FALSE},
         rightsExcuse \subseteq rightsExcuse', object' \subseteq object,
         erase[e].pc # "idle" \/ (export => "export" \in rightsExcuse')
  PROVE  RightsInv'
<1>1. \A f \in Erasers : erase'[f] = IF f = e THEN u ELSE erase[f]
  BY DEF RightsInv, RightsType
<1>2. \A k \in R!Kinds : Owed(k)' = Owed(k)
  BY DEF Owed
<1>3. ASSUME NEW f \in Erasers PROVE IsErasure(erase'[f]) /\ EraserOK(erase[f])'
  <2>1. CASE f = e
    BY <1>1, <2>1 DEF EraserOK, Owed
  <2>2. CASE f # e
    <3>1. PICK t : t = erase[f]
      OBVIOUS
    <3>2. IsErasure(t) /\ EraserOK(t) /\ erase'[f] = t
      BY <1>1, <2>2, <3>1, RightsHas
    <3>3. \A k \in R!Stored : k \in t.scope => data'[k] # "none" /\ (k \in object' => k \in object \/ "store" \in rightsExcuse')
      BY <3>2 DEF EraserOK
    <3>4. archive' => archive \/ "export" \in rightsExcuse'
      BY DEF RightsInv, RightsType
    <3>5. IsErasure(t) /\ t.scope \ t.scope \subseteq R!Stored /\ (\A k \in t.scope \ t.scope : ~Owed(k)')
      BY <3>2
    <3>6. EraserOK(t)'
      BY <1>2, <3>2, <3>3, <3>4, <3>5, EraserStands
    <3> QED BY <3>2, <3>6 DEF EraserOK, Owed
  <2> QED BY <2>1, <2>2
<1>4. RightsType'
  <2>1. erase' \in [Erasers -> {erase'[f] : f \in Erasers}]
    BY DEF RightsInv, RightsType
  <2> QED BY <1>3, <2>1 DEF RightsInv, RightsType
<1>5. export' /\ (R!Erasing' \/ ~subject') => "export" \in rightsExcuse'
  <2>1. R!Erasing' => R!Erasing \/ (export => "export" \in rightsExcuse')
    BY <1>1, RightsHas DEF R!Erasing
  <2> QED BY <2>1 DEF RightsInv
<1>6. R!NothingStranded'
  <2>1. \A k : R!Found(k)' = R!Found(k)
    BY DEF R!Found
  <2>2. \A k \in R!Planned : data'[k] = "held" /\ k \notin late' => R!Found(k)'
    BY <2>1 DEF RightsInv, R!NothingStranded
  <2>3. \A k \in object' : data'[k] = "none" => "store" \in rightsExcuse'
    BY DEF RightsInv, R!NothingStranded
  <2>4. archive' /\ ~subject' => "export" \in rightsExcuse'
    BY DEF RightsInv, R!NothingStranded
  <2> QED BY <2>2, <2>3, <2>4 DEF R!NothingStranded
<1> QED BY <1>3, <1>4, <1>5, <1>6 DEF RightsInv

\* Rows are erased: those whose object an erasure deleted leave its hands.
LEMMA RightsByRemoving ==
  ASSUME RightsInv, NEW e \in Erasers, erase[e].pc # "idle",
         erase' \in [Erasers -> {erase'[f] : f \in Erasers}],
         \A f \in Erasers : IsErasure(erase'[f]),
         EraserOK(erase[e])',
         \A f \in Erasers \ {e} : /\ erase'[f].pc = erase[f].pc /\ erase'[f].n = erase[f].n
                                  /\ erase'[f].scope \subseteq erase[f].scope
                                  /\ erase[f].scope \ erase'[f].scope \subseteq R!Stored
                                  /\ \A k \in erase[f].scope \ erase'[f].scope : ~Owed(k)'
                                  /\ \A k \in R!Stored : k \in erase'[f].scope => data'[k] # "none",
         UNCHANGED <<archive, export, late, object, rightsExcuse>>, subject' \in {subject, FALSE},
         data' \in [R!Kinds -> {"none", "held", "erased"}],
         \A k \in R!Kinds : /\ data'[k] = "held" => data[k] = "held"
                            /\ data'[k] # "none" => data[k] # "none"
                            /\ k \notin R!Stored \cup {"own"} /\ data[k] # "none" => data'[k] # "none",
         \A k \in R!Planned : Owed(k)' => R!Found(k)',
         \A k \in object : data'[k] = "none" => "store" \in rightsExcuse,
         archive /\ ~subject' => "export" \in rightsExcuse
  PROVE  RightsInv'
<1>1. \A k \in R!Kinds : Owed(k)' => Owed(k)
  BY DEF Owed
<1>2. ASSUME NEW f \in Erasers PROVE EraserOK(erase[f])'
  <2>1. CASE f # e
    <3>1. PICK t, u : t = erase[f] /\ u = erase'[f]
      OBVIOUS
    <3>2. /\ IsErasure(t) /\ EraserOK(t) /\ IsErasure(u) /\ u.pc = t.pc /\ u.n = t.n
          /\ u.scope \subseteq t.scope /\ t.scope \ u.scope \subseteq R!Stored
          /\ \A k \in t.scope \ u.scope : ~Owed(k)'
      BY <2>1, <3>1, RightsHas
    <3>3. \A k \in R!Stored : k \in u.scope => data'[k] # "none" /\ (k \in object' => k \in object \/ "store" \in rightsExcuse')
      BY <2>1, <3>1
    <3>4. rightsExcuse \subseteq rightsExcuse' /\ (archive' => archive \/ "export" \in rightsExcuse')
      OBVIOUS
    <3>5. EraserOK(u)'
      BY <1>1, <3>2, <3>3, <3>4, EraserStands
    <3> QED BY <3>1, <3>5 DEF EraserOK, Owed
  <2> QED BY <2>1
<1>3. RightsType'
  BY DEF RightsInv, RightsType
<1>4. \A k \in DOMAIN R!Parent : data'[k] # "none" => data'[R!Parent[k]] # "none"
  BY RootsOfKinds, KindsAre, ParentsAre DEF RightsInv
<1>5. export' /\ (R!Erasing' \/ ~subject') => "export" \in rightsExcuse'
  BY RightsHas DEF RightsInv
<1>6. R!NothingStranded'
  <2>1. \A k \in R!Planned : data'[k] = "held" /\ k \notin late' => R!Found(k)'
    BY DEF Owed
  <2> QED BY <2>1 DEF R!NothingStranded
<1> QED BY <1>2, <1>3, <1>4, <1>5, <1>6 DEF RightsInv

\* What an erasure that has read every id and reached its n-th step still owes, it covers.
LEMMA OwedIsCovered ==
  ASSUME RightsInv, NEW e \in Erasers, erase[e].pc = "step", NEW k \in R!Planned, Owed(k)
  PROVE  R!Covers(e, k)
<1>1. EraserOK(erase[e]) /\ data[k] = "held" /\ k \in R!Kinds
  BY RightsHas, PlannedAre, KindsAre DEF Owed
<1>2. CASE k = "own"
  BY <1>1, <1>2 DEF R!Covers
<1>3. CASE k # "own"
  <2>1. ReadBy(erase[e], R!RootOf(k))
    BY <1>1, <1>3, RootsOfKinds, KindsAre DEF ReadBy
  <2>2. R!RootOf(k) \in erase[e].scope
    BY <1>1, <1>3, <2>1 DEF EraserOK
  <2>3. k \in {"message", "attachment"} => "message" \in erase[e].scope
    BY <1>1 DEF EraserOK
  <2>4. k \in {"conversation", "ticket", "call"} => R!RootOf(k) = k
    BY RootsAre
  <2>5. k \in {"participant", "event", "recording"} => R!RootOf(k) = R!Parent[k] /\ k \in DOMAIN R!Parent \ {"message"}
    BY RootsAre, ParentsAre
  <2>6. k = "attachment" => R!Parent[k] = "message" /\ k \in DOMAIN R!Parent \ {"message"}
    BY ParentsAre
  <2> QED BY <1>1, <1>3, <2>2, <2>3, <2>4, <2>5, <2>6, PlannedAre DEF R!Covers
<1> QED BY <1>2, <1>3

\* The erasure passes its step with nothing of that kind owed any more.
LEMMA PassedIs ==
  ASSUME RightsInv, NEW e \in Erasers, erase[e].pc \in {"step", "row"}, erase[e].n <= 9,
         NEW u, u = R!Passed(e)
  PROVE  IsErasure(u) /\ u.pc = "step" /\ u.n = erase[e].n + 1 /\ u.scope = erase[e].scope
<1>1. IsErasure(erase[e]) /\ erase[e].n \in 0 .. 10 /\ erase[e].n + 1 \in 0 .. 10 /\ erase[e].n + 1 # 0
  <2>1. IsErasure(erase[e])
    BY RightsHas
  <2>2. erase[e].n \in 0 .. 10
    BY <2>1 DEF IsErasure
  <2> QED BY <2>1, <2>2
<1> QED BY <1>1 DEF IsErasure, R!Passed, R!NoErasure

LEMMA PassesWell ==
  ASSUME NEW t, IsErasure(t), EraserOK(t), t.pc \in {"step", "row"}, t.n <= 9,
         NEW u, IsErasure(u), u.pc = "step", u.n = t.n + 1, u.scope \subseteq t.scope, u.scope \cap R!Stored = {},
         t.scope \ u.scope \subseteq R!Stored,
         ~Owed(R!Plan[t.n])', UNCHANGED <<archive, rightsExcuse>>,
         \A k \in R!Kinds : Owed(k)' => Owed(k)
  PROVE  EraserOK(u)'
<1>1. \A k \in R!Kinds : Owed(k)' /\ k # "own" /\ ReadBy(u, R!RootOf(k)) => R!RootOf(k) \in u.scope
  <2>1. \A r : ReadBy(u, r) => ReadBy(t, r)
    BY DEF ReadBy
  <2> QED BY <2>1, RootsOfKinds, KindsAre DEF EraserOK
<1>2. Owed("message")' \/ Owed("attachment")' => "message" \in u.scope
  BY KindsAre DEF EraserOK
<1>3. ASSUME NEW m \in 1 .. 9, m < u.n, Owed(R!Plan[m])' PROVE FALSE
  <2>1. t.n \in 0 .. 10
    BY DEF IsErasure
  <2>2. m < t.n \/ m = t.n
    BY <1>3, <2>1
  <2>3. R!Plan[m] \in R!Kinds
    <3>1. m \in {1, 2, 3, 4, 5, 6, 7, 8, 9}
      OBVIOUS
    <3> QED BY <3>1, PlanIs, KindsAre
  <2> QED BY <1>3, <2>2, <2>3 DEF EraserOK
<1>4. archive' => "export" \in rightsExcuse'
  BY DEF EraserOK
<1>5. \A k \in R!Stored : k \notin u.scope
  OBVIOUS
<1> QED BY <1>1, <1>2, <1>3, <1>4, <1>5 DEF EraserOK

LEMMA StepsTo ==
  ASSUME NEW e \in Erasers, NEW n, RightsInv, erase[e].n = n, erase[e].pc \in {"step", "row"}
  PROVE  n \in 1 .. 10 /\ (R!Plan[n] # "customer" => n <= 9 /\ R!Plan[n] \in R!Planned /\ R!Plan[n] \in R!Kinds)
         /\ (R!Plan[n] = "customer" => n = 10)
<1>1. n \in 1 .. 10
  <2>1. IsErasure(erase[e])
    BY RightsHas
  <2>2. n \in 0 .. 10 /\ n # 0
    BY <2>1 DEF IsErasure
  <2> QED BY <2>2
<1>2. n \in {1, 2, 3, 4, 5, 6, 7, 8, 9, 10}
  BY <1>1
<1> QED BY <1>1, <1>2, PlanIs, PlannedAre, KindsAre

LEMMA RightsByBeginning == ASSUME RightsInv, NEW e \in Erasers, R!Begins(e) PROVE RightsInv'
<1>1. PICK u : u = [R!NoErasure EXCEPT !.pc = "conversation"]
  OBVIOUS
<1>2. /\ erase' = [erase EXCEPT ![e] = u] /\ UNCHANGED <<subject, data, linked, object, archive, export, late>>
      /\ rightsExcuse' = IF export THEN rightsExcuse \cup {"export"} ELSE rightsExcuse
  BY <1>1 DEF R!Begins, R!Goes
<1>3. IsErasure(u) /\ u.pc = "conversation" /\ u.scope = {}
  BY <1>1 DEF IsErasure, R!NoErasure
<1>4. EraserOK(u)'
  BY <1>3 DEF EraserOK, ReadBy
<1> QED BY <1>2, <1>3, <1>4, RightsByGoing

LEMMA RightsByReadingIds == ASSUME RightsInv, NEW e \in Erasers, R!ReadsIds(e) PROVE RightsInv'
<1>1. PICK k \in R!Roots : /\ erase[e].pc = k
                           /\ R!Goes(e, [erase[e] EXCEPT !.scope = @ \cup ({k} \cap linked),
                                !.pc = [conversation |-> "ticket", ticket |-> "call", call |-> "message"][k]])
  BY DEF R!ReadsIds, R!At
<1>2. PICK t, s, p, u : /\ t = erase[e] /\ s = t.scope \cup ({k} \cap linked)
                        /\ p = [conversation |-> "ticket", ticket |-> "call", call |-> "message"][k]
                        /\ u = [t EXCEPT !.scope = s, !.pc = p]
  OBVIOUS
<1>3. erase' = [erase EXCEPT ![e] = u]
  BY <1>1, <1>2 DEF R!Goes
<1>4. UNCHANGED <<subject, data, linked, object, archive, export, late, rightsExcuse>>
  BY DEF R!ReadsIds
<1>5. /\ k = "conversation" => p = "ticket"
      /\ k = "ticket" => p = "call"
      /\ k = "call" => p = "message"
      /\ k \in {"conversation", "ticket", "call"}
  BY <1>2, KindsAre
<1>6. IsErasure(t) /\ EraserOK(t) /\ t.pc = k /\ s \subseteq R!Kinds
  BY <1>1, <1>2, KindsAre, RightsHas DEF IsErasure
<1>7. IsErasure(u) /\ u.pc = p /\ u.scope = s
  BY <1>2, <1>5, <1>6 DEF IsErasure, R!NoErasure
<1>8. EraserOK(u)'
  <2>1. ASSUME NEW j \in R!Kinds, Owed(j), j # "own", ReadBy(u, R!RootOf(j)) PROVE R!RootOf(j) \in s
    <3>1. R!RootOf(j) = k \/ ReadBy(t, R!RootOf(j))
      BY <1>5, <1>6, <1>7, <2>1 DEF ReadBy
    <3>2. R!Found(j)
      BY <2>1 DEF RightsInv, R!NothingStranded, Owed
    <3> QED BY <1>2, <1>6, <2>1, <3>1, <3>2 DEF EraserOK, R!Found
  <2>2. \A j \in R!Stored : j \notin s
    BY <1>2, <1>5, <1>6, KindsAre DEF EraserOK
  <2>3. \A j : Owed(j)' = Owed(j)
    BY <1>4 DEF Owed
  <2> QED BY <1>5, <1>7, <2>1, <2>2, <2>3 DEF EraserOK
<1> QED BY <1>3, <1>4, <1>5, <1>6, <1>2, <1>7, <1>8, RightsByGoing

LEMMA RightsByReadingMessages == ASSUME RightsInv, NEW e \in Erasers, R!ReadsMessages(e) PROVE RightsInv'
<1>1. PICK t, s, u : /\ t = erase[e]
                     /\ s = (IF "conversation" \in t.scope /\ data["message"] # "none" THEN t.scope \cup {"message"} ELSE t.scope)
                     /\ u = [t EXCEPT !.pc = "archive", !.scope = s]
  OBVIOUS
<1>2. t.pc = "message" /\ erase' = [erase EXCEPT ![e] = u]
  BY <1>1 DEF R!ReadsMessages, R!Goes, R!At
<1>3. UNCHANGED <<subject, data, linked, object, archive, export, late, rightsExcuse>>
  BY DEF R!ReadsMessages
<1>4. IsErasure(t) /\ EraserOK(t) /\ s \subseteq R!Kinds /\ t.scope \subseteq s /\ s \subseteq t.scope \cup {"message"}
  <2>1. IsErasure(t) /\ EraserOK(t)
    BY <1>1, RightsHas
  <2>2. t.scope \subseteq R!Kinds /\ "message" \in R!Kinds
    BY <2>1, KindsAre DEF IsErasure
  <2> QED BY <1>1, <2>1, <2>2
<1>5. IsErasure(u) /\ u.pc = "archive" /\ u.scope = s
  BY <1>1, <1>2, <1>4 DEF IsErasure, R!NoErasure
<1>6. EraserOK(u)'
  <2>1. \A r : ReadBy(u, r) => ReadBy(t, r)
    BY <1>2 DEF ReadBy
  <2>2. \A j : Owed(j)' = Owed(j)
    BY <1>3 DEF Owed
  <2>3. \A j \in R!Kinds : Owed(j) /\ j # "own" /\ ReadBy(u, R!RootOf(j)) => R!RootOf(j) \in s
    BY <1>4, <2>1 DEF EraserOK
  <2>4. Owed("message") \/ Owed("attachment") => "message" \in s
    <3> SUFFICES ASSUME Owed("message") \/ Owed("attachment") PROVE "message" \in s
      OBVIOUS
    <3>1. data["message"] # "none"
      BY ParentsAre DEF Owed, RightsInv
    <3>2. ReadBy(t, "conversation")
      BY <1>2 DEF ReadBy
    <3>3. "conversation" \in t.scope
      BY <1>4, <3>2, KindsAre, RootsAre DEF EraserOK
    <3> QED BY <1>1, <3>1, <3>3
  <2>5. \A j \in R!Stored : j \notin s
    BY <1>2, <1>4, KindsAre DEF EraserOK
  <2> QED BY <1>5, <2>2, <2>3, <2>4, <2>5 DEF EraserOK
<1>7. erase[e].pc # "idle"
  BY <1>1, <1>2
<1> QED BY <1>2, <1>3, <1>5, <1>6, <1>7, RightsByGoing

LEMMA RightsByDroppingArchive == ASSUME RightsInv, NEW e \in Erasers, R!DropsArchive(e) PROVE RightsInv'
<1>1. PICK t, u : t = erase[e] /\ u = [t EXCEPT !.pc = "step", !.n = 1]
  OBVIOUS
<1>2. t.pc = "archive" /\ erase' = [erase EXCEPT ![e] = u] /\ archive' = FALSE
  BY <1>1 DEF R!DropsArchive, R!Goes, R!At
<1>3. UNCHANGED <<subject, data, linked, object, export, late, rightsExcuse>>
  BY DEF R!DropsArchive
<1>4. IsErasure(t) /\ EraserOK(t)
  BY <1>1, RightsHas
<1>5. IsErasure(u) /\ u.pc = "step" /\ u.scope = t.scope /\ u.n = 1
  <2>1. PICK n : n = 1
    OBVIOUS
  <2>2. n \in 0 .. 10 /\ n # 0
    BY <2>1
  <2>3. u = [t EXCEPT !.pc = "step", !.n = n]
    BY <1>1, <2>1
  <2>4. IsErasure(u) /\ u.pc = "step" /\ u.scope = t.scope /\ u.n = n
    BY <1>4, <2>2, <2>3 DEF IsErasure
  <2> QED BY <2>1, <2>4
<1>6. EraserOK(u)'
  <2>1. \A r : ReadBy(u, r) => ReadBy(t, r)
    BY <1>2 DEF ReadBy
  <2>2. \A j : Owed(j)' = Owed(j)
    BY <1>3 DEF Owed
  <2>3. \A j \in R!Kinds : Owed(j) /\ j # "own" /\ ReadBy(u, R!RootOf(j)) => R!RootOf(j) \in u.scope
    BY <1>4, <1>5, <2>1 DEF EraserOK
  <2>4. Owed("message") \/ Owed("attachment") => "message" \in u.scope
    BY <1>2, <1>4, <1>5 DEF EraserOK
  <2>5. \A j \in R!Stored : j \notin u.scope
    BY <1>2, <1>4, <1>5 DEF EraserOK
  <2> QED BY <1>2, <1>5, <2>2, <2>3, <2>4, <2>5 DEF EraserOK
<1>7. erase[e].pc # "idle"
  BY <1>1, <1>2
<1> QED BY <1>2, <1>3, <1>5, <1>6, <1>7, RightsByGoing

LEMMA RightsByStopping == ASSUME RightsInv, NEW e \in Erasers, R!Stops(e) PROVE RightsInv'
<1>1. PICK u : u = R!NoErasure
  OBVIOUS
<1>2. /\ erase' = [erase EXCEPT ![e] = u] /\ erase[e].pc # "idle"
      /\ UNCHANGED <<subject, data, linked, object, archive, export, late, rightsExcuse>>
  BY <1>1 DEF R!Stops, R!Goes, R!At
<1>3. IsErasure(u) /\ u.pc = "idle" /\ u.scope = {}
  BY <1>1, NoErasureIs
<1>4. EraserOK(u)'
  BY <1>3 DEF EraserOK, ReadBy
<1> QED BY <1>2, <1>3, <1>4, RightsByGoing

\* A step that covers nothing: nothing of that kind is owed.
LEMMA RightsByPassing ==
  ASSUME RightsInv, NEW e \in Erasers, R!Goes(e, R!Passed(e)), erase[e].pc = "step",
         R!Plan[erase[e].n] # "customer", ~R!Covers(e, R!Plan[erase[e].n]),
         UNCHANGED <<subject, data, linked, object, archive, export, late, rightsExcuse>>
  PROVE  RightsInv'
<1>1. PICK t, n, u : t = erase[e] /\ n = t.n /\ u = R!Passed(e)
  OBVIOUS
<1>2. erase' = [erase EXCEPT ![e] = u] /\ t.pc = "step" /\ R!Plan[n] # "customer"
  BY <1>1 DEF R!Goes
<1>3. n \in 1 .. 10 /\ n <= 9 /\ R!Plan[n] \in R!Planned
  BY <1>1, <1>2, StepsTo
<1>4. IsErasure(t) /\ EraserOK(t)
  BY <1>1, RightsHas
<1>5. IsErasure(u) /\ u.pc = "step" /\ u.n = n + 1 /\ u.scope = t.scope
  BY <1>1, <1>2, <1>3, PassedIs
<1>6. ~Owed(R!Plan[n])
  BY <1>1, <1>2, <1>3, OwedIsCovered
<1>7. \A j : Owed(j)' = Owed(j)
  BY DEF Owed
<1>8. u.scope \cap R!Stored = {} /\ t.scope \ u.scope \subseteq R!Stored /\ u.scope \subseteq t.scope
  BY <1>2, <1>4, <1>5 DEF EraserOK
<1>9. ~Owed(R!Plan[t.n])'
  BY <1>1, <1>6, <1>7
<1>10. u.n = t.n + 1 /\ t.n <= 9 /\ t.pc \in {"step", "row"} /\ u.pc = "step"
  BY <1>1, <1>2, <1>3, <1>5
<1>11. EraserOK(u)'
  BY <1>4, <1>5, <1>7, <1>8, <1>9, <1>10, PassesWell
<1>12. erase[e].pc # "idle"
  OBVIOUS
<1> QED BY <1>2, <1>5, <1>11, <1>12, RightsByGoing

\* A kind comes in the plan after what hangs off it.
LEMMA RootsComeLater ==
  ASSUME NEW n \in 1 .. 9, NEW j \in R!Planned, j # R!Plan[n], j # "own", R!RootOf(j) = R!Plan[n]
  PROVE  \E m \in 1 .. 9 : m < n /\ R!Plan[m] = j
<1>1. n \in {1, 2, 3, 4, 5, 6, 7, 8, 9}
  OBVIOUS
<1>2. j \in {"attachment", "recording", "message", "participant", "event", "call", "conversation", "ticket"}
  BY PlannedAre
<1>3. R!RootOf(j) = "conversation" => n = 8
  BY <1>1, PlanIs
<1>4. R!RootOf(j) = "call" => n = 7
  BY <1>1, PlanIs
<1>5. R!RootOf(j) = "ticket" => n = 9
  BY <1>1, PlanIs
<1>6. CASE j = "attachment"
  BY <1>3, <1>6, PlanIs, RootsAre
<1>7. CASE j = "recording"
  BY <1>4, <1>7, PlanIs, RootsAre
<1>8. CASE j = "message"
  BY <1>3, <1>8, PlanIs, RootsAre
<1>9. CASE j = "participant"
  BY <1>3, <1>9, PlanIs, RootsAre
<1>10. CASE j = "event"
  BY <1>4, <1>10, PlanIs, RootsAre
<1>11. CASE j \in {"call", "conversation", "ticket"}
  BY <1>11, RootsAre
<1> QED BY <1>2, <1>6, <1>7, <1>8, <1>9, <1>10, <1>11

LEMMA RightsByErasing == ASSUME RightsInv, NEW e \in Erasers, R!Erases(e) PROVE RightsInv'
<1>1. PICK t, n, k, u : t = erase[e] /\ n = t.n /\ k = R!Plan[n] /\ u = R!Passed(e)
  OBVIOUS
<1>2. /\ t.pc = "step" /\ erase[e].pc = "step" /\ k \notin R!Stored \cup {"customer"} /\ R!Plan[n] # "customer"
      /\ R!Goes(e, R!Passed(e)) /\ erase' = [erase EXCEPT ![e] = u]
      /\ UNCHANGED <<subject, object, archive, export, late, rightsExcuse>>
  BY <1>1 DEF R!Erases, R!At, R!Goes
<1>3. n \in 1 .. 10 /\ n <= 9 /\ n \in 1 .. 9 /\ k \in R!Planned /\ k \in R!Kinds
  <2>1. n \in 1 .. 10 /\ n <= 9 /\ k \in R!Planned /\ k \in R!Kinds
    BY <1>1, <1>2, StepsTo
  <2> QED BY <2>1
<1>4. IsErasure(t) /\ EraserOK(t)
  BY <1>1, RightsHas
<1>5. IsErasure(u) /\ u.pc = "step" /\ u.n = n + 1 /\ u.scope = t.scope
  BY <1>1, <1>2, <1>3, PassedIs
<1>6. CASE ~R!Covers(e, k)
  <2>1. UNCHANGED <<data, linked>>
    BY <1>1, <1>6 DEF R!Erases
  <2> QED BY <1>1, <1>2, <1>6, <2>1, RightsByPassing
<1>7. CASE R!Covers(e, k)
  <2>1. data' = [data EXCEPT ![k] = IF k = "own" THEN "none" ELSE "erased"] /\ linked' = linked \ {k}
    BY <1>1, <1>7 DEF R!Erases
  <2>2. data \in [R!Kinds -> {"none", "held", "erased"}]
    BY DEF RightsInv, RightsType
  <2>3. /\ data' \in [R!Kinds -> {"none", "held", "erased"}]
        /\ data'[k] # "held" /\ (k # "own" => data'[k] = "erased")
        /\ \A j \in R!Kinds \ {k} : data'[j] = data[j]
    BY <1>3, <2>1, <2>2
  <2>4. \A j \in R!Kinds : Owed(j)' => Owed(j) /\ j # k
    BY <1>2, <2>3 DEF Owed
  <2>5. /\ ~Owed(R!Plan[t.n])' /\ u.n = t.n + 1 /\ t.n <= 9 /\ t.pc \in {"step", "row"} /\ u.pc = "step"
        /\ u.scope \cap R!Stored = {} /\ t.scope \ u.scope \subseteq R!Stored /\ u.scope \subseteq t.scope
    BY <1>1, <1>2, <1>3, <1>4, <1>5, <2>4 DEF EraserOK
  <2>6. EraserOK(u)'
    BY <1>2, <1>4, <1>5, <2>4, <2>5, PassesWell
  <2>7. \A f \in Erasers : erase'[f] = IF f = e THEN u ELSE erase[f]
    BY <1>2 DEF RightsInv, RightsType
  <2>8. EraserOK(erase[e])'
    BY <2>6, <2>7 DEF EraserOK, Owed
  <2>9. \A f \in Erasers : IsErasure(erase'[f])
    BY <1>5, <2>7, RightsHas
  <2>10. erase' \in [Erasers -> {erase'[f] : f \in Erasers}]
    BY <1>2 DEF RightsInv, RightsType
  <2>11. ASSUME NEW f \in Erasers \ {e}
         PROVE  /\ erase'[f].pc = erase[f].pc /\ erase'[f].n = erase[f].n
                /\ erase'[f].scope \subseteq erase[f].scope
                /\ erase[f].scope \ erase'[f].scope \subseteq R!Stored
                /\ \A j \in erase[f].scope \ erase'[f].scope : ~Owed(j)'
                /\ \A j \in R!Stored : j \in erase'[f].scope => data'[j] # "none"
    <3>1. PICK v : v = erase[f]
      OBVIOUS
    <3>2. EraserOK(v) /\ erase'[f] = v
      BY <2>7, <3>1, RightsHas
    <3>3. \A j \in R!Stored : j \in v.scope => data[j] # "none" /\ data'[j] = data[j]
      BY <1>2, <2>3, <3>2, KindsAre DEF EraserOK
    <3> QED BY <3>1, <3>2, <3>3
  <2>12. ASSUME NEW j \in R!Planned, Owed(j)' PROVE R!Found(j)'
    <3>1. j \in R!Kinds
      BY PlannedAre, KindsAre
    <3>2. Owed(j) /\ j # k
      BY <2>4, <2>12, <3>1
    <3>3. R!Found(j)
      BY <3>2 DEF RightsInv, R!NothingStranded, Owed
    <3>4. j # "own" => R!RootOf(j) # k
      <4> SUFFICES ASSUME j # "own", R!RootOf(j) = k PROVE FALSE
        OBVIOUS
      <4>1. PICK m \in 1 .. 9 : m < n /\ R!Plan[m] = j
        BY <1>1, <1>3, <3>2, RootsComeLater
      <4> QED BY <1>1, <1>2, <1>4, <3>2, <4>1 DEF EraserOK
    <3> QED BY <1>2, <2>1, <3>3, <3>4 DEF R!Found
  <2>13. \A j \in R!Kinds : /\ data'[j] = "held" => data[j] = "held"
                            /\ data'[j] # "none" => data[j] # "none"
                            /\ j \notin R!Stored \cup {"own"} /\ data[j] # "none" => data'[j] # "none"
    BY <1>1, <1>7, <2>3 DEF R!Covers
  <2>14. \A j \in object : data'[j] = "none" => "store" \in rightsExcuse
    <3>1. object \subseteq R!Stored /\ R!Stored \subseteq R!Kinds
      BY KindsAre DEF RightsInv, RightsType
    <3> QED BY <1>2, <2>3, <3>1 DEF RightsInv, R!NothingStranded
  <2>15. archive /\ ~subject => "export" \in rightsExcuse
    BY DEF RightsInv, R!NothingStranded
  <2>16. erase[e].pc # "idle" /\ subject' \in {subject, FALSE}
    BY <1>2
  <2> QED BY <1>2, <2>3, <2>8, <2>9, <2>10, <2>11, <2>12, <2>13, <2>14, <2>15, <2>16, RightsByRemoving
<1> QED BY <1>6, <1>7

LEMMA RightsByErasingCustomer == ASSUME RightsInv, NEW e \in Erasers, R!ErasesCustomer(e) PROVE RightsInv'
<1>1. PICK t, n, u : t = erase[e] /\ n = t.n /\ u = R!NoErasure
  OBVIOUS
<1>2. /\ t.pc = "step" /\ erase[e].pc # "idle" /\ R!Plan[n] = "customer" /\ erase' = [erase EXCEPT ![e] = u]
      /\ subject' = FALSE /\ data' = [data EXCEPT !["own"] = "none"]
      /\ UNCHANGED <<object, archive, export, late, rightsExcuse>>
  BY <1>1 DEF R!ErasesCustomer, R!At, R!Goes
<1>3. n = 10 /\ IsErasure(t) /\ EraserOK(t)
  BY <1>1, <1>2, RightsHas, StepsTo
<1>4. IsErasure(u) /\ u.pc = "idle" /\ u.scope = {}
  BY <1>1, NoErasureIs
<1>5. \A j \in R!Planned : ~Owed(j)
  <2>1. \A m \in 1 .. 9 : ~Owed(R!Plan[m])
    <3>1. \A m \in 1 .. 9 : m < t.n
      BY <1>1, <1>3
    <3>2. t.pc \in {"step", "row"}
      BY <1>2
    <3> QED BY <1>3, <3>1, <3>2 DEF EraserOK
  <2>2. 1 \in 1 .. 9 /\ 2 \in 1 .. 9 /\ 3 \in 1 .. 9 /\ 4 \in 1 .. 9 /\ 5 \in 1 .. 9 /\ 6 \in 1 .. 9 /\ 7 \in 1 .. 9
        /\ 8 \in 1 .. 9 /\ 9 \in 1 .. 9
    OBVIOUS
  <2>3. /\ ~Owed("own") /\ ~Owed("attachment") /\ ~Owed("recording") /\ ~Owed("message")
        /\ ~Owed("participant") /\ ~Owed("event") /\ ~Owed("call") /\ ~Owed("conversation") /\ ~Owed("ticket")
    BY <2>1, <2>2, PlanIs
  <2> QED BY <2>3, PlannedAre
<1>6. /\ data' \in [R!Kinds -> {"none", "held", "erased"}] /\ data'["own"] = "none"
      /\ \A j \in R!Kinds \ {"own"} : data'[j] = data[j]
  BY <1>2, KindsAre DEF RightsInv, RightsType
<1>7. \A j \in R!Planned : ~Owed(j)'
  BY <1>2, <1>5, <1>6, PlannedAre, KindsAre DEF Owed
<1>8. \A f \in Erasers : erase'[f] = IF f = e THEN u ELSE erase[f]
  BY <1>2 DEF RightsInv, RightsType
<1>9. EraserOK(erase[e])'
  <2>1. EraserOK(u)'
    BY <1>4, KindsAre DEF EraserOK, ReadBy
  <2> QED BY <1>8, <2>1 DEF EraserOK, Owed
<1>10. \A f \in Erasers : IsErasure(erase'[f])
  BY <1>4, <1>8, RightsHas
<1>11. erase' \in [Erasers -> {erase'[f] : f \in Erasers}]
  BY <1>2 DEF RightsInv, RightsType
<1>12. ASSUME NEW f \in Erasers \ {e}
       PROVE  /\ erase'[f].pc = erase[f].pc /\ erase'[f].n = erase[f].n
              /\ erase'[f].scope \subseteq erase[f].scope
              /\ erase[f].scope \ erase'[f].scope \subseteq R!Stored
              /\ \A j \in erase[f].scope \ erase'[f].scope : ~Owed(j)'
              /\ \A j \in R!Stored : j \in erase'[f].scope => data'[j] # "none"
  <2>1. PICK v : v = erase[f]
    OBVIOUS
  <2>2. EraserOK(v) /\ erase'[f] = v
    BY <1>8, <2>1, RightsHas
  <2>3. \A j \in R!Stored : j \in v.scope => data[j] # "none" /\ data'[j] = data[j]
    BY <1>6, <2>2, KindsAre DEF EraserOK
  <2> QED BY <2>1, <2>2, <2>3
<1>13. \A j \in R!Kinds : /\ data'[j] = "held" => data[j] = "held"
                          /\ data'[j] # "none" => data[j] # "none"
                          /\ j \notin R!Stored \cup {"own"} /\ data[j] # "none" => data'[j] # "none"
  BY <1>6
<1>14. \A j \in object : data'[j] = "none" => "store" \in rightsExcuse
  <2>1. object \subseteq R!Stored /\ R!Stored \subseteq R!Kinds \ {"own"}
    BY KindsAre DEF RightsInv, RightsType
  <2> QED BY <1>6, <2>1 DEF RightsInv, R!NothingStranded
<1>15. archive /\ ~subject' => "export" \in rightsExcuse
  BY <1>2, <1>3 DEF EraserOK
<1>16. subject' \in {subject, FALSE}
  BY <1>2
<1> QED BY <1>2, <1>6, <1>7, <1>9, <1>10, <1>11, <1>12, <1>13, <1>14, <1>15, <1>16, RightsByRemoving

LEMMA RightsByDroppingObject ==
  ASSUME RightsInv, NEW e \in Erasers, NEW k \in R!Stored, R!Plan[erase[e].n] = k, R!DropsObject(e, k),
         UNCHANGED <<subject, linked, archive, export, late>>
  PROVE  RightsInv'
<1>1. PICK t, s, u : t = erase[e] /\ s = t.scope \cup {k} /\ u = [t EXCEPT !.pc = "row", !.scope = s]
  OBVIOUS
<1>2. t.pc = "step" /\ erase' = [erase EXCEPT ![e] = u] /\ UNCHANGED data
  BY <1>1 DEF R!DropsObject, R!Goes, R!At
<1>3. /\ object' \subseteq object /\ rightsExcuse \subseteq rightsExcuse'
      /\ k \in object' => "store" \in rightsExcuse'
  BY DEF R!DropsObject
<1>4. IsErasure(t) /\ EraserOK(t) /\ s \subseteq R!Kinds
  <2>1. IsErasure(t) /\ EraserOK(t)
    BY <1>1, RightsHas
  <2>2. t.scope \subseteq R!Kinds /\ k \in R!Kinds
    BY <2>1, KindsAre DEF IsErasure
  <2> QED BY <1>1, <2>1, <2>2
<1>5. IsErasure(u) /\ u.pc = "row" /\ u.scope = s /\ u.n = t.n
  <2>1. t.n \in 0 .. 10 /\ t.n # 0
    BY <1>2, <1>4 DEF IsErasure
  <2> QED BY <1>1, <1>4, <2>1 DEF IsErasure, R!NoErasure
<1>6. data[k] # "none"
  BY DEF R!DropsObject, R!Covers
<1>7. EraserOK(u)'
  <2>1. \A r : ReadBy(u, r) => ReadBy(t, r)
    BY <1>2 DEF ReadBy
  <2>2. \A j : Owed(j)' = Owed(j)
    BY <1>2 DEF Owed
  <2>3. \A j \in R!Kinds : Owed(j) /\ j # "own" /\ ReadBy(u, R!RootOf(j)) => R!RootOf(j) \in s
    BY <1>1, <1>4, <2>1 DEF EraserOK
  <2>4. Owed("message") \/ Owed("attachment") => "message" \in s
    BY <1>1, <1>2, <1>4 DEF EraserOK
  <2>5. \A j \in R!Stored : j \in s => j = k
    BY <1>1, <1>2, <1>4 DEF EraserOK
  <2>6. /\ archive => "export" \in rightsExcuse
        /\ \A m \in 1 .. 9 : m < u.n => ~Owed(R!Plan[m])
    BY <1>2, <1>4, <1>5 DEF EraserOK
  <2>7. R!Plan[u.n] = k /\ k \in s
    BY <1>1, <1>5
  <2> QED BY <1>2, <1>3, <1>5, <1>6, <2>2, <2>3, <2>4, <2>5, <2>6, <2>7 DEF EraserOK
<1>8. erase[e].pc # "idle" /\ archive' \in {archive, FALSE}
  BY <1>1, <1>2
<1> QED BY <1>2, <1>3, <1>5, <1>7, <1>8, RightsByGoing

\* The rows are gone already: another erasure deleted them.
LEMMA RightsByMissing ==
  ASSUME RightsInv, NEW e \in Erasers, NEW k \in R!Stored, R!Plan[erase[e].n] = k, erase[e].pc = "row",
         k \notin erase[e].scope, R!Goes(e, R!Passed(e)),
         UNCHANGED <<subject, linked, archive, export, late, data, object, rightsExcuse>>
  PROVE  RightsInv'
<1>1. PICK t, n, u : t = erase[e] /\ n = t.n /\ u = R!Passed(e)
  OBVIOUS
<1>2. erase' = [erase EXCEPT ![e] = u] /\ t.pc = "row" /\ R!Plan[n] = k /\ k # "customer" /\ k # "own"
  BY <1>1, KindsAre DEF R!Goes
<1>3. n \in 1 .. 10 /\ n <= 9 /\ k \in R!Planned /\ k \in R!Kinds
  BY <1>1, <1>2, StepsTo
<1>4. IsErasure(t) /\ EraserOK(t)
  BY <1>1, RightsHas
<1>5. IsErasure(u) /\ u.pc = "step" /\ u.n = n + 1 /\ u.scope = t.scope
  BY <1>1, <1>2, <1>3, PassedIs
<1>6. \A j : Owed(j)' = Owed(j)
  BY DEF Owed
<1>7. u.scope \cap R!Stored = {}
  BY <1>1, <1>2, <1>4, <1>5 DEF EraserOK
<1>8. ~Owed(R!Plan[t.n])' /\ ~Owed(k)
  BY <1>1, <1>2, <1>4, <1>6 DEF EraserOK
<1>9. /\ u.n = t.n + 1 /\ t.n <= 9 /\ t.pc \in {"step", "row"} /\ t.scope \ u.scope \subseteq R!Stored
      /\ u.scope \subseteq t.scope
  BY <1>1, <1>2, <1>3, <1>5
<1>10. EraserOK(u)'
  BY <1>4, <1>5, <1>6, <1>7, <1>8, <1>9, PassesWell
<1>11. erase[e].pc # "idle" /\ archive' \in {archive, FALSE} /\ object' \subseteq object
  OBVIOUS
<1> QED BY <1>2, <1>5, <1>10, <1>11, RightsByGoing

LEMMA RightsByDroppingRow ==
  ASSUME RightsInv, NEW e \in Erasers, NEW k \in R!Stored, R!Plan[erase[e].n] = k, erase[e].pc = "row",
         k \in erase[e].scope, data' = [data EXCEPT ![k] = "none"],
         erase' = [f \in Erasers |-> [(IF f = e THEN R!Passed(e) ELSE erase[f]) EXCEPT !.scope = @ \ {k}]],
         UNCHANGED <<subject, linked, archive, export, late, object, rightsExcuse>>
  PROVE  RightsInv'
<1>1. PICK t, n, v, s, u : /\ t = erase[e] /\ n = t.n /\ v = R!Passed(e) /\ s = t.scope \ {k}
                           /\ u = [v EXCEPT !.scope = s]
  OBVIOUS
<1>2. t.pc = "row" /\ R!Plan[n] = k /\ k # "customer" /\ k # "own"
  BY <1>1, KindsAre
<1>3. n \in 1 .. 10 /\ n <= 9 /\ k \in R!Planned /\ k \in R!Kinds
  BY <1>1, <1>2, StepsTo
<1>4. IsErasure(t) /\ EraserOK(t)
  BY <1>1, RightsHas
<1>5. IsErasure(v) /\ v.pc = "step" /\ v.n = n + 1 /\ v.scope = t.scope
  BY <1>1, <1>2, <1>3, PassedIs
<1>6. IsErasure(u) /\ u.pc = "step" /\ u.n = n + 1 /\ u.scope = s
  <2>1. s \subseteq R!Kinds
    BY <1>1, <1>4 DEF IsErasure
  <2> QED BY <1>1, <1>5, <2>1 DEF IsErasure, R!NoErasure
<1>7. \A f \in Erasers \ {e} : erase'[f] = [erase[f] EXCEPT !.scope = erase[f].scope \ {k}]
  OBVIOUS
<1>8. erase'[e] = u
  BY <1>1, <1>5
<1>9. ASSUME NEW f \in Erasers \ {e}
      PROVE  /\ IsErasure(erase'[f]) /\ erase'[f].pc = erase[f].pc /\ erase'[f].n = erase[f].n
             /\ erase'[f].scope = erase[f].scope \ {k}
  <2>1. PICK w, r, x : w = erase[f] /\ r = w.scope \ {k} /\ x = [w EXCEPT !.scope = r]
    OBVIOUS
  <2>2. IsErasure(w) /\ r \subseteq R!Kinds
    <3>1. IsErasure(w)
      BY <2>1, RightsHas
    <3> QED BY <2>1, <3>1 DEF IsErasure
  <2>3. w.pc = "idle" => r = w.scope
    BY <2>1, <2>2, NoErasureIs DEF IsErasure
  <2>4. IsErasure(x) /\ x.pc = w.pc /\ x.n = w.n /\ x.scope = r
    BY <2>1, <2>2, <2>3 DEF IsErasure
  <2> QED BY <1>7, <2>1, <2>4
<1>10. /\ data' \in [R!Kinds -> {"none", "held", "erased"}] /\ data'[k] = "none"
       /\ \A j \in R!Kinds \ {k} : data'[j] = data[j]
  BY <1>3 DEF RightsInv, RightsType
<1>11. \A j \in R!Kinds : Owed(j)' => Owed(j) /\ j # k
  BY <1>10 DEF Owed
<1>12. ~Owed(k)'
  BY <1>10 DEF Owed
<1>13. EraserOK(u)'
  <2>1. /\ u.scope \cap R!Stored = {} /\ t.scope \ u.scope \subseteq R!Stored /\ u.scope \subseteq t.scope
        /\ ~Owed(R!Plan[t.n])' /\ u.n = t.n + 1 /\ t.n <= 9 /\ t.pc \in {"step", "row"}
    BY <1>1, <1>2, <1>3, <1>4, <1>6, <1>12 DEF EraserOK
  <2> QED BY <1>4, <1>6, <1>11, <2>1, PassesWell
<1>14. EraserOK(erase[e])'
  BY <1>8, <1>13 DEF EraserOK, Owed
<1>15. \A f \in Erasers : IsErasure(erase'[f])
  BY <1>6, <1>8, <1>9
<1>16. erase' \in [Erasers -> {erase'[f] : f \in Erasers}]
  OBVIOUS
<1>17. ASSUME NEW f \in Erasers \ {e}
       PROVE  /\ erase'[f].pc = erase[f].pc /\ erase'[f].n = erase[f].n
              /\ erase'[f].scope \subseteq erase[f].scope
              /\ erase[f].scope \ erase'[f].scope \subseteq R!Stored
              /\ \A j \in erase[f].scope \ erase'[f].scope : ~Owed(j)'
              /\ \A j \in R!Stored : j \in erase'[f].scope => data'[j] # "none"
  <2>1. PICK w : w = erase[f]
    OBVIOUS
  <2>2. EraserOK(w) /\ erase'[f].scope = w.scope \ {k}
    BY <1>9, <2>1, RightsHas
  <2>3. \A j \in R!Stored : j \in w.scope \ {k} => data'[j] # "none"
    BY <1>10, <2>2, KindsAre DEF EraserOK
  <2> QED BY <1>9, <1>12, <2>1, <2>2, <2>3
<1>18. ASSUME NEW j \in R!Planned, Owed(j)' PROVE R!Found(j)'
  <2>1. Owed(j)
    BY <1>11, <1>18, PlannedAre, KindsAre
  <2> QED BY <2>1 DEF RightsInv, R!NothingStranded, Owed, R!Found
<1>19. \A j \in R!Kinds : /\ data'[j] = "held" => data[j] = "held"
                          /\ data'[j] # "none" => data[j] # "none"
                          /\ j \notin R!Stored \cup {"own"} /\ data[j] # "none" => data'[j] # "none"
  BY <1>10
<1>20. \A j \in object : data'[j] = "none" => "store" \in rightsExcuse
  <2>1. object \subseteq R!Stored /\ R!Stored \subseteq R!Kinds
    BY KindsAre DEF RightsInv, RightsType
  <2>2. k \in object => "store" \in rightsExcuse
    BY <1>1, <1>4 DEF EraserOK
  <2> QED BY <1>10, <2>1, <2>2 DEF RightsInv, R!NothingStranded
<1>21. archive /\ ~subject' => "export" \in rightsExcuse
  BY DEF RightsInv, R!NothingStranded
<1>22. erase[e].pc # "idle" /\ subject' \in {subject, FALSE}
  OBVIOUS
<1> QED BY <1>10, <1>14, <1>15, <1>16, <1>17, <1>18, <1>19, <1>20, <1>21, <1>22, RightsByRemoving

LEMMA RightsByArriving == ASSUME RightsInv, NEW k \in Arriving, R!Arrives(k) PROVE RightsInv'
<1>1. /\ k \in R!Kinds /\ data[k] = "none" /\ data' = [data EXCEPT ![k] = "held"]
      /\ IF k \in DOMAIN R!Parent THEN data[R!Parent[k]] # "none" ELSE subject
      /\ linked' = linked \cup ({k} \cap R!Roots) /\ object' = object \cup ({k} \cap R!Stored)
      /\ late' = (IF R!Erasing \/ (k \in DOMAIN R!Parent /\ ~R!Found(R!Parent[k])) THEN late \cup {k} ELSE late)
      /\ UNCHANGED <<subject, archive, erase, export, rightsExcuse>>
  BY ContactsAssumption DEF R!Arrives
<1>2. /\ data' \in [R!Kinds -> {"none", "held", "erased"}] /\ data'[k] = "held"
      /\ \A j \in R!Kinds \ {k} : data'[j] = data[j]
  BY <1>1 DEF RightsInv, RightsType
<1>3. late \subseteq late'
  BY <1>1
<1>4. \A j \in R!Kinds \ {k} : Owed(j)' => Owed(j)
  BY <1>2, <1>3 DEF Owed
<1>5. ASSUME NEW f \in Erasers PROVE EraserOK(erase[f])'
  <2>1. PICK t : t = erase[f]
    OBVIOUS
  <2>2. IsErasure(t) /\ EraserOK(t) /\ erase'[f] = t /\ (t.pc # "idle" => R!Erasing)
    BY <1>1, <2>1, RightsHas
  <2>3. CASE t.pc = "idle"
    <3>1. t.scope = {}
      BY <2>2, <2>3, NoErasureIs DEF IsErasure
    <3>2. EraserOK(t)'
      BY <2>3, <3>1 DEF EraserOK, ReadBy
    <3> QED BY <2>2, <3>2 DEF EraserOK, Owed
  <2>4. CASE t.pc # "idle"
    <3>1. k \in late'
      BY <1>1, <2>2, <2>4
    <3>2. \A j \in R!Kinds : Owed(j)' => Owed(j)
      BY <1>4, <3>1 DEF Owed
    <3>3. \A j \in R!Stored : j \in t.scope => j # k /\ data'[j] # "none" /\ (j \in object' => j \in object \/ "store" \in rightsExcuse')
      BY <1>1, <1>2, <2>2, KindsAre DEF EraserOK
    <3>4. /\ t.scope \subseteq t.scope /\ t.scope \ t.scope \subseteq R!Stored /\ \A j \in t.scope \ t.scope : ~Owed(j)'
          /\ rightsExcuse \subseteq rightsExcuse' /\ (archive' => archive \/ "export" \in rightsExcuse')
      BY <1>1
    <3>5. EraserOK(t)'
      BY <2>2, <3>2, <3>3, <3>4, EraserStands
    <3> QED BY <2>2, <3>5 DEF EraserOK, Owed
  <2> QED BY <2>3, <2>4
<1>6. RightsType'
  <2>1. object' \subseteq R!Stored
    BY <1>1 DEF RightsInv, RightsType
  <2> QED BY <1>1, <1>2, <2>1 DEF RightsInv, RightsType
<1>7. \A j \in DOMAIN R!Parent : data'[j] # "none" => data'[R!Parent[j]] # "none"
  <2> SUFFICES ASSUME NEW j \in DOMAIN R!Parent, data'[j] # "none" PROVE data'[R!Parent[j]] # "none"
    OBVIOUS
  <2>1. j \in R!Kinds /\ R!Parent[j] \in R!Kinds
    BY RootsOfKinds, KindsAre, ParentsAre
  <2>2. data[R!Parent[j]] # "none"
    BY <1>1, <1>2, <2>1 DEF RightsInv
  <2> QED BY <1>2, <2>1, <2>2
<1>8. export' /\ (R!Erasing' \/ ~subject') => "export" \in rightsExcuse'
  <2>1. R!Erasing' = R!Erasing
    BY <1>1 DEF R!Erasing
  <2> QED BY <1>1, <2>1 DEF RightsInv
<1>9. R!NothingStranded'
  <2>1. \A j : R!Found(j) => R!Found(j)'
    BY <1>1 DEF R!Found
  <2>2. ASSUME NEW j \in R!Planned, data'[j] = "held", j \notin late' PROVE R!Found(j)'
    <3>1. j \in R!Kinds
      BY PlannedAre, KindsAre
    <3>2. CASE j # k
      BY <1>2, <1>3, <2>1, <2>2, <3>1, <3>2 DEF RightsInv, R!NothingStranded
    <3>3. CASE j = k
      <4>1. k \in DOMAIN R!Parent => R!Found(R!Parent[k])
        BY <1>1, <2>2, <3>3
      <4>2. CASE k \in DOMAIN R!Parent
        BY <1>1, <3>3, <4>1, <4>2, RootsOfKinds DEF R!Found
      <4>3. CASE k \notin DOMAIN R!Parent
        <5>1. subject /\ k \in R!Roots \cup {"own"}
          BY <1>1, <4>3, KindsAre, ParentsAre
        <5> QED BY <1>1, <3>3, <5>1, RootsOfKinds DEF R!Found
      <4> QED BY <4>2, <4>3
    <3> QED BY <3>2, <3>3
  <2>3. \A j \in object' : data'[j] = "none" => "store" \in rightsExcuse'
    <3>1. object \subseteq R!Stored /\ R!Stored \subseteq R!Kinds
      BY KindsAre DEF RightsInv, RightsType
    <3> QED BY <1>1, <1>2, <3>1 DEF RightsInv, R!NothingStranded
  <2>4. archive' /\ ~subject' => "export" \in rightsExcuse'
    BY <1>1 DEF RightsInv, R!NothingStranded
  <2> QED BY <2>2, <2>3, <2>4 DEF R!NothingStranded
<1> QED BY <1>5, <1>6, <1>7, <1>8, <1>9 DEF RightsInv

\* The export reads the tables and stores what it read.
LEMMA RightsByExporting == ASSUME RightsInv, R!ExportReads \/ R!ExportStores PROVE RightsInv'
<1>1. /\ UNCHANGED <<subject, data, linked, object, erase, late>>
      /\ rightsExcuse \subseteq rightsExcuse' /\ archive' \in BOOLEAN /\ export' \in BOOLEAN
  BY DEF R!ExportReads, R!ExportStores, RightsInv, RightsType
<1>2. /\ export' /\ R!Erasing => "export" \in rightsExcuse'
      /\ export' /\ ~subject => "export" \in rightsExcuse'
      /\ archive' => archive \/ export
  BY DEF R!ExportReads, R!ExportStores, RightsInv
<1>3. \A j : Owed(j)' = Owed(j)
  BY <1>1 DEF Owed
<1>4. ASSUME NEW f \in Erasers PROVE EraserOK(erase[f])'
  <2>1. PICK t : t = erase[f]
    OBVIOUS
  <2>2. IsErasure(t) /\ EraserOK(t) /\ erase'[f] = t /\ (t.pc # "idle" => R!Erasing)
    BY <1>1, <2>1, RightsHas
  <2>3. CASE t.pc = "idle"
    <3>1. t.scope = {}
      BY <2>2, <2>3, NoErasureIs DEF IsErasure
    <3>2. EraserOK(t)'
      BY <2>3, <3>1 DEF EraserOK, ReadBy
    <3> QED BY <2>2, <3>2 DEF EraserOK, Owed
  <2>4. CASE t.pc # "idle"
    <3>1. archive' => archive \/ "export" \in rightsExcuse'
      BY <1>1, <1>2, <2>2, <2>4 DEF RightsInv
    <3>2. \A j \in R!Stored : j \in t.scope => data'[j] # "none" /\ (j \in object' => j \in object \/ "store" \in rightsExcuse')
      BY <1>1, <2>2 DEF EraserOK
    <3>3. t.scope \subseteq t.scope /\ t.scope \ t.scope \subseteq R!Stored /\ \A j \in t.scope \ t.scope : ~Owed(j)'
      OBVIOUS
    <3>4. EraserOK(t)'
      BY <1>1, <1>3, <2>2, <3>1, <3>2, <3>3, EraserStands
    <3> QED BY <2>2, <3>4 DEF EraserOK, Owed
  <2> QED BY <2>3, <2>4
<1>5. RightsType'
  BY <1>1 DEF RightsInv, RightsType
<1>6. export' /\ (R!Erasing' \/ ~subject') => "export" \in rightsExcuse'
  <2>1. R!Erasing' = R!Erasing
    BY <1>1 DEF R!Erasing
  <2> QED BY <1>1, <1>2, <2>1
<1>7. R!NothingStranded'
  <2>1. \A j : R!Found(j)' = R!Found(j)
    BY <1>1 DEF R!Found
  <2>2. \A j \in R!Planned : data'[j] = "held" /\ j \notin late' => R!Found(j)'
    BY <1>1, <2>1 DEF RightsInv, R!NothingStranded
  <2>3. \A j \in object' : data'[j] = "none" => "store" \in rightsExcuse'
    BY <1>1 DEF RightsInv, R!NothingStranded
  <2>4. archive' /\ ~subject' => "export" \in rightsExcuse'
    BY <1>1, <1>2 DEF RightsInv, R!NothingStranded
  <2> QED BY <2>2, <2>3, <2>4 DEF R!NothingStranded
<1> QED BY <1>1, <1>4, <1>5, <1>6, <1>7 DEF RightsInv

LEMMA RightsByErasingStored == ASSUME RightsInv, NEW e \in Erasers, R!ErasesStored(e) PROVE RightsInv'
<1>1. PICK k \in R!Stored :
        /\ R!Plan[erase[e].n] = k
        /\ \/ R!DropsObject(e, k) \/ R!DropsRow(e, k)
           \/ R!At(e, "step") /\ ~R!Covers(e, k) /\ R!Goes(e, R!Passed(e)) /\ UNCHANGED <<data, object, rightsExcuse>>
  BY DEF R!ErasesStored
<1>2. UNCHANGED <<subject, linked, archive, export, late>>
  BY DEF R!ErasesStored
<1>3. CASE R!DropsObject(e, k)
  BY <1>1, <1>2, <1>3, RightsByDroppingObject
<1>4. CASE R!DropsRow(e, k)
  <2>1. erase[e].pc = "row" /\ UNCHANGED <<object, rightsExcuse>>
    BY <1>4 DEF R!DropsRow, R!At
  <2>2. CASE k \in erase[e].scope
    <3>1. /\ data' = [data EXCEPT ![k] = "none"]
          /\ erase' = [f \in Erasers |-> [(IF f = e THEN R!Passed(e) ELSE erase[f]) EXCEPT !.scope = @ \ {k}]]
      BY <1>4, <2>2 DEF R!DropsRow
    <3> QED BY <1>1, <1>2, <2>1, <2>2, <3>1, RightsByDroppingRow
  <2>3. CASE k \notin erase[e].scope
    <3>1. R!Goes(e, R!Passed(e)) /\ UNCHANGED data
      BY <1>4, <2>3 DEF R!DropsRow
    <3> QED BY <1>1, <1>2, <2>1, <2>3, <3>1, RightsByMissing
  <2> QED BY <2>2, <2>3
<1>5. CASE R!At(e, "step") /\ ~R!Covers(e, k) /\ R!Goes(e, R!Passed(e)) /\ UNCHANGED <<data, object, rightsExcuse>>
  <2>1. erase[e].pc = "step" /\ R!Plan[erase[e].n] # "customer"
    BY <1>1, <1>5, KindsAre DEF R!At
  <2> QED BY <1>1, <1>2, <1>5, <2>1, RightsByPassing
<1> QED BY <1>1, <1>3, <1>4, <1>5

LEMMA RightsInit == R!Init => RightsInv
<1> SUFFICES ASSUME R!Init PROVE RightsInv
  OBVIOUS
<1>1. /\ subject = TRUE /\ data = [k \in R!Kinds |-> "none"] /\ object = {} /\ archive = FALSE /\ export = FALSE
      /\ erase = [e \in Erasers |-> R!NoErasure]
  BY DEF R!Init
<1>2. ASSUME NEW e \in Erasers PROVE EraserOK(erase[e])
  <2>1. PICK t : t = R!NoErasure
    OBVIOUS
  <2>2. t.pc = "idle" /\ t.scope = {}
    BY <2>1, NoErasureIs
  <2>3. EraserOK(t)
    BY <2>2 DEF EraserOK, ReadBy
  <2> QED BY <1>1, <2>1, <2>3
<1>3. RightsType
  BY <1>1, NoErasureIs DEF RightsType
<1>4. \A k \in DOMAIN R!Parent : data[k] # "none" => data[R!Parent[k]] # "none"
  BY <1>1 DEF R!Kinds
<1>5. R!NothingStranded
  BY <1>1, PlannedAre, KindsAre DEF R!NothingStranded
<1> QED BY <1>1, <1>2, <1>3, <1>4, <1>5 DEF RightsInv

LEMMA RightsStep == ASSUME RightsInv, R!Next PROVE RightsInv'
<1>1. CASE \E k \in Arriving : R!Arrives(k)
  BY <1>1, RightsByArriving
<1>2. CASE R!ExportReads \/ R!ExportStores
  BY <1>2, RightsByExporting
<1>3. ASSUME NEW e \in Erasers,
             \/ R!Begins(e) \/ R!ReadsIds(e) \/ R!ReadsMessages(e) \/ R!DropsArchive(e)
             \/ R!Erases(e) \/ R!ErasesStored(e) \/ R!ErasesCustomer(e) \/ R!Stops(e)
      PROVE  RightsInv'
  BY <1>3, RightsByBeginning, RightsByReadingIds, RightsByReadingMessages, RightsByDroppingArchive,
     RightsByErasing, RightsByErasingStored, RightsByErasingCustomer, RightsByStopping, Zenon
<1> QED BY <1>1, <1>2, <1>3 DEF R!Next

LEMMA RightsStays == ASSUME RightsInv, UNCHANGED rightsVars PROVE RightsInv'
<1>1. UNCHANGED <<subject, data, linked, object, archive, erase, export, late, rightsExcuse>>
  BY DEF rightsVars
<1>2. \A k : Owed(k)' = Owed(k)
  BY <1>1 DEF Owed
<1>3. \A e \in Erasers : EraserOK(erase[e])'
  BY <1>1, <1>2 DEF RightsInv, EraserOK
<1>4. RightsType'
  BY <1>1 DEF RightsInv, RightsType
<1>5. \A k : R!Found(k)' = R!Found(k)
  BY <1>1 DEF R!Found
<1>6. R!NothingStranded'
  BY <1>1, <1>5 DEF RightsInv, R!NothingStranded
<1>7. R!Erasing' = R!Erasing
  BY <1>1 DEF R!Erasing
<1> QED BY <1>1, <1>3, <1>4, <1>6, <1>7 DEF RightsInv

\* Wherever the erasures of a customer stop, and however many run side by side, the next
\* one finds what they left; the tables in the plan come in an order that never takes a row
\* from its customer before what hangs off it is erased (erasure-plan.ts:126-137,
\* subject-rights.service.ts:155-289).
THEOREM NothingStrandedTheorem == AllSpec => []NothingStranded
<1>1. RightsInv /\ [AllNext]_AllVars => RightsInv'
  BY StepsOnePart, RightsStep, RightsStays
<1>2. RightsInv => NothingStranded
  BY DEF RightsInv, NothingStranded
<1> QED BY <1>1, <1>2, StartsEveryPart, RightsInit, PTL DEF AllSpec
-----------------------------------------------------------------------------
(* Customers and their contacts. Merged records form chains: a record is    *)
(* ranked above the one it was merged into, and no higher than there are    *)
(* merged records, so that the survivor is at most that many steps away.    *)

Merged == {c \in C!Made : ~C!Lives(c)}
Ranks(f) ==
  /\ f \in [People -> Nat]
  /\ \A c \in C!Made : /\ f[c] <= Cardinality(Merged)
                       /\ C!Lives(c) \/ (customer[c] \in C!Made /\ f[customer[c]] < f[c])
AtHome(c) == c \in C!Made /\ C!Lives(c)
TaskOK(t) ==
  /\ t.pc \in {"create", "open", "add"} => t.k \in Messages
  /\ t.pc = "open" => AtHome(t.id)
  /\ t.pc = "add" => t.id \in People
  /\ t.pc = "merge" => AtHome(t.id) /\ AtHome(t.to) /\ t.id # t.to /\ t.mine \cap t.theirs = {}
Leads ==
  /\ customer \in [People -> People \cup {NoCustomer, Erased}]
  /\ contact \in [Messages -> People \cup {NoCustomer}]
  /\ talk \in [Messages -> People \cup {NoCustomer}]
  /\ known \subseteq Messages
  /\ merging \in [Handlers -> {merging[r] : r \in Handlers}]
  /\ \E f : Ranks(f)
  /\ \A k \in known : contact[k] \in C!Made
  /\ \A k \in Messages : talk[k] # NoCustomer => AtHome(talk[k])
  /\ \A r \in Handlers : TaskOK(merging[r])
LeadInv == mergeExcuse = {} => Leads

LEMMA NoTaskIs ==
  /\ TaskOK(C!NoTask) /\ C!NoTask.pc = "idle"
  /\ C!NoTask = [pc |-> "idle", k |-> NoCustomer, id |-> NoCustomer, to |-> NoCustomer, mine |-> {}, theirs |-> {}]
<1>1. C!NoTask = [pc |-> "idle", k |-> NoCustomer, id |-> NoCustomer, to |-> NoCustomer, mine |-> {}, theirs |-> {}]
  BY DEF C!NoTask
<1>2. C!NoTask.pc = "idle"
  BY <1>1
<1> QED BY <1>1, <1>2 DEF TaskOK

LEMMA SurvivorLives ==
  ASSUME NEW STATE c, C!Survivor(c) # NoCustomer
  PROVE  AtHome(C!Survivor(c))
<1>1. PICK last : last = C!Survivor(c)
  OBVIOUS
<1>2. last \in People /\ C!Lives(last)
  BY <1>1 DEF C!Survivor
<1> QED BY <1>1, <1>2 DEF AtHome, C!Made, C!Lives

\* No record is merged or made.
LEMMA LeadsByTask ==
  ASSUME Leads, UNCHANGED customer, NEW r \in Handlers, NEW t, TaskOK(t), merging' = [merging EXCEPT ![r] = t],
         contact' \in [Messages -> People \cup {NoCustomer}],
         talk' \in [Messages -> People \cup {NoCustomer}],
         known' \subseteq Messages, \A k \in known' : contact'[k] \in C!Made,
         \A k \in Messages : talk'[k] # NoCustomer => AtHome(talk'[k])
  PROVE  Leads'
<1>1. C!Made' = C!Made
  BY DEF C!Made
<1>2. \A c : C!Lives(c)' = C!Lives(c)
  BY DEF C!Lives
<1>3. \A c : AtHome(c)' = AtHome(c)
  BY <1>1, <1>2 DEF AtHome
<1>4. \E f : Ranks(f)'
  <2>1. PICK f : Ranks(f)
    BY DEF Leads
  <2>2. Merged' = Merged
    BY <1>1, <1>2 DEF Merged
  <2>3. Ranks(f)'
    BY <1>1, <1>2, <2>1, <2>2 DEF Ranks
  <2> QED BY <2>3
<1>5. merging' \in [Handlers -> {merging'[q] : q \in Handlers}] /\ \A q \in Handlers : merging'[q] = IF q = r THEN t ELSE merging[q]
  BY DEF Leads
<1>6. ASSUME NEW q \in Handlers PROVE TaskOK(merging[q])'
  <2>1. PICK u : u = merging'[q]
    OBVIOUS
  <2>2. TaskOK(u)
    BY <1>5, <2>1 DEF Leads
  <2>3. TaskOK(u)'
    BY <1>3, <2>2 DEF TaskOK
  <2> QED BY <2>1, <2>3 DEF TaskOK, AtHome, C!Made, C!Lives
<1>7. \A k \in Messages : talk'[k] # NoCustomer => AtHome(talk[k])'
  <2> SUFFICES ASSUME NEW k \in Messages, talk'[k] # NoCustomer PROVE AtHome(talk[k])'
    OBVIOUS
  <2>1. PICK c : c = talk'[k]
    OBVIOUS
  <2>2. AtHome(c)'
    BY <1>3, <2>1
  <2> QED BY <2>1, <2>2 DEF AtHome, C!Made, C!Lives
<1> QED BY <1>1, <1>4, <1>5, <1>6, <1>7 DEF Leads

\* Only the task moves.
LEMMA LeadsByTaskAlone ==
  ASSUME Leads, UNCHANGED <<customer, contact, talk, known>>, NEW r \in Handlers, NEW t, TaskOK(t),
         merging' = [merging EXCEPT ![r] = t]
  PROVE  Leads'
<1>1. /\ contact' \in [Messages -> People \cup {NoCustomer}]
      /\ talk' \in [Messages -> People \cup {NoCustomer}]
      /\ known' \subseteq Messages /\ \A k \in known' : contact'[k] \in C!Made
      /\ \A k \in Messages : talk'[k] # NoCustomer => AtHome(talk'[k])
  BY DEF Leads
<1> QED BY <1>1, LeadsByTask

LEMMA LeadsByFinding == ASSUME Leads, NEW r \in Handlers, NEW k \in Messages, C!Finds(r, k) PROVE Leads'
<1>1. CASE contact[k] # NoCustomer
  <2>1. PICK c, t : c = C!Survivor(contact[k]) /\ t = [C!NoTask EXCEPT !.pc = "open", !.k = k, !.id = c]
    OBVIOUS
  <2>2. c # NoCustomer /\ merging' = [merging EXCEPT ![r] = t] /\ UNCHANGED <<customer, contact, talk, known>>
    BY <1>1, <2>1 DEF C!Finds, C!Begins
  <2>3. AtHome(c)
    BY <2>1, <2>2, SurvivorLives
  <2>4. t.pc = "open" /\ t.k = k /\ t.id = c
    BY <2>1, NoTaskIs
  <2>5. TaskOK(t)
    BY <2>3, <2>4 DEF TaskOK
  <2> QED BY <2>2, <2>5, LeadsByTaskAlone
<1>2. CASE contact[k] = NoCustomer
  <2>1. PICK t : t = [C!NoTask EXCEPT !.pc = "create", !.k = k]
    OBVIOUS
  <2>2. merging' = [merging EXCEPT ![r] = t] /\ UNCHANGED <<customer, contact, talk, known>>
    BY <1>2, <2>1 DEF C!Finds, C!Begins
  <2>3. t.pc = "create" /\ t.k = k
    BY <2>1, NoTaskIs
  <2>4. TaskOK(t)
    BY <2>3 DEF TaskOK
  <2> QED BY <2>2, <2>4, LeadsByTaskAlone
<1> QED BY <1>1, <1>2

LEMMA LeadsByOpening == ASSUME Leads, NEW r \in Handlers, C!Opens(r) PROVE Leads'
<1>1. PICK u, t : u = merging[r] /\ t = C!NoTask
  OBVIOUS
<1>2. /\ u.pc = "open" /\ talk' = [talk EXCEPT ![u.k] = IF u.id \in C!Made THEN u.id ELSE NoCustomer]
      /\ merging' = [merging EXCEPT ![r] = t] /\ UNCHANGED <<customer, contact, known>>
  BY <1>1 DEF C!Opens, C!At, C!Goes
<1>3. AtHome(u.id) /\ u.k \in Messages
  BY <1>1, <1>2 DEF Leads, TaskOK
<1>4. talk' = [talk EXCEPT ![u.k] = u.id] /\ u.id \in People
  BY <1>2, <1>3 DEF AtHome, C!Made
<1>5. /\ contact' \in [Messages -> People \cup {NoCustomer}]
      /\ talk' \in [Messages -> People \cup {NoCustomer}]
      /\ known' \subseteq Messages /\ \A k \in known' : contact'[k] \in C!Made
      /\ \A k \in Messages : talk'[k] # NoCustomer => AtHome(talk'[k])
  BY <1>2, <1>3, <1>4 DEF Leads
<1> QED BY <1>1, <1>2, <1>5, LeadsByTask, NoTaskIs

LEMMA LeadsByAdding == ASSUME Leads, NEW r \in Handlers, NEW c \in People, NEW k \in Messages, C!Adds(r, c, k) PROVE Leads'
<1>1. PICK t : t = [C!NoTask EXCEPT !.pc = "add", !.k = k, !.id = c]
  OBVIOUS
<1>2. merging' = [merging EXCEPT ![r] = t] /\ UNCHANGED <<customer, contact, talk, known>>
  BY <1>1 DEF C!Adds, C!Begins
<1>3. t.pc = "add" /\ t.k = k /\ t.id = c
  BY <1>1, NoTaskIs
<1>4. TaskOK(t)
  BY <1>3 DEF TaskOK
<1> QED BY <1>2, <1>4, LeadsByTaskAlone

LEMMA LeadsByAttaching == ASSUME Leads, NEW r \in Handlers, C!Attaches(r) PROVE Leads'
<1>1. PICK u, t : u = merging[r] /\ t = C!NoTask
  OBVIOUS
<1>2. /\ u.pc = "add"
      /\ \/ contact' = [contact EXCEPT ![u.k] = u.id] /\ known' = known \cup {u.k} /\ u.id \in C!Made
         \/ UNCHANGED <<contact, known>>
      /\ merging' = [merging EXCEPT ![r] = t] /\ UNCHANGED <<customer, talk>>
  BY <1>1 DEF C!Attaches, C!At, C!Goes
<1>3. u.id \in People /\ u.k \in Messages
  BY <1>1, <1>2 DEF Leads, TaskOK
<1>4. /\ contact' \in [Messages -> People \cup {NoCustomer}]
      /\ talk' \in [Messages -> People \cup {NoCustomer}]
      /\ known' \subseteq Messages /\ \A k \in known' : contact'[k] \in C!Made
      /\ \A k \in Messages : talk'[k] # NoCustomer => AtHome(talk'[k])
  BY <1>2, <1>3 DEF Leads
<1> QED BY <1>1, <1>2, <1>4, LeadsByTask, NoTaskIs

LEMMA LessIsWellFounded ==
  \E less : IsWellFoundedOn(less, Nat) /\ \A i, j \in Nat : j < i => <<j, i>> \in less
<1> DEFINE Less == OpToRel(<, Nat)
<1>1. IsWellFoundedOn(Less, Nat)
  BY NatLessThanWellFounded
<1>2. \A i, j \in Nat : j < i => <<j, i>> \in Less
  BY DEF OpToRel
<1> HIDE DEF Less
<1> QED BY <1>1, <1>2

LEMMA LeastNatural ==
  \A S \in SUBSET Nat : S # {} => \E i \in S : \A j \in S : i <= j
<1>1. SUFFICES ASSUME NEW S \in SUBSET Nat, S # {} PROVE \E i \in S : \A j \in S : i <= j
  OBVIOUS
<1>2. PICK less : IsWellFoundedOn(less, Nat) /\ \A i, j \in Nat : j < i => <<j, i>> \in less
  BY LessIsWellFounded
<1>3. PICK i \in S : \A j \in S : ~ (<<j, i>> \in less)
  BY <1>1, <1>2, WFMin
<1>4. \A j \in S : i <= j
  <2> TAKE j \in S
  <2>1. i \in Nat /\ j \in Nat
    OBVIOUS
  <2>2. ~(j < i)
    BY <1>2, <1>3, <2>1
  <2> QED BY <2>1, <2>2
<1> QED BY <1>4

LEMMA SetInduction ==
  ASSUME NEW S, 0 \in S, \A k \in Nat : k \in S => k + 1 \in S
  PROVE  Nat \subseteq S
<1> SUFFICES ASSUME Nat \ S # {} PROVE FALSE
  OBVIOUS
<1>1. PICK i \in Nat \ S : \A j \in Nat \ S : i <= j
  BY LeastNatural
<1>2. i # 0 /\ i - 1 \in Nat /\ ~(i <= i - 1)
  BY <1>1
<1>3. i - 1 \in S
  BY <1>1, <1>2
<1> QED BY <1>1, <1>2, <1>3

\* The path of n records that starts at c.
After(x) == IF x \in People THEN customer[x] ELSE Erased
IsPath(f, c, n) == f = [i \in 0 .. n |-> IF i = 0 THEN c ELSE After(f[i - 1])]

LEMMA PathsExist ==
  ASSUME NEW c, NEW n \in Nat
  PROVE  \E f : IsPath(f, c, n)
<1> DEFINE S == {k \in Nat : \E f : IsPath(f, c, k)}
<1>1. 0 \in S
  <2> DEFINE f == [j \in 0 .. 0 |-> c]
  <2>1. f = [j \in 0 .. 0 |-> IF j = 0 THEN c ELSE After(f[j - 1])]
    OBVIOUS
  <2> QED BY <2>1 DEF IsPath
<1>2. ASSUME NEW k \in Nat, k \in S PROVE k + 1 \in S
  <2>1. PICK f : IsPath(f, c, k)
    BY <1>2
  <2> DEFINE g == [j \in 0 .. k + 1 |-> IF j = k + 1 THEN After(f[k]) ELSE f[j]]
  <2>2. /\ \A j \in 0 .. k : f[j] = IF j = 0 THEN c ELSE After(f[j - 1])
    BY <2>1, Zenon DEF IsPath
  <2>3. ASSUME NEW j \in 0 .. k + 1 PROVE g[j] = IF j = 0 THEN c ELSE After(g[j - 1])
    <3>1. CASE j = k + 1
      <4>1. j # 0 /\ j - 1 = k /\ k \in 0 .. k + 1 /\ k # k + 1
        BY <3>1
      <4> QED BY <3>1, <4>1
    <3>2. CASE j # k + 1 /\ j # 0
      <4>1. j \in 0 .. k /\ j - 1 \in 0 .. k + 1 /\ j - 1 # k + 1
        BY <3>2
      <4> QED BY <2>2, <3>2, <4>1
    <3>3. CASE j = 0
      <4>1. 0 # k + 1 /\ 0 \in 0 .. k
        OBVIOUS
      <4> QED BY <2>2, <3>3, <4>1
    <3> QED BY <3>1, <3>2, <3>3
  <2>4. g = [j \in 0 .. k + 1 |-> IF j = 0 THEN c ELSE After(g[j - 1])]
    <3> HIDE DEF g
    <3>1. g = [j \in 0 .. k + 1 |-> g[j]]
      BY DEF g
    <3> QED BY <2>3, <3>1
  <2>5. k + 1 \in Nat
    OBVIOUS
  <2> QED BY <2>4, <2>5 DEF IsPath
<1> HIDE DEF S
<1>3. n \in S
  BY <1>1, <1>2, SetInduction
<1> QED BY <1>3 DEF S

LEMMA CountsAgree == \A S : C!Cardinality(S) = Cardinality(S)
  BY Zenon DEF C!Cardinality, Cardinality

LEMMA ChainIsAPath ==
  ASSUME NEW c
  PROVE  IsPath(C!Chain(c), c, Cardinality(People))
<1> DEFINE N == Cardinality(People)
           at == CHOOSE f : IsPath(f, c, N)
<1>1. N \in Nat
  BY ContactsAssumption, FS_CardinalityType
<1>2. C!Chain(c) = at
  BY CountsAgree DEF C!Chain, IsPath, After
<1>3. IsPath(at, c, N)
  BY <1>1, PathsExist
<1> QED BY <1>2, <1>3

\* Each step of a chain is ranked lower, until it comes upon a record that lives.
LEMMA ChainDescends ==
  ASSUME NEW STATE f, Ranks(f), NEW STATE c, c \in C!Made
  PROVE  \A i \in 0 .. Cardinality(People) :
           LET x == C!Chain(c)[i] IN x \in C!Made /\ (C!Lives(x) \/ f[x] + i <= f[c])
<1> DEFINE N == Cardinality(People)
           at == C!Chain(c)
           S == {i \in Nat : i \in 0 .. N => at[i] \in C!Made /\ (C!Lives(at[i]) \/ f[at[i]] + i <= f[c])}
<1>0. N \in Nat
  BY ContactsAssumption, FS_CardinalityType
<1>1. \A i \in 0 .. N : at[i] = IF i = 0 THEN c ELSE After(at[i - 1])
  <2>1. at = [i \in 0 .. N |-> IF i = 0 THEN c ELSE After(at[i - 1])]
    BY ChainIsAPath DEF IsPath
  <2> HIDE DEF at
  <2> QED BY <2>1, Zenon
<1> HIDE DEF at, N
<1>f. \A x \in C!Made : f[x] \in Nat
  BY DEF Ranks, C!Made
<1>2. 0 \in S
  BY <1>0, <1>1, <1>f
<1>3. ASSUME NEW i \in Nat, i \in S PROVE i + 1 \in S
  <2> SUFFICES ASSUME i + 1 \in 0 .. N
               PROVE  at[i + 1] \in C!Made /\ (C!Lives(at[i + 1]) \/ f[at[i + 1]] + (i + 1) <= f[c])
    BY <1>3
  <2>1. i \in 0 .. N
    BY <1>0
  <2>2. PICK x : x = at[i] /\ x \in C!Made /\ (C!Lives(x) \/ f[x] + i <= f[c])
    BY <1>3, <2>1
  <2>3. at[i + 1] = customer[x]
    BY <1>0, <1>1, <2>2, i + 1 # 0 /\ (i + 1) - 1 = i DEF After, C!Made
  <2>4. CASE C!Lives(x)
    BY <2>2, <2>3, <2>4 DEF C!Lives
  <2>5. CASE ~C!Lives(x)
    <3>1. customer[x] \in C!Made /\ f[customer[x]] < f[x]
      BY <2>2, <2>5 DEF Ranks
    <3>2. f[customer[x]] \in Nat /\ f[x] \in Nat /\ f[c] \in Nat
      BY <1>f, <2>2, <3>1
    <3> QED BY <2>2, <2>3, <2>5, <3>1, <3>2
  <2> QED BY <2>4, <2>5
<1> HIDE DEF S
<1>4. Nat \subseteq S
  BY <1>2, <1>3, SetInduction
<1>5. \A i \in 0 .. N : at[i] \in C!Made /\ (C!Lives(at[i]) \/ f[at[i]] + i <= f[c])
  BY <1>0, <1>4 DEF S
<1> QED BY <1>5 DEF at, N

LEMMA MergedIsFinite ==
  /\ IsFiniteSet(Merged) /\ Cardinality(Merged) \in Nat /\ Cardinality(People) \in Nat
  /\ Cardinality(Merged) <= Cardinality(People)
<1>1. Merged \subseteq People
  BY DEF Merged, C!Made
<1>2. IsFiniteSet(Merged)
  BY <1>1, ContactsAssumption, FS_Subset
<1>3. Cardinality(Merged) <= Cardinality(People)
  BY <1>1, ContactsAssumption, FS_Subset
<1> QED BY <1>2, <1>3, ContactsAssumption, FS_CardinalityType

\* Every record leads to one that lives, and one that lives to itself.
LEMMA SurvivorIsThere ==
  ASSUME Leads, NEW STATE c, c \in C!Made
  PROVE  C!Survivor(c) # NoCustomer
<1>1. PICK f : Ranks(f)
  BY DEF Leads
<1>2. PICK n : n = Cardinality(People)
  OBVIOUS
<1>3. n \in Nat /\ Cardinality(Merged) <= n /\ Cardinality(Merged) \in Nat
  BY <1>2, MergedIsFinite
<1>4. PICK x : x = C!Chain(c)[n]
  OBVIOUS
<1>5. x \in C!Made /\ (C!Lives(x) \/ f[x] + n <= f[c])
  <2>1. n \in 0 .. Cardinality(People)
    BY <1>2, <1>3
  <2> QED BY <1>1, <1>4, <2>1, ChainDescends
<1>6. C!Lives(x)
  <2> SUFFICES ASSUME ~C!Lives(x) PROVE FALSE
    OBVIOUS
  <2>1. customer[x] \in C!Made /\ f[customer[x]] < f[x]
    BY <1>1, <1>5 DEF Ranks
  <2>2. f[customer[x]] \in Nat /\ f[x] \in Nat /\ f[c] \in Nat /\ f[c] <= Cardinality(Merged)
    BY <1>1, <1>5, <2>1 DEF Ranks, C!Made
  <2> QED BY <1>3, <1>5, <2>1, <2>2
<1>7. C!Survivor(c) = x
  <2>1. C!Cardinality(People) = n
    BY <1>2, CountsAgree
  <2> QED BY <1>4, <1>5, <1>6, <2>1 DEF C!Survivor, C!Made
<1> QED BY <1>5, <1>7, ContactsAssumption DEF C!Made

LEMMA SurvivorOfLiving ==
  ASSUME NEW c, AtHome(c)
  PROVE  C!Survivor(c) = c
<1> DEFINE N == Cardinality(People)
           at == C!Chain(c)
           S == {i \in Nat : i \in 0 .. N => at[i] = c}
<1>0. N \in Nat
  BY ContactsAssumption, FS_CardinalityType
<1>1. \A i \in 0 .. N : at[i] = IF i = 0 THEN c ELSE After(at[i - 1])
  <2>1. at = [i \in 0 .. N |-> IF i = 0 THEN c ELSE After(at[i - 1])]
    BY ChainIsAPath DEF IsPath
  <2> HIDE DEF at
  <2> QED BY <2>1, Zenon
<1> HIDE DEF at, N
<1>h. c \in People /\ customer[c] = c
  BY DEF AtHome, C!Made, C!Lives
<1>2. 0 \in S
  BY <1>0, <1>1
<1>3. ASSUME NEW i \in Nat, i \in S PROVE i + 1 \in S
  <2> SUFFICES ASSUME i + 1 \in 0 .. N PROVE at[i + 1] = c
    BY <1>3
  <2>1. at[i] = c
    BY <1>0, <1>3
  <2>2. at[i + 1] = After(at[i])
    BY <1>0, <1>1, i + 1 # 0 /\ (i + 1) - 1 = i
  <2> QED BY <1>h, <2>1, <2>2 DEF After
<1> HIDE DEF S
<1>4. Nat \subseteq S
  BY <1>2, <1>3, SetInduction
<1>5. at[N] = c
  BY <1>0, <1>4 DEF S
<1>6. C!Chain(c)[C!Cardinality(People)] = c
  BY <1>5, CountsAgree DEF at, N
<1> QED BY <1>h, <1>6 DEF C!Survivor, C!Lives

LEMMA LeadsByReading ==
  ASSUME Leads, NEW r \in Handlers, NEW s \in People, NEW t \in People, C!Reads(r, s, t), mergeExcuse' = {}
  PROVE  Leads'
<1>1. C!Lives(s) /\ C!Lives(t) /\ s # t /\ UNCHANGED <<customer, contact, talk, known>>
  BY DEF C!Reads
<1>2. AtHome(s) /\ AtHome(t)
  BY <1>1 DEF AtHome, C!Made, C!Lives
<1>3. C!Survivor(s) = s /\ C!Survivor(t) = t
  BY <1>2, SurvivorOfLiving
<1>4. PICK a, b, u : /\ a = C!Owned(s) /\ b = C!Owned(t)
                     /\ u = [C!NoTask EXCEPT !.pc = "merge", !.id = s, !.to = t, !.mine = a, !.theirs = b]
  OBVIOUS
<1>5. merging' = [merging EXCEPT ![r] = u]
  BY <1>3, <1>4 DEF C!Reads, C!Begins
<1>6. u.pc = "merge" /\ u.id = s /\ u.to = t /\ u.mine = a /\ u.theirs = b
  BY <1>4, NoTaskIs
<1>7. a \cap b = {}
  BY <1>1, <1>4 DEF C!Owned
<1>8. TaskOK(u)
  BY <1>1, <1>2, <1>6, <1>7 DEF TaskOK
<1> QED BY <1>1, <1>5, <1>8, LeadsByTaskAlone

LEMMA LeadsByRemoving == ASSUME Leads, NEW k \in Messages, C!Removes(k) PROVE Leads'
<1>1. /\ contact' = [contact EXCEPT ![k] = NoCustomer] /\ known' = known \ {k} /\ UNCHANGED <<customer, talk, merging>>
  BY DEF C!Removes
<1>2. /\ contact' \in [Messages -> People \cup {NoCustomer}] /\ known' \subseteq Messages
      /\ \A j \in known' : contact'[j] \in C!Made'
  BY <1>1 DEF Leads, C!Made
<1> QED BY <1>1, <1>2 DEF Leads, Ranks, Merged, TaskOK, AtHome, C!Made, C!Lives

LEMMA LeadsByCreating == ASSUME Leads, NEW r \in Handlers, NEW c \in People, C!Creates(r, c) PROVE Leads'
<1>1. PICK u, k : u = merging[r] /\ k = u.k
  OBVIOUS
<1>2. u.pc = "create" /\ k \in Messages /\ customer[c] = NoCustomer /\ UNCHANGED talk
  BY <1>1 DEF C!Creates, C!At, Leads, TaskOK
<1>3. CASE contact[k] # NoCustomer
  <2>1. PICK t : t = C!NoTask
    OBVIOUS
  <2>2. merging' = [merging EXCEPT ![r] = t] /\ UNCHANGED <<customer, contact, talk, known>>
    BY <1>1, <1>2, <1>3, <2>1 DEF C!Creates, C!Goes
  <2> QED BY <2>1, <2>2, NoTaskIs, LeadsByTaskAlone
<1>4. CASE contact[k] = NoCustomer
  <2>1. PICK t : t = [C!NoTask EXCEPT !.pc = "open", !.k = k, !.id = c]
    OBVIOUS
  <2>2. /\ customer' = [customer EXCEPT ![c] = c] /\ contact' = [contact EXCEPT ![k] = c]
        /\ known' = known \cup {k} /\ merging' = [merging EXCEPT ![r] = t]
    BY <1>1, <1>4, <2>1 DEF C!Creates, C!Goes
  <2>3. t.pc = "open" /\ t.k = k /\ t.id = c
    BY <2>1, NoTaskIs
  <2>4. /\ customer' \in [People -> People \cup {NoCustomer, Erased}]
        /\ customer'[c] = c /\ \A x \in People \ {c} : customer'[x] = customer[x]
    BY <2>2 DEF Leads
  <2>5. C!Made' = C!Made \cup {c} /\ c \notin C!Made
    BY <1>2, <2>4, ContactsAssumption DEF C!Made
  <2>6. C!Lives(c)' /\ \A x \in C!Made : C!Lives(x)' = C!Lives(x)
    BY <2>4, <2>5 DEF C!Lives, C!Made
  <2>7. \A x : AtHome(x) => AtHome(x)'
    BY <2>5, <2>6 DEF AtHome
  <2>8. AtHome(c)'
    BY <2>5, <2>6 DEF AtHome
  <2>9. Merged' = Merged
    BY <2>5, <2>6 DEF Merged
  <2>10. \E f : Ranks(f)'
    <3>1. PICK f : Ranks(f)
      BY DEF Leads
    <3>2. PICK g : g = [f EXCEPT ![c] = 0]
      OBVIOUS
    <3>3. g \in [People -> Nat] /\ g[c] = 0 /\ \A x \in People \ {c} : g[x] = f[x]
      BY <3>1, <3>2 DEF Ranks
    <3>4. ASSUME NEW x \in C!Made, ~C!Lives(x) PROVE customer'[x] \in C!Made' /\ g[customer'[x]] < g[x]
      <4>1. customer[x] \in C!Made /\ f[customer[x]] < f[x]
        BY <3>1, <3>4 DEF Ranks
      <4>2. x # c /\ x \in People /\ customer[x] # c /\ customer[x] \in People
        BY <2>5, <4>1 DEF C!Made
      <4> QED BY <2>4, <2>5, <3>3, <4>1, <4>2
    <3>5. \A x \in C!Made' : g[x] <= Cardinality(Merged)
      <4>1. \A x \in C!Made : g[x] <= Cardinality(Merged)
        BY <2>5, <3>1, <3>3 DEF Ranks, C!Made
      <4>2. g[c] <= Cardinality(Merged)
        BY <3>3, MergedIsFinite
      <4> QED BY <2>5, <4>1, <4>2
    <3>6. Ranks(g)'
      BY <2>5, <2>6, <2>9, <3>3, <3>4, <3>5 DEF Ranks
    <3> QED BY <3>6
  <2>11. /\ contact' \in [Messages -> People \cup {NoCustomer}] /\ known' \subseteq Messages
         /\ \A j \in known' : contact'[j] \in C!Made'
    BY <1>2, <2>2, <2>5 DEF Leads
  <2>12. merging' \in [Handlers -> {merging'[q] : q \in Handlers}] /\ \A q \in Handlers : merging'[q] = IF q = r THEN t ELSE merging[q]
    BY <2>2 DEF Leads
  <2>13. ASSUME NEW q \in Handlers PROVE TaskOK(merging[q])'
    <3>1. PICK v : v = merging'[q]
      OBVIOUS
    <3>2. TaskOK(v)'
      <4>1. CASE q = r
        BY <1>2, <2>3, <2>8, <2>12, <3>1, <4>1 DEF TaskOK
      <4>2. CASE q # r
        <5>1. TaskOK(v)
          BY <2>12, <3>1, <4>2 DEF Leads
        <5> QED BY <2>7, <5>1 DEF TaskOK
      <4> QED BY <4>1, <4>2
    <3> QED BY <3>1, <3>2 DEF TaskOK, AtHome, C!Made, C!Lives
  <2>14. ASSUME NEW j \in Messages, talk'[j] # NoCustomer PROVE AtHome(talk[j])'
    <3>1. PICK x : x = talk[j]
      OBVIOUS
    <3>2. AtHome(x) /\ talk'[j] = x
      BY <1>2, <2>14, <3>1 DEF Leads
    <3>3. AtHome(x)'
      BY <2>7, <3>2
    <3> QED BY <3>2, <3>3 DEF AtHome, C!Made, C!Lives
  <2> QED BY <1>2, <2>4, <2>10, <2>11, <2>12, <2>13, <2>14 DEF Leads
<1> QED BY <1>3, <1>4

\* One record is merged into another while no other request is about.
LEMMA LeadsByMerging == ASSUME Leads, NEW r \in Handlers, C!Merges(r), mergeExcuse' = {} PROVE Leads'
<1>1. PICK u, s, t, z : u = merging[r] /\ s = u.id /\ t = u.to /\ z = C!NoTask
  OBVIOUS
<1>2. u.pc = "merge" /\ merging' = [merging EXCEPT ![r] = z] /\ UNCHANGED known
  BY <1>1 DEF C!Merges, C!At, C!Goes
<1>3. AtHome(s) /\ AtHome(t) /\ s # t /\ u.mine \cap u.theirs = {}
  BY <1>1, <1>2 DEF Leads, TaskOK
<1>4. \A q \in Handlers \ {r} : merging[q] = z
  <2>1. C!Overlap(r) = {}
    BY DEF C!Merges
  <2> QED BY <1>1, <2>1 DEF C!Overlap, C!Busy
<1>5. \A q \in Handlers : merging'[q] = z
  BY <1>2, <1>4 DEF Leads
<1>6. merging' \in [Handlers -> {merging'[q] : q \in Handlers}]
  BY <1>2 DEF Leads
<1>7. CASE UNCHANGED <<customer, contact, talk>>
  BY <1>1, <1>2, <1>7, NoTaskIs, LeadsByTaskAlone
<1>8. CASE ~UNCHANGED <<customer, contact, talk>>
  <2>1. /\ contact' = [k \in Messages |-> IF k \in u.mine THEN (IF k \in u.theirs THEN NoCustomer ELSE t) ELSE contact[k]]
        /\ talk' = [k \in Messages |-> IF talk[k] = s THEN t ELSE talk[k]]
        /\ customer' = [customer EXCEPT ![s] = t]
    BY <1>1, <1>8 DEF C!Merges, C!MovesTo
  <2>2. s \in People /\ t \in People /\ customer[s] = s /\ customer[t] = t
    BY <1>3 DEF AtHome, C!Made, C!Lives
  <2>3. /\ customer' \in [People -> People \cup {NoCustomer, Erased}]
        /\ customer'[s] = t /\ \A x \in People \ {s} : customer'[x] = customer[x]
    BY <2>1, <2>2 DEF Leads
  <2>4. C!Made' = C!Made /\ s \in C!Made /\ t \in C!Made
    BY <1>3, <2>2, <2>3 DEF AtHome, C!Made
  <2>5. ~C!Lives(s)' /\ C!Lives(s) /\ C!Lives(t)' /\ \A x \in People \ {s} : C!Lives(x)' = C!Lives(x)
    BY <1>3, <2>2, <2>3 DEF C!Lives
  <2>6. Merged' = Merged \cup {s} /\ s \notin Merged
    BY <2>4, <2>5 DEF Merged, C!Made
  <2>7. Cardinality(Merged') = Cardinality(Merged) + 1
    BY <2>6, MergedIsFinite, FS_AddElement
  <2>8. AtHome(t)' /\ \A x : AtHome(x) /\ x # s => AtHome(x)'
    BY <2>4, <2>5 DEF AtHome, C!Made
  <2>9. \E f : Ranks(f)'
    <3>1. PICK f : Ranks(f)
      BY DEF Leads
    <3>2. PICK g : g = [x \in People |-> IF C!Lives(x)' THEN 0 ELSE f[x] + 1]
      OBVIOUS
    <3>3. f \in [People -> Nat]
      BY <3>1 DEF Ranks
    <3>4. g \in [People -> Nat] /\ \A x \in People : (C!Lives(x)' => g[x] = 0) /\ (~C!Lives(x)' => g[x] = f[x] + 1) /\ g[x] <= f[x] + 1
      BY <3>2, <3>3
    <3>5. ASSUME NEW x \in C!Made, ~C!Lives(x)' PROVE customer'[x] \in C!Made' /\ g[customer'[x]] < g[x]
      <4>1. x \in People /\ g[x] = f[x] + 1 /\ f[x] \in Nat
        BY <3>3, <3>4, <3>5 DEF C!Made
      <4>2. CASE x = s
        <5>1. g[t] = 0
          BY <2>2, <2>5, <3>4
        <5> QED BY <2>3, <2>4, <4>1, <4>2, <5>1
      <4>3. CASE x # s
        <5>1. customer[x] \in C!Made /\ f[customer[x]] < f[x] /\ customer'[x] = customer[x]
          BY <2>3, <2>5, <3>1, <3>5, <4>1, <4>3 DEF Ranks
        <5>2. customer[x] \in People /\ f[customer[x]] \in Nat /\ g[customer[x]] \in Nat /\ g[customer[x]] <= f[customer[x]] + 1
          BY <3>3, <3>4, <5>1 DEF C!Made
        <5> QED BY <2>4, <4>1, <5>1, <5>2
      <4> QED BY <4>2, <4>3
    <3>6. \A x \in C!Made : g[x] <= Cardinality(Merged')
      <4> SUFFICES ASSUME NEW x \in C!Made PROVE g[x] <= Cardinality(Merged) + 1
        BY <2>7
      <4>1. x \in People /\ f[x] <= Cardinality(Merged) /\ f[x] \in Nat /\ g[x] \in Nat /\ g[x] <= f[x] + 1
        BY <3>1, <3>3, <3>4 DEF Ranks, C!Made
      <4> QED BY <4>1, MergedIsFinite
    <3>7. Ranks(g)'
      BY <2>4, <3>4, <3>5, <3>6 DEF Ranks
    <3> QED BY <3>7
  <2>10. contact' \in [Messages -> People \cup {NoCustomer}] /\ \A k \in known : contact'[k] \in C!Made'
    BY <1>3, <2>1, <2>2, <2>4 DEF Leads
  <2>11. talk' \in [Messages -> People \cup {NoCustomer}]
    BY <2>1, <2>2 DEF Leads
  <2>12. ASSUME NEW k \in Messages, talk'[k] # NoCustomer PROVE AtHome(talk[k])'
    <3>1. PICK x : x = talk'[k]
      OBVIOUS
    <3>2. x = t \/ (x = talk[k] /\ x # s)
      BY <1>3, <2>1, <3>1
    <3>3. AtHome(x)'
      BY <2>8, <2>12, <3>1, <3>2 DEF Leads
    <3> QED BY <3>1, <3>3 DEF AtHome, C!Made, C!Lives
  <2>13. ASSUME NEW q \in Handlers PROVE TaskOK(merging[q])'
    <3>1. TaskOK(z)' /\ merging'[q] = z
      BY <1>1, <1>5, NoTaskIs DEF TaskOK
    <3> QED BY <3>1 DEF TaskOK, AtHome, C!Made, C!Lives
  <2> QED BY <1>2, <1>6, <2>3, <2>9, <2>10, <2>11, <2>12, <2>13 DEF Leads
<1> QED BY <1>7, <1>8

LEMMA LeadsInit == C!Init => LeadInv
<1> SUFFICES ASSUME C!Init PROVE Leads
  BY DEF LeadInv
<1>1. /\ customer = [c \in People |-> NoCustomer] /\ contact = [k \in Messages |-> NoCustomer]
      /\ talk = [k \in Messages |-> NoCustomer] /\ merging = [r \in Handlers |-> C!NoTask] /\ known = {}
  BY DEF C!Init
<1>2. C!Made = {}
  BY <1>1, ContactsAssumption DEF C!Made
<1>3. \E f : Ranks(f)
  <2>1. PICK f : f = [c \in People |-> 0]
    OBVIOUS
  <2>2. f \in [People -> Nat]
    BY <2>1
  <2>3. Ranks(f)
    BY <1>2, <2>2 DEF Ranks
  <2> QED BY <2>3
<1>4. \A r \in Handlers : TaskOK(merging[r])
  <2>1. PICK t : t = C!NoTask
    OBVIOUS
  <2>2. TaskOK(t)
    BY <2>1, NoTaskIs
  <2> QED BY <1>1, <2>1, <2>2
<1> QED BY <1>1, <1>3, <1>4 DEF Leads

LEMMA LeadsStep == ASSUME LeadInv, C!Next PROVE LeadInv'
<1> SUFFICES ASSUME mergeExcuse' = {} PROVE Leads'
  BY DEF LeadInv
<1>1. mergeExcuse \subseteq mergeExcuse'
  BY DEF C!Next, C!Finds, C!Adds, C!Creates, C!Opens, C!Attaches, C!Merges, C!Reads, C!Removes, C!Deletes
<1>2. Leads
  BY <1>1 DEF LeadInv
<1>3. ASSUME NEW r \in Handlers, NEW k \in Messages, C!Finds(r, k) \/ \E c \in People : C!Adds(r, c, k) PROVE Leads'
  BY <1>2, <1>3, LeadsByFinding, LeadsByAdding
<1>4. ASSUME NEW r \in Handlers, \/ \E c \in People : C!Creates(r, c)
                                 \/ C!Opens(r) \/ C!Attaches(r) \/ C!Merges(r)
                                 \/ \E s, t \in People : C!Reads(r, s, t)
      PROVE  Leads'
  BY <1>2, <1>4, LeadsByCreating, LeadsByOpening, LeadsByAttaching, LeadsByMerging, LeadsByReading
<1>5. ASSUME NEW k \in Messages, C!Removes(k) PROVE Leads'
  BY <1>2, <1>5, LeadsByRemoving
<1>6. ASSUME NEW c \in People, C!Deletes(c) PROVE Leads'
  BY <1>6 DEF C!Deletes
<1> QED BY <1>3, <1>4, <1>5, <1>6 DEF C!Next

LEMMA LeadsStays == ASSUME LeadInv, UNCHANGED customerVars PROVE LeadInv'
<1>1. UNCHANGED <<customer, contact, talk, merging, known, mergeExcuse>>
  BY DEF customerVars
<1> QED BY <1>1 DEF LeadInv, Leads, Ranks, Merged, TaskOK, AtHome, C!Made, C!Lives

\* However many records are merged, and in whatever order, a contact that is known leads
\* along the chain to a record that lives, and so does a conversation, but for what the
\* property names: each record is ranked above the one it was merged into
\* (customers.service.ts:297-316, 347-442).
THEOREM ContactsLeadTheorem == AllSpec => []ContactsLead
<1>1. LeadInv /\ [AllNext]_AllVars => LeadInv'
  BY StepsOnePart, LeadsStep, LeadsStays
<1>2. LeadInv => ContactsLead
  <2> SUFFICES ASSUME Leads PROVE /\ \A k \in known : contact[k] # NoCustomer /\ C!Survivor(contact[k]) # NoCustomer
                                  /\ \A k \in Messages : talk[k] # NoCustomer => C!Lives(talk[k])
    BY DEF LeadInv, ContactsLead, C!ContactsLead
  <2>1. \A k \in known : contact[k] \in C!Made
    BY DEF Leads
  <2>2. \A k \in known : contact[k] # NoCustomer /\ C!Survivor(contact[k]) # NoCustomer
    BY <2>1, SurvivorIsThere, ContactsAssumption DEF C!Made
  <2>3. \A k \in Messages : talk[k] # NoCustomer => C!Lives(talk[k])
    BY DEF Leads, AtHome
  <2> QED BY <2>2, <2>3
<1> QED BY <1>1, <1>2, StartsEveryPart, LeadsInit, PTL DEF AllSpec
=============================================================================
