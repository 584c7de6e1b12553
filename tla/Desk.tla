-------------------------------- MODULE Desk --------------------------------
(***************************************************************************)
(* The conversations of one customer, from the inbound message to the      *)
(* agent: ChannelsService.acceptInbound and sendReply, the writes of       *)
(* ConversationsService, and RoutingService with its listener.             *)
(*                                                                         *)
(* Handlers are requests and event listeners in flight.  Each reads, and   *)
(* writes rows by id later; nothing checks the version column.  One queue  *)
(* serves every channel and its calendar is always open.  The strategies   *)
(* of select are any choice among the candidates, a drain's order any      *)
(* order, and its limit is not reached.                                    *)
(***************************************************************************)
EXTENDS Integers, FiniteSets, Sequences, Functions

CONSTANTS
  Conversations,  \* ids of conversations
  Messages,       \* provider ids of the customer's messages
  Agents,         \* people who answer
  Bot,            \* an AI agent
  Gone,           \* people who are no longer members of the organization
  Nobody,
  Handlers,       \* requests and listeners that may be in flight at once
  NoConv, NoMsg,
  MaxChats,       \* maxConcurrentChats of each agent
  Named,          \* whom rules and AI-first queues name
  MaxCalls        \* bound: requests and redelivered events

Owners == Agents \cup Gone \cup {Bot, Nobody}

ASSUME DeskAssumption ==
  /\ Bot # Nobody /\ Bot \notin Agents \cup Gone /\ Nobody \notin Agents \cup Gone
  /\ Agents \cap Gone = {}
  /\ NoConv \notin Conversations /\ NoMsg \notin Messages
  /\ MaxChats \in [Agents -> Nat \ {0}]
  /\ Named \subseteq Agents \cup Gone \cup {Bot}
  /\ IsFiniteSet(Conversations) /\ IsFiniteSet(Handlers)

\* The statuses of a conversation and the moves ConversationsService calls legal.
Statuses == {"new", "queued", "assigned", "active", "waiting", "resolved", "closed"}

\* A conversation in one of these is still somebody's work.
OpenStatuses == Statuses \ {"resolved", "closed"}

Transitions ==
  [new      |-> {"queued", "assigned", "active", "closed"},
   queued   |-> {"assigned", "active", "resolved", "closed"},
   assigned |-> {"active", "queued", "waiting", "resolved", "closed"},
   active   |-> {"waiting", "queued", "assigned", "resolved", "closed"},
   waiting  |-> {"active", "assigned", "queued", "resolved", "closed"},
   resolved |-> {"active", "closed"},
   closed   |-> {"active"}]

CanTransition(from, to) == from = to \/ to \in Transitions[from]

VARIABLES
  conv,      \* the conversation rows
  copies,    \* per message, the conversations a row of it was stored in
  present,   \* the agents whose presence is available
  pending,   \* events no listener has taken yet
  told,      \* events published, any of which may be delivered again
  job,       \* the local state of each handler
  asked,     \* requests and redeliveries so far
  unchecked, \* history: per agent, chats gained otherwise than by a weighed choice
  crowd,     \* history: the most handlers in flight at once
  opened,    \* history: conversations opened again, or by request
  aside      \* history: conversations whose routing failed or left them in no queue

history == <<unchecked, opened, aside>>
vars    == <<conv, copies, present, pending, told, job, crowd, asked, history>>

\* placed is whether queueId is set, stamps how often firstResponseAt was written.
Row == [status : Statuses, owner : Owners, placed : BOOLEAN, stamps : Nat]

Events == {"created", "freed"} \X Conversations

\* A handler's state: the step it is at, the conversation and the message it is
\* about, the status it read or is to write, whether firstResponseAt was null,
\* whom it offers to or has chosen, and what is left of a drain.
PC  == {"idle", "find", "create", "announce", "take", "store", "reply", "send", "activate",
        "status", "offer", "weigh", "assign", "appoint", "park"}
Job == [pc : PC, conv : Conversations \cup {NoConv}, msg : Messages \cup {NoMsg},
        status : Statuses, first : BOOLEAN, from : SUBSET Agents, pick : Owners,
        rest : SUBSET Conversations]

NoJob == [pc |-> "idle", conv |-> NoConv, msg |-> NoMsg, status |-> "new", first |-> FALSE,
          from |-> {}, pick |-> Nobody, rest |-> {}]

TypeOK ==
  /\ DOMAIN conv \subseteq Conversations /\ \A c \in DOMAIN conv : conv[c] \in Row
  /\ copies \in [Messages -> Seq(Conversations)]
  /\ present \subseteq Agents
  /\ pending \subseteq told /\ told \subseteq Events
  /\ job \in [Handlers -> Job]
  /\ asked \in Nat
  /\ unchecked \in [Agents -> Nat]
  /\ crowd \in Nat /\ opened \in Nat /\ aside \subseteq Conversations

Init ==
  /\ conv = [c \in {} |-> NoJob] /\ copies = [m \in Messages |-> <<>>]
  /\ present = {}
  /\ pending = {} /\ told = {}
  /\ job = [h \in Handlers |-> NoJob]
  /\ asked = 0
  /\ unchecked = [a \in Agents |-> 0] /\ crowd = 0 /\ opened = 0 /\ aside = {}

-----------------------------------------------------------------------------
Known == DOMAIN conv

\* A conversation counts against its agent's ceiling in these statuses.
Working      == {"assigned", "active", "waiting"}
Serves(a, r) == r.owner = a /\ r.status \in Working
Load(a)      == Cardinality({c \in Known : Serves(a, conv[c])})

Idle(h)        == job[h].pc = "idle"
InFlight(jobs) == Cardinality({h \in Handlers : jobs[h].pc # "idle"})
Goes(h, j)     == /\ job' = [job EXCEPT ![h] = j]
                  /\ crowd' = IF InFlight(job') > crowd THEN InFlight(job') ELSE crowd
Within         == asked < MaxCalls /\ asked' = asked + 1
Starts(h, j)   == Idle(h) /\ Within /\ Goes(h, j)

\* Every write of a row, and what it does to the histories; a choice that routing
\* weighed is accounted for by crowd.
Writes(c, row, weighed) ==
  /\ conv' = [conv EXCEPT ![c] = row]
  /\ unchecked' = [a \in Agents |->
       IF ~weighed /\ Serves(a, row) /\ ~Serves(a, conv[c]) THEN unchecked[a] + 1 ELSE unchecked[a]]
  /\ opened' = IF row.status \in OpenStatuses /\ conv[c].status \notin OpenStatuses
                 THEN opened + 1 ELSE opened

Publishes(E) == pending' = pending \cup E /\ told' = told \cup E
Silently     == UNCHANGED <<pending, told>>

-----------------------------------------------------------------------------
(* An inbound message: ChannelsService.acceptInbound.                      *)

\* Mutant: redelivery is left to the check within the conversation.
AlwaysFresh(m) == TRUE

\* A message already stored is ignored.
Fresh(m) == copies[m] = <<>>

Receives(h, m) ==
  /\ Fresh(m)
  /\ Starts(h, [NoJob EXCEPT !.pc = "find", !.msg = m])
  /\ Silently /\ UNCHANGED <<conv, copies, present, history>>

\* Mutant: a conversation that waits in a queue is not looked for.
OnesInHand == {c \in Known : conv[c].status \in OpenStatuses \ {"queued"}}

OpenOnes == {c \in Known : conv[c].status \in OpenStatuses}

\* resolveConversation: an open one, one the subject refers to, reopened if
\* need be, or a new one.
Finds(h) ==
  /\ job[h].pc = "find"
  /\ \/ \E c \in OpenOnes : Goes(h, [job[h] EXCEPT !.pc = "take", !.conv = c])
     \/ \E c \in Known \ OpenOnes :
          Goes(h, [job[h] EXCEPT !.pc = "activate", !.conv = c])
     \/ OpenOnes = {} /\ Goes(h, [job[h] EXCEPT !.pc = "create"])
  /\ Silently /\ UNCHANGED <<conv, copies, present, asked, history>>

\* A conversation asked for through the API, without a message.
Opens(h) ==
  /\ Conversations # Known
  /\ Starts(h, [NoJob EXCEPT !.pc = "create"])
  /\ opened' = opened + 1
  /\ Silently /\ UNCHANGED <<conv, copies, present, unchecked, aside>>

\* ConversationsService.create; the channel account may name a queue.
Creates(h) ==
  /\ job[h].pc = "create"
  /\ \E c \in Conversations \ Known, placed \in BOOLEAN :
       /\ conv' = [d \in Known \cup {c} |->
                     IF d = c THEN [status |-> "new", owner |-> Nobody, placed |-> placed, stamps |-> 0]
                     ELSE conv[d]]
       /\ Goes(h, [job[h] EXCEPT !.pc = "announce", !.conv = c])
  /\ Silently /\ UNCHANGED <<copies, present, asked, history>>

\* What is left to do for the message that opened or reopened the conversation.
Afterwards(j) == IF j.msg = NoMsg THEN NoJob ELSE [j EXCEPT !.pc = "take"]

Announces(h) ==
  /\ job[h].pc = "announce"
  /\ Publishes({<<"created", job[h].conv>>})
  /\ Goes(h, Afterwards(job[h]))
  /\ UNCHANGED <<conv, copies, present, asked, history>>

\* addMessage ignores a message this conversation has already.
Takes(h) ==
  /\ job[h].pc = "take"
  /\ LET c == job[h].conv IN
     Goes(h, IF c \in Range(copies[job[h].msg]) THEN NoJob
             ELSE [job[h] EXCEPT !.pc = "store", !.status = conv[c].status])
  /\ Silently /\ UNCHANGED <<conv, copies, present, asked, history>>

\* Mutant: a status the schema does not have.
HeardOpen(row, seen) ==
  [row EXCEPT !.status = IF seen = "waiting" THEN "open" ELSE IF seen = "new" THEN "queued" ELSE @]

\* The status that was read decides: a customer who was waited for has answered,
\* a new conversation is queued.
Heard(row, seen) ==
  [row EXCEPT !.status = IF seen = "waiting" THEN "active" ELSE IF seen = "new" THEN "queued" ELSE @]

Stores(h) ==
  /\ job[h].pc = "store"
  /\ LET c == job[h].conv m == job[h].msg IN
     /\ copies' = [copies EXCEPT ![m] = Append(@, c)]
     /\ Writes(c, Heard(conv[c], job[h].status), FALSE)
  /\ Goes(h, NoJob)
  /\ Silently /\ UNCHANGED <<present, asked, aside>>

-----------------------------------------------------------------------------
(* A reply: ChannelsService.sendReply.                                     *)

Replies(h, c) ==
  /\ c \in Known
  /\ Starts(h, [NoJob EXCEPT !.pc = "reply", !.conv = c, !.status = conv[c].status])
  /\ Silently /\ UNCHANGED <<conv, copies, present, history>>

\* addMessage reads whether the team has answered yet.
Drafts(h) ==
  /\ job[h].pc = "reply"
  /\ Goes(h, [job[h] EXCEPT !.pc = "send", !.first = (conv[job[h].conv].stamps = 0)])
  /\ Silently /\ UNCHANGED <<conv, copies, present, asked, history>>

\* Mutant: every reply is the first.
StampedAgain(row, first) == [row EXCEPT !.stamps = @ + 1]

Stamped(row, first) == IF first THEN [row EXCEPT !.stamps = @ + 1] ELSE row

\* A conversation that was assigned or new when the reply began becomes active.
Sends(h) ==
  /\ job[h].pc = "send"
  /\ Writes(job[h].conv, Stamped(conv[job[h].conv], job[h].first), FALSE)
  /\ Goes(h, IF job[h].status \in {"assigned", "new"}
             THEN [job[h] EXCEPT !.pc = "activate", !.first = FALSE] ELSE NoJob)
  /\ Silently /\ UNCHANGED <<copies, present, asked, aside>>

\* setStatus to active finds nothing to do, or goes on to write.
Activates(h) ==
  /\ job[h].pc = "activate"
  /\ LET from == conv[job[h].conv].status IN
     Goes(h, IF from = "active" \/ ~CanTransition(from, "active") THEN Afterwards(job[h])
             ELSE [job[h] EXCEPT !.pc = "status", !.status = "active"])
  /\ Silently /\ UNCHANGED <<conv, copies, present, asked, history>>

-----------------------------------------------------------------------------
(* ConversationsService: setStatus, assign and transfer; SlaService.escalate. *)

\* setStatus checks the move it read ...
AsksStatus(h, c, to) ==
  /\ c \in Known /\ conv[c].status # to /\ CanTransition(conv[c].status, to)
  /\ Starts(h, [NoJob EXCEPT !.pc = "status", !.conv = c, !.status = to])
  /\ Silently /\ UNCHANGED <<conv, copies, present, history>>

\* ... and writes it whatever the status is by then.
SetsStatus(h) ==
  /\ job[h].pc = "status"
  /\ LET c == job[h].conv to == job[h].status IN
     /\ Writes(c, [conv[c] EXCEPT !.status = to], FALSE)
     /\ Publishes(IF to \in {"resolved", "closed"} THEN {<<"freed", c>>} ELSE {})
  /\ Goes(h, Afterwards(job[h]))
  /\ UNCHANGED <<copies, present, asked, aside>>

Assigned(row, who) ==
  [row EXCEPT !.owner = who, !.status = IF who = Nobody THEN "queued" ELSE "assigned"]

\* Requested by hand, by an automation or by a workflow; the status is not asked.
Assigns(c, who) ==
  /\ c \in Known /\ who \notin Gone /\ Within
  /\ Writes(c, Assigned(conv[c], who), FALSE)
  /\ Silently /\ UNCHANGED <<copies, present, job, crowd, aside>>

\* To a queue, or to a team, which keeps the queue.
Transfers(c) ==
  /\ c \in Known /\ Within
  /\ \E placed \in {TRUE, conv[c].placed} :
       Writes(c, [Assigned(conv[c], Nobody) EXCEPT !.placed = placed], FALSE)
  /\ Silently /\ UNCHANGED <<copies, present, job, crowd, aside>>

\* A breach gives the conversation a new owner and leaves its status.
Escalates(c, a) ==
  /\ c \in Known /\ Within
  /\ Writes(c, [conv[c] EXCEPT !.owner = a], FALSE)
  /\ Silently /\ UNCHANGED <<copies, present, job, crowd, aside>>

\* IamService.setPresence
ChangesPresence(a) ==
  /\ Within
  /\ present' = IF a \in present THEN present \ {a} ELSE present \cup {a}
  /\ Silently /\ UNCHANGED <<conv, copies, job, crowd, history>>

-----------------------------------------------------------------------------
(* RoutingService.                                                         *)

Routing(c, rest) == [NoJob EXCEPT !.pc = "offer", !.conv = c, !.rest = rest]

\* A drain finds the waiting conversations once, and routes one after the other.
Waiting == {c \in Known : conv[c].placed /\ conv[c].status = "queued" /\ conv[c].owner = Nobody}
Turn(h, list) ==
  \/ list = {} /\ Goes(h, NoJob)
  \/ \E c \in list : Goes(h, Routing(c, list \ {c}))

\* A rule that matches, or an AI-first queue, decides at once; otherwise the people
\* available are read,
Offers(h) ==
  /\ job[h].pc = "offer"
  /\ \/ \E who \in Named : Goes(h, [job[h] EXCEPT !.pc = "appoint", !.pick = who])
     \/ Goes(h, IF present = {} THEN [job[h] EXCEPT !.pc = "park"]
                ELSE [job[h] EXCEPT !.pc = "weigh", !.from = present])
  /\ Silently /\ UNCHANGED <<conv, copies, present, asked, history>>

\* Mutant: one chat more than the ceiling.
BelowOrAt(a) == Load(a) <= MaxChats[a]

BelowCeiling(a) == Load(a) < MaxChats[a]

\* and then their loads.
Weighs(h) ==
  /\ job[h].pc = "weigh"
  /\ LET candidates == {a \in job[h].from : BelowCeiling(a)} IN
     \/ candidates = {} /\ Goes(h, [job[h] EXCEPT !.pc = "park", !.from = {}])
     \/ \E a \in candidates : Goes(h, [job[h] EXCEPT !.pc = "assign", !.from = {}, !.pick = a])
  /\ Silently /\ UNCHANGED <<conv, copies, present, asked, history>>

\* The choice is written, with the queue if one was found; a rule may have none.
RouteAssigns(h) ==
  /\ job[h].pc \in {"assign", "appoint"} /\ job[h].pick \notin Gone
  /\ LET c == job[h].conv IN
     \E placed \in {TRUE} \cup (IF job[h].pc = "appoint" THEN {conv[c].placed} ELSE {}) :
       /\ Writes(c, [Assigned(conv[c], job[h].pick) EXCEPT !.placed = placed], job[h].pc = "assign")
       /\ aside' = IF placed THEN aside ELSE aside \cup {c}
  /\ Turn(h, job[h].rest)
  /\ Silently /\ UNCHANGED <<copies, present, asked>>

\* assign refuses whoever is not a member; the caller logs it, a drain ends with it.
RouteFails(h) ==
  /\ job[h].pc = "appoint" /\ job[h].pick \in Gone
  /\ aside' = aside \cup {job[h].conv}
  /\ Goes(h, NoJob)
  /\ Silently /\ UNCHANGED <<conv, copies, present, asked, unchecked, opened>>

\* Mutant: the queue that was found is not written.
ParkedInPlace(row) == [row EXCEPT !.status = "queued"]

Parked(row) == [row EXCEPT !.status = "queued", !.placed = TRUE]

\* Parked, and a drain stops: nobody has capacity.
Parks(h) ==
  /\ job[h].pc = "park"
  /\ Writes(job[h].conv, Parked(conv[job[h].conv]), FALSE)
  /\ Goes(h, NoJob)
  /\ Silently /\ UNCHANGED <<copies, present, asked, aside>>

AsksRoute(h, c) ==
  /\ c \in Known
  /\ Starts(h, Routing(c, {}))
  /\ Silently /\ UNCHANGED <<conv, copies, present, history>>

AsksDrain(h) ==
  /\ Idle(h) /\ Within /\ Waiting # {}
  /\ Turn(h, Waiting)
  /\ Silently /\ UNCHANGED <<conv, copies, present, history>>

\* RoutingListener: a new conversation is routed, the queue of one resolved or
\* closed is drained.
Listens(h, e) ==
  /\ Idle(h)
  /\ IF e[1] = "created" THEN Goes(h, Routing(e[2], {}))
     ELSE Turn(h, IF conv[e[2]].placed THEN Waiting ELSE {})

Hears(h) ==
  /\ \E e \in pending : Listens(h, e) /\ pending' = pending \ {e}
  /\ UNCHANGED <<conv, copies, present, told, asked, history>>

HearsAgain(h) ==
  /\ Within
  /\ \E e \in told \ pending : Listens(h, e)
  /\ Silently /\ UNCHANGED <<conv, copies, present, history>>

-----------------------------------------------------------------------------
Step(h) ==
  \/ Finds(h) \/ Creates(h) \/ Announces(h) \/ Takes(h) \/ Stores(h)
  \/ Drafts(h) \/ Sends(h) \/ Activates(h) \/ SetsStatus(h)
  \/ Offers(h) \/ Weighs(h) \/ RouteAssigns(h) \/ RouteFails(h) \/ Parks(h) \/ Hears(h)

Request(h) ==
  \/ \E m \in Messages : Receives(h, m)
  \/ \E c \in Conversations : Replies(h, c) \/ AsksRoute(h, c)
  \/ \E c \in Conversations, to \in Statuses : AsksStatus(h, c, to)
  \/ Opens(h) \/ AsksDrain(h) \/ HearsAgain(h)

Next ==
  \/ \E h \in Handlers : Step(h) \/ Request(h)
  \/ \E c \in Conversations, who \in Owners : Assigns(c, who)
  \/ \E c \in Conversations : Transfers(c)
  \/ \E c \in Conversations, a \in Agents : Escalates(c, a)
  \/ \E a \in Agents : ChangesPresence(a)

Spec == Init /\ [][Next]_vars

-----------------------------------------------------------------------------
(* Properties.                                                             *)

\* Routing takes an agent past the ceiling only by as many chats as handlers were
\* ever in flight together, beside the chats gained without being weighed: a choice
\* is made on loads read before, and assign does not look again.  With one handler
\* at a time the ceiling holds.
OvershootBounded ==
  \A a \in Agents :
    Load(a) <= unchecked[a] + (IF crowd = 0 THEN 0 ELSE MaxChats[a] - 1 + crowd)

\* A message the provider redelivers, also into another conversation, is stored
\* once for each handler that overlapped: nothing in the schema makes its id unique.
CopiesBounded == \A m \in Messages : Len(copies[m]) <= crowd

\* firstResponseAt is written again only by replies that overlapped the first one.
StampsBounded == \A c \in Known : conv[c].stamps <= crowd

\* One open conversation per customer and thread: beside those opened
\* again or by request there are no more than messages were resolved at once.
OpenBounded ==
  Cardinality({c \in Known : conv[c].status \in OpenStatuses}) <= crowd + opened

Quiet     == pending = {} /\ \A h \in Handlers : Idle(h)
Listed(c) == /\ conv[c].status # "new"
             /\ conv[c].status = "queued" /\ conv[c].owner = Nobody => conv[c].placed

\* When everything published has been heard, no arrival is still new, and whatever
\* is queued and free is where a drain looks for it, however messages, routing and
\* statuses wrote over each other; except where routing failed, as it does when a rule
\* names somebody who has left, or where a rule named no queue.
ArrivalsAreListed == Quiet => \A c \in Known : c \in aside \/ Listed(c)

\* "A routing failure must leave the conversation queued, not lost."
\* (routing.listener.ts:25)
NoneIsLost == Quiet => \A c \in Known : Listed(c)
=============================================================================
