------------------------------- MODULE Calls -------------------------------
(* One telephone call: the provider's webhooks, the agents' controls and the AI
   agent's turns, each a request that reads the call and writes it by id, some of
   it as a whole JSON document. Requests overlap, and the provider may repeat
   and reorder what it reports. A request is the list of the steps it has left. *)
EXTENDS Naturals, Sequences

CONSTANTS
  Requests,    \* requests in flight
  MaxTurns,    \* MAX_TURNS of the AI agent
  MaxAsked     \* bound: requests

VARIABLES
  call,      \* the call's row
  control,   \* its metadata: the control mode and the AI agent's turns
  task,      \* what each request has left to do, and what it read
  asked,
  conversations,   \* history: conversations opened for the call
  spoken,          \* history: turns the AI agent answered
  excuse           \* history: what may have disturbed the call
vars == <<call, control, task, asked, conversations, spoken, excuse>>

Final == {"completed", "failed"}
NoTask == [todo |-> <<>>, mode |-> "ivr", fresh |-> TRUE, saw |-> [mode |-> "ivr", turns |-> 0], turns |-> 0]
\* A placed call has its row; an incoming one is unknown until a webhook opens it.
Outbound == [made |-> TRUE, status |-> "initiating", answered |-> FALSE, queued |-> FALSE,
             connected |-> FALSE, assigned |-> FALSE, ai |-> FALSE, ended |-> FALSE, abandoned |-> FALSE]
Inbound == [Outbound EXCEPT !.made = FALSE, !.status = "ringing"]

Init ==
  /\ call \in {Inbound, Outbound}
  /\ control = [mode |-> "ivr", turns |-> 0]
  /\ task = [r \in Requests |-> NoTask]
  /\ asked = 0 /\ spoken = 0 /\ excuse = {}
  /\ conversations = IF call.made THEN 1 ELSE 0

-----------------------------------------------------------------------------
(* What each request sets out to do. *)

Record == <<"number", "note">>
SaveControl == <<"loadControl", "saveControl">>
\* Where an answered call, a menu or a transfer may lead.
Route(to) ==
  CASE to \in {"ivr", "voicemail"} -> SaveControl
    [] to = "ai_agent" -> SaveControl \o <<"setAgent">>
    [] to = "queue" -> <<"queue">>
    [] to = "agent" -> <<"bridge">>
    [] to = "external" -> <<"external">>
    [] to = "transfer" -> SaveControl \o <<"external">>
    [] to = "ended" -> SaveControl
    [] to = "nowhere" -> <<>>
Asks(r, todo) ==
  /\ task[r].todo = <<>> /\ asked < MaxAsked
  /\ asked' = asked + 1
  /\ task' = [task EXCEPT ![r] = [NoTask EXCEPT !.todo = todo]]
  /\ UNCHANGED <<call, control, conversations, spoken>>

\* Only an opening event may create a call. Everything else is recorded first.
Webhook(r, type) ==
  /\ IF call.made
     THEN Asks(r, Record \o CASE type = "answered" -> <<"isAnswered">>
                              [] type = "dtmf" -> <<"digits">>
                              [] type = "hangup" -> <<"isEnded">>)
     ELSE type = "answered" /\ Asks(r, <<"open", "insert">> \o Record \o <<"isAnswered">>)
  /\ excuse' = IF type = "answered" /\ call.ended /\ ~call.answered THEN excuse \cup {"late answer"} ELSE excuse
\* The agents' controls do not look whether the call is over; hangup does.
Controls(r, what) ==
  /\ call.made
  /\ Asks(r, CASE what \in {"on_hold", "answered"} -> Record \o <<what>>
               [] what \in {"agent", "queue", "external"} -> Record \o Route(what)
               [] what = "hangup" -> <<"isEnded">>)
  /\ excuse' = IF what # "hangup" /\ call.ended THEN excuse \cup {"control"} ELSE excuse
Speaks(r) ==
  /\ call.ai
  /\ Asks(r, <<"hear">>)
  /\ UNCHANGED excuse

-----------------------------------------------------------------------------
(* The steps. *)

At(r, step) == task[r].todo # <<>> /\ Head(task[r].todo) = step
Rest(r) == Tail(task[r].todo)
Left(t, todo) == IF todo = <<>> THEN NoTask ELSE [t EXCEPT !.todo = todo]
Goes(r, todo) == task' = [task EXCEPT ![r] = Left(@, todo)]
GoesAs(r, todo, mode) ==
  task' = [task EXCEPT ![r] = Left([@ EXCEPT !.mode = IF mode = "transfer" THEN "agent" ELSE mode], todo)]
Others(r) == {q \in Requests \ {r} : task[q].todo # <<>>}

Opening(r) == \E q \in Others(r) : task[q].todo[1] \in {"open", "insert"}
Opens(r) ==
  /\ At(r, "open")
  /\ conversations' = conversations + 1
  /\ Goes(r, Rest(r))
  /\ excuse' = IF Opening(r) THEN excuse \cup {"open"} ELSE excuse
  /\ UNCHANGED <<call, control, asked, spoken>>
\* The provider's id is unique: the loser of two openings fails, its conversation stays.
Inserts(r) ==
  /\ At(r, "insert")
  /\ IF call.made THEN Goes(r, <<>>) /\ UNCHANGED call
     ELSE Goes(r, Rest(r)) /\ call' = [call EXCEPT !.made = TRUE]
  /\ excuse' = IF Opening(r) THEN excuse \cup {"open"} ELSE excuse
  /\ UNCHANGED <<control, asked, conversations, spoken>>
\* record takes the number after the last one; of two that take the same, the later
\* insert fails, and its request with it.
TakesNumber(r) ==
  /\ At(r, "number")
  /\ task' = [task EXCEPT ![r].todo = Rest(r), ![r].fresh = TRUE]
  /\ UNCHANGED <<call, control, asked, conversations, spoken, excuse>>
Notes(r) ==
  /\ At(r, "note")
  /\ IF task[r].fresh
     THEN /\ task' = [q \in Requests |-> IF q = r THEN Left([task[r] EXCEPT !.fresh = TRUE], Rest(r))
                                         ELSE IF At(q, "note") THEN [task[q] EXCEPT !.fresh = FALSE]
                                         ELSE task[q]]
          /\ UNCHANGED excuse
     ELSE Goes(r, <<>>) /\ excuse' = excuse \cup {"collision"}
  /\ UNCHANGED <<call, control, asked, conversations, spoken>>

AsksAnswered(r) ==
  /\ At(r, "isAnswered")
  /\ Goes(r, IF call.answered THEN <<>> ELSE <<"answer">>)
  /\ UNCHANGED <<call, control, asked, conversations, spoken, excuse>>
Answers(r, to) ==
  /\ At(r, "answer")
  /\ call' = [call EXCEPT !.answered = TRUE, !.status = "answered"]
  /\ GoesAs(r, Route(to), to)
  /\ UNCHANGED <<control, asked, conversations, spoken, excuse>>
InMenu == control.mode = "ivr"
Presses(r, to) ==
  /\ At(r, "digits")
  /\ IF InMenu THEN GoesAs(r, Record \o Route(to), to) ELSE to = "nowhere" /\ Goes(r, <<>>)
  /\ excuse' = IF \E q \in Others(r) : task[q].mode = "ended" THEN excuse \cup {"overlap"} ELSE excuse
  /\ UNCHANGED <<call, control, asked, conversations, spoken>>

Queues(r) ==
  /\ At(r, "queue")
  /\ call' = [call EXCEPT !.status = "queued", !.queued = TRUE]
  /\ GoesAs(r, SaveControl \o <<"decide">>, "queue")
  /\ UNCHANGED <<control, asked, conversations, spoken, excuse>>
Decides(r) ==
  /\ At(r, "decide")
  /\ \E free \in BOOLEAN : Goes(r, IF free THEN <<"bridge">> ELSE <<>>)
  /\ UNCHANGED <<call, control, asked, conversations, spoken, excuse>>
Bridges(r) ==
  /\ At(r, "bridge")
  /\ call' = [call EXCEPT !.status = "transferring", !.assigned = TRUE]
  /\ GoesAs(r, <<"join">> \o SaveControl, "agent")
  /\ UNCHANGED <<control, asked, conversations, spoken, excuse>>
Joins(r) ==
  /\ At(r, "join")
  /\ call' = IF call.connected THEN call ELSE [call EXCEPT !.connected = TRUE, !.status = "answered"]
  /\ Goes(r, Rest(r))
  /\ UNCHANGED <<control, asked, conversations, spoken, excuse>>
SetsAgent(r) ==
  /\ At(r, "setAgent")
  /\ call' = [call EXCEPT !.ai = TRUE]
  /\ Goes(r, Rest(r))
  /\ UNCHANGED <<control, asked, conversations, spoken, excuse>>
SetsStatus(r) ==
  /\ At(r, "on_hold") \/ At(r, "answered") \/ At(r, "external")
  /\ call' = [call EXCEPT !.status = IF At(r, "external") THEN "transferring" ELSE Head(task[r].todo)]
  /\ Goes(r, Rest(r))
  /\ UNCHANGED <<control, asked, conversations, spoken, excuse>>

\* end reads the call, and writes what it inferred from what it read.
\* Mutant: the control of a call that is over is not saved.
EndsTheRow(r) ==
  /\ At(r, "isEnded")
  /\ Goes(r, IF call.ended THEN <<>> ELSE <<"end">> \o Record)
  /\ UNCHANGED <<call, control, asked, conversations, spoken, excuse>>
AsksEnded(r) ==
  /\ At(r, "isEnded")
  /\ Goes(r, IF call.ended THEN <<>> ELSE <<"end">> \o Record \o SaveControl)
  /\ UNCHANGED <<call, control, asked, conversations, spoken, excuse>>
Ends(r) ==
  /\ At(r, "end")
  /\ \E status \in Final :
       call' = [call EXCEPT !.ended = TRUE, !.status = status,
                            !.abandoned = ~(call.connected \/ call.assigned \/ call.ai)]
  /\ GoesAs(r, Rest(r), "ended")
  /\ excuse' = IF Others(r) # {} THEN excuse \cup {"overlap"} ELSE excuse
  /\ UNCHANGED <<control, asked, conversations, spoken>>

\* saveControl and saveState both read the metadata and write all of it back.
LoadsControl(r) ==
  /\ At(r, "loadControl") \/ At(r, "loadState")
  /\ task' = [task EXCEPT ![r].todo = Rest(r), ![r].saw = control]
  /\ UNCHANGED <<call, control, asked, conversations, spoken, excuse>>
InMetadata(r) == \E q \in Others(r) : task[q].todo[1] \in {"saveControl", "saveState", "answerTurn", "loadState"}
Saves(r) ==
  /\ \/ At(r, "saveControl") /\ control' = [task[r].saw EXCEPT !.mode = task[r].mode]
     \/ At(r, "saveState") /\ control' = [task[r].saw EXCEPT !.turns = task[r].turns]
  /\ excuse' = IF InMetadata(r) THEN excuse \cup {"metadata"} ELSE excuse
  /\ Goes(r, Rest(r))
  /\ UNCHANGED <<call, asked, conversations, spoken>>

\* A turn: past the limit the caller is handed over; else the agent answers, and the
\* turn is counted after its answer.
\* Mutant: the limit is compared before the turn is added.
TurnsBefore(n) == n - 1 > MaxTurns
TooMany(n) == n > MaxTurns
Hears(r) ==
  /\ At(r, "hear")
  /\ LET n == control.turns + 1
     IN task' = [task EXCEPT ![r].turns = n,
                   ![r].todo = IF TooMany(n) THEN <<"loadState", "saveState">>
                               ELSE <<"answerTurn", "loadState", "saveState">>]
  /\ excuse' = IF InMetadata(r) THEN excuse \cup {"metadata"} ELSE excuse
  /\ UNCHANGED <<call, control, asked, conversations, spoken>>
\* The agent may fail: the caller is handed over all the same.
AnswersTurn(r) ==
  /\ At(r, "answerTurn")
  /\ spoken' \in {spoken, spoken + 1}
  /\ Goes(r, Rest(r))
  /\ UNCHANGED <<call, control, asked, conversations, excuse>>

Step(r) ==
  \/ Opens(r) \/ Inserts(r) \/ TakesNumber(r) \/ Notes(r) \/ AsksAnswered(r)
  \/ \E to \in {"ivr", "voicemail", "ai_agent", "queue", "agent", "nowhere"} : Answers(r, to)
  \/ \E to \in {"ivr", "voicemail", "ai_agent", "queue", "agent", "transfer", "ended", "nowhere"} : Presses(r, to)
  \/ Queues(r) \/ Decides(r) \/ Bridges(r) \/ Joins(r) \/ SetsAgent(r) \/ SetsStatus(r)
  \/ AsksEnded(r) \/ Ends(r) \/ LoadsControl(r) \/ Saves(r) \/ Hears(r) \/ AnswersTurn(r)
Next ==
  \E r \in Requests :
    \/ Step(r) \/ Speaks(r)
    \/ \E type \in {"answered", "dtmf", "hangup"} : Webhook(r, type)
    \/ \E what \in {"on_hold", "answered", "agent", "queue", "external", "hangup"} : Controls(r, what)
Spec == Init /\ [][Next]_vars

-----------------------------------------------------------------------------
\* The call, its metadata and the requests have their types.
TypeOK ==
  /\ call.status \in Final \cup {"initiating", "ringing", "answered", "queued", "transferring", "on_hold"}
  /\ control.mode \in {"ivr", "voicemail", "ai_agent", "queue", "agent", "ended"}
  /\ \A r \in Requests : task[r].fresh \in BOOLEAN /\ task[r].turns \in 0 .. MaxAsked

Quiet == \A r \in Requests : task[r].todo = <<>>
\* A call that is over stays over, in its status and its control, unless a request
\* overlapped its end, a control was used on it, its answer came late, or an event
\* collided (calls.service.ts:206-213, 297-302, 471-500, 583-654).
EndedStaysEnded ==
  Quiet /\ call.ended /\ excuse \cap {"overlap", "control", "late answer", "collision", "metadata"} = {}
    => call.status \in Final /\ control.mode = "ended"

\* One conversation is opened for a call, but for openings that overlap
\* (calls.service.ts:97-106, 156-190).
OneConversation == conversations > 1 => "open" \in excuse

\* The AI agent answers no more turns than it may, but for metadata written over
\* (voice-agent.service.ts:104-119, 400-407).
TurnsBounded == spoken > MaxTurns => "metadata" \in excuse
=============================================================================
