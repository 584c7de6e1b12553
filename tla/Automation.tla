----------------------------- MODULE Automation -----------------------------
(* The automation rules of one organisation over one conversation and the tickets *)
(* made for it: events start evaluations, evaluations run rules, and what their    *)
(* actions do publishes events again.                                              *)
EXTENDS Naturals, Sequences, SequencesExt

CONSTANTS
  Evaluations,   \* evaluations in flight
  Rules,         \* the active rules by position: trigger, condition, actions
  Priorities,
  Tickets,       \* ids of tickets that may be created
  None,
  MaxEvents, MaxStops  \* bounds: events from outside, evaluations that stop half way

VARIABLES
  priority,  \* of the conversation and of each ticket, or None
  tags,      \* of the conversation
  pending,   \* events published and not heard yet
  eval,      \* evaluations in flight
  runs,      \* rules with an AutomationRun row
  outside, stops,
  added,     \* history: tags a rule added
  acted,     \* history: rules with an action that was carried out
  overlap    \* history: two evaluations wrote the tags of one reading
vars == <<priority, tags, pending, eval, runs, outside, stops, added, acted, overlap>>

Subjects == {"conversation"} \cup Tickets
Idle == [rules |-> <<>>, subject |-> None, seen |-> None, todo |-> <<>>, read |-> None]
Init ==
  /\ priority \in {[s \in Subjects |-> IF s = "conversation" THEN p ELSE None] : p \in Priorities}
  /\ tags = {} /\ pending = {} /\ runs = {} /\ added = {} /\ acted = {}
  /\ eval = [v \in Evaluations |-> Idle]
  /\ outside = 0 /\ stops = 0 /\ overlap = FALSE

Event(name, s, inbound) == [name |-> name, subject |-> s, inbound |-> inbound]
Publishes(E) == pending' = pending \cup E

\* A customer writes, an agent edits a ticket, a clock of either runs out.
FromOutside ==
  /\ outside < MaxEvents
  /\ outside' = outside + 1
  /\ \E s \in Subjects :
       /\ priority[s] # None
       /\ \/ s = "conversation" /\ Publishes({Event("message", s, TRUE)})
          \/ s # "conversation" /\ Publishes({Event("ticket_updated", s, TRUE)})
          \/ Publishes({Event("sla_breach", s, TRUE)})
  /\ UNCHANGED <<priority, tags, eval, runs, stops, added, acted, overlap>>

\* The listener: what the platform itself writes starts nothing, and a clock's subject
\* is taken for a conversation.
\* Mutant: messages of both directions are heard.
HeardBothWays(e) == [trigger |-> e.name, known |-> e.name # "sla_breach" \/ e.subject = "conversation"]
Heard(e) ==
  [trigger |-> IF e.name = "message" /\ ~e.inbound THEN None ELSE e.name,
   known |-> e.name # "sla_breach" \/ e.subject = "conversation"]
\* evaluate: the active rules of the trigger and the facts, both read once.
Starts(v) ==
  /\ eval[v] = Idle
  /\ \E e \in pending :
       LET h == Heard(e)
           found == SelectSeq(Rules, LAMBDA r : r.trigger = h.trigger) IN
       /\ pending' = pending \ {e}
       /\ IF h.known /\ found # <<>>
          THEN eval' = [eval EXCEPT ![v] = [Idle EXCEPT !.rules = found, !.subject = e.subject,
                                              !.seen = [priority |-> priority[e.subject], tags |-> tags]]]
          ELSE UNCHANGED eval
  /\ UNCHANGED <<priority, tags, runs, outside, stops, added, acted, overlap>>

\* The next rule: its conditions are tested against the facts read at the start.
Matches(r, seen) == seen.priority \in r.when
Next1(v) == [eval[v] EXCEPT !.rules = Tail(@), !.todo = <<>>]
Moves(v, x) == eval' = [eval EXCEPT ![v] = IF x.rules = <<>> THEN Idle ELSE x]
Tests(v) ==
  /\ eval[v].rules # <<>> /\ eval[v].todo = <<>>
  /\ LET r == Head(eval[v].rules) IN
     IF Matches(r, eval[v].seen)
     THEN eval' = [eval EXCEPT ![v].todo = Append(r.actions, [type |-> "record", arg |-> None])]
     ELSE Moves(v, Next1(v))
  /\ UNCHANGED <<priority, tags, pending, runs, outside, stops, added, acted, overlap>>

-----------------------------------------------------------------------------
Doing(v, type) == eval[v].todo # <<>> /\ Head(eval[v].todo).type = type
Arg(v) == Head(eval[v].todo).arg
Done(v) == eval' = [eval EXCEPT ![v].todo = Tail(@), ![v].read = None]
Acted(v) == acted' = acted \cup {Head(eval[v].rules).id}
SendsMessage(v) ==
  /\ Doing(v, "send_message")
  /\ IF eval[v].subject = "conversation"
     THEN Publishes({Event("message", "conversation", FALSE)}) /\ Acted(v)
     ELSE UNCHANGED <<pending, acted>>
  /\ Done(v)
  /\ UNCHANGED <<priority, tags, runs, outside, stops, added, overlap>>
\* A conversation's priority changes silently; each update of a ticket is an event, also
\* one that changes nothing.
SetsPriority(v) ==
  /\ Doing(v, "set_priority")
  /\ LET s == eval[v].subject IN
     /\ priority' = [priority EXCEPT ![s] = Arg(v)]
     /\ Publishes(IF s = "conversation" THEN {} ELSE {Event("ticket_updated", s, TRUE)})
  /\ Acted(v) /\ Done(v)
  /\ UNCHANGED <<tags, runs, outside, stops, added, overlap>>
CreatesTicket(v) ==
  /\ Doing(v, "create_ticket")
  /\ \E t \in Tickets :
       /\ priority[t] = None
       /\ priority' = [priority EXCEPT ![t] = Arg(v)]
       /\ Publishes({Event("ticket_created", t, TRUE)})
  /\ Acted(v) /\ Done(v)
  /\ UNCHANGED <<tags, runs, outside, stops, added, overlap>>
\* add_tag reads the tags as they are now and writes them back with one more.
\* Mutant: it adds to the tags the evaluation began with.
TagsAtTheStart(v) == eval[v].seen.tags
TagsNow(v) == tags
ReadsTags(v) ==
  /\ Doing(v, "add_tag") /\ eval[v].read = None
  /\ IF eval[v].subject = "conversation" THEN eval' = [eval EXCEPT ![v].read = TagsNow(v)] ELSE Done(v)
  /\ UNCHANGED <<priority, tags, pending, runs, outside, stops, added, acted, overlap>>
WritesTags(v) ==
  /\ Doing(v, "add_tag") /\ eval[v].read # None
  /\ tags' = eval[v].read \cup {Arg(v)}
  /\ added' = added \cup {Arg(v)}
  /\ overlap' = (overlap \/ \E w \in Evaluations \ {v} : eval[w].read # None)
  /\ Acted(v) /\ Done(v)
  /\ UNCHANGED <<priority, pending, runs, outside, stops>>
\* An action fails: the rule goes on with the next one.
Fails(v) ==
  /\ eval[v].todo # <<>> /\ ~Doing(v, "record")
  /\ Done(v)
  /\ UNCHANGED <<priority, tags, pending, runs, outside, stops, added, acted, overlap>>
\* Mutant: only rules with two actions or more leave a run.
RecordsSome(v) == IF Len(Head(eval[v].rules).actions) > 1 THEN {Head(eval[v].rules).id} ELSE {}
Recorded(v) == {Head(eval[v].rules).id}
RecordsRun(v) ==
  /\ Doing(v, "record")
  /\ runs' = runs \cup Recorded(v)
  /\ Moves(v, Next1(v))
  /\ UNCHANGED <<priority, tags, pending, outside, stops, added, acted, overlap>>
Stops(v) ==
  /\ eval[v] # Idle /\ stops < MaxStops
  /\ stops' = stops + 1
  /\ eval' = [eval EXCEPT ![v] = Idle]
  /\ UNCHANGED <<priority, tags, pending, runs, outside, added, acted, overlap>>

Evaluates(v) ==
  \/ Starts(v) \/ Tests(v) \/ SendsMessage(v) \/ SetsPriority(v) \/ CreatesTicket(v)
  \/ ReadsTags(v) \/ WritesTags(v) \/ RecordsRun(v)
Next == FromOutside \/ \E v \in Evaluations : Evaluates(v) \/ Fails(v) \/ Stops(v)
Fairness == \A v \in Evaluations : WF_vars(Evaluates(v) \/ Fails(v))
Spec == Init /\ [][Next]_vars /\ Fairness

-----------------------------------------------------------------------------
\* Facts, events and evaluations have their types.
TypeOK ==
  /\ \A s \in Subjects : priority[s] \in Priorities \cup {None}
  /\ \A e \in pending : e.subject \in Subjects
  /\ \A v \in Evaluations : eval[v].subject \in Subjects \cup {None}

\* A tag a rule added stays, though the facts were read before the rules ran, unless two
\* evaluations wrote over each other (automation.service.ts:192, 397-409).
TagsStay == ~overlap => added \subseteq tags

\* What a rule did can be traced to it: a rule that acted has a run, or is still at work,
\* unless its evaluation stopped (automation.service.ts:36-37, 145-173).
EffectsAreTraced ==
  stops = 0 => \A r \in acted \ runs : \E v \in Evaluations :
                 eval[v].todo # <<>> /\ Head(eval[v].rules).id = r

\* Rules whose actions cannot meet their own conditions come to rest once nothing arrives,
\* however their events and evaluations interleave: in particular a rule that answers a
\* message never answers its own (automation.listener.ts:35-42).
CascadesEnd == <>[](pending = {} /\ \A v \in Evaluations : eval[v] = Idle)
=============================================================================
