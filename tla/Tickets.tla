------------------------------ MODULE Tickets ------------------------------
(* One ticket: its number taken inside the creating transaction, and updates that read
   the ticket, compare the version the client sent, write by id and record what the
   row shows. Editors' requests overlap, and each may stop between
   two of its writes. *)
EXTENDS Naturals, FiniteSets, Sequences

CONSTANTS
  Editors,      \* requests in flight
  Agents,       \* assignees
  Nobody,       \* no assignee, no ticket
  Keys,         \* custom fields of the tenant
  Statuses,     \* statuses that are asked for
  MaxVersion, MaxDeaths   \* bounds: updates, requests that stop

VARIABLES
  ticket,     \* the ticket's row, or Nobody
  numbers,    \* the tenant's counter of tickets
  edit,       \* what each request is at
  trail,      \* ticketHistory: the last value recorded of each tracked field
  deaths,
  moved,      \* history: requests whose row changed after they read it
  gaps,       \* history: somebody stopped between a write and its history, or overlapped
  buried      \* history: how an update replaced what its client had not seen
vars == <<ticket, numbers, edit, trail, deaths, moved, gaps, buried>>

Tracked == {"status", "assignee"}
\* What the history has of each tracked field: nothing, or the last value.
NoTrail == [f \in Tracked |-> {}]
NoEdit == [pc |-> "idle", before |-> Nobody, patch |-> [status |-> {}, assignee |-> {}, keys |-> {}],
           seen |-> 0, asked |-> FALSE, rows |-> NoTrail]
Fresh(n) == [number |-> n, version |-> 0, status |-> "open", assignee |-> Nobody, custom |-> {},
             responded |-> FALSE, resolved |-> FALSE, closed |-> FALSE, reopens |-> 0]

Init ==
  /\ ticket = Nobody
  /\ numbers = 1
  /\ edit = [e \in Editors |-> NoEdit]
  /\ trail = NoTrail
  /\ deaths = 0
  /\ moved = {} /\ gaps = FALSE /\ buried = {}

At(e, pc) == edit[e].pc = pc
Over(e) == edit' = [edit EXCEPT ![e] = NoEdit]

-----------------------------------------------------------------------------
\* create takes the number and inserts the row in one transaction, and publishes.
Creates(e) ==
  /\ At(e, "idle") /\ ticket = Nobody /\ numbers = 1
  /\ numbers' = numbers + 1
  /\ ticket' = Fresh(numbers)
  /\ UNCHANGED <<edit, trail, deaths, moved, gaps, buried>>

\* update reads the row and compares the version the client saw, if he sent one.
Patches == [status : {{}} \cup {{s} : s \in Statuses}, assignee : {{}} \cup {{a} : a \in Agents},
            keys : {{}} \cup {{k} : k \in Keys}]
\* Mutant: the version is not compared.
AnyVersion(v) == v <= ticket.version
SameVersion(v) == v = ticket.version
Reading == [status |-> ticket.status, assignee |-> ticket.assignee, custom |-> ticket.custom]
Reads(e, patch, v, matches) ==
  /\ At(e, "idle") /\ ticket # Nobody /\ ticket.version < MaxVersion
  /\ IF matches THEN SameVersion(v) ELSE v = ticket.version
  /\ edit' = [edit EXCEPT ![e] = [NoEdit EXCEPT !.pc = "write", !.before = Reading, !.patch = patch, !.seen = v,
                                             !.asked = matches]]
  /\ moved' = moved \ {e}
  /\ UNCHANGED <<ticket, numbers, trail, deaths, gaps, buried>>

Named(s, old) == IF s = {} THEN old ELSE CHOOSE x \in s : TRUE
Is(e, status) == edit[e].patch.status = {status}
\* The row that is written: what the patch names, and the dates its status implies.
\* The custom fields are those that were read, with the patch's over them.
Patched(e) ==
  LET p == edit[e].patch IN
  [ticket EXCEPT !.version = @ + 1,
                 !.status = Named(p.status, @),
                 !.assignee = Named(p.assignee, @),
                 !.custom = IF p.keys = {} THEN @ ELSE edit[e].before.custom \cup p.keys,
                 !.resolved = IF Is(e, "reopened") THEN FALSE ELSE @ \/ Is(e, "resolved") \/ Is(e, "closed"),
                 !.closed = IF Is(e, "reopened") THEN FALSE ELSE @ \/ Is(e, "closed"),
                 !.reopens = IF Is(e, "reopened") THEN @ + 1 ELSE @]
\* Every tracked field that differs between the row read and the row written.
\* Mutant: the assignee is not tracked.
StatusOnly == {"status"}
Recorded == Tracked
Rows(e) == [f \in Tracked |-> IF f \in Recorded /\ edit[e].before[f] # Patched(e)[f] THEN {Patched(e)[f]} ELSE {}]
Writes(e) ==
  /\ At(e, "write") /\ ticket # Nobody
  /\ ticket' = Patched(e)
  /\ edit' = [edit EXCEPT ![e] = [NoEdit EXCEPT !.pc = "history", !.rows = Rows(e)]]
  /\ LET unseen == edit[e].seen < ticket.version
         dropped == ticket.custom \ Patched(e).custom # {}
     IN buried' = buried \cup (IF (unseen \/ dropped) /\ e \notin moved THEN {"alone"} ELSE {})
                         \cup (IF unseen /\ edit[e].asked /\ e \in moved THEN {"raced"} ELSE {})
  /\ moved' = (moved \ {e}) \cup {f \in Editors \ {e} : edit[f].pc = "write"}
  /\ gaps' = (gaps \/ e \in moved \/ \E f \in Editors \ {e} : At(f, "history"))
  /\ UNCHANGED <<numbers, trail, deaths>>
Records(e) ==
  /\ At(e, "history")
  /\ trail' = [f \in Tracked |-> IF edit[e].rows[f] # {} THEN edit[e].rows[f] ELSE trail[f]]
  /\ Over(e)
  /\ UNCHANGED <<ticket, numbers, deaths, moved, gaps, buried>>

Deletes ==
  /\ ticket # Nobody
  /\ ticket' = Nobody
  /\ gaps' = TRUE
  /\ UNCHANGED <<numbers, edit, trail, deaths, moved, buried>>
\* An update of a ticket that is gone fails, and so does its history.
Fails(e) ==
  /\ ticket = Nobody /\ edit[e].pc \in {"write", "history"}
  /\ Over(e)
  /\ UNCHANGED <<ticket, numbers, trail, deaths, moved, gaps, buried>>
\* The first public comment answers the ticket.
Comments ==
  /\ ticket # Nobody /\ ~ticket.responded
  /\ ticket' = [ticket EXCEPT !.responded = TRUE]
  /\ UNCHANGED <<numbers, edit, trail, deaths, moved, gaps, buried>>

Stops(e) ==
  /\ ~At(e, "idle") /\ deaths < MaxDeaths
  /\ deaths' = deaths + 1
  /\ gaps' = (gaps \/ At(e, "history"))
  /\ Over(e)
  /\ UNCHANGED <<ticket, numbers, trail, moved, buried>>

Next ==
  \/ \E e \in Editors :
       \/ Creates(e) \/ Writes(e) \/ Records(e) \/ Fails(e) \/ Stops(e)
       \/ \E patch \in Patches, v \in 0 .. MaxVersion, matches \in BOOLEAN : Reads(e, patch, v, matches)
  \/ Deletes \/ Comments
Spec == Init /\ [][Next]_vars

-----------------------------------------------------------------------------
\* Tickets, requests and the numbers given have their types.
TypeOK ==
  /\ ticket = Nobody \/ ticket.version \in 0 .. MaxVersion + Cardinality(Editors)
  /\ numbers \in {1, 2}
  /\ ticket # Nobody => ticket.status \in {"open"} \cup Statuses /\ ticket.custom \subseteq Keys
  /\ buried \subseteq {"alone", "raced"}

\* A client's update replaces what he has not seen only when another update came
\* between its read and its write (tickets.service.ts:241-279).
OnlyOverlapsOverwrite == "alone" \notin buried

\* The recorded history of a tracked field ends in the field's value once no update is
\* under way, unless two overlapped or one stopped (tickets.service.ts:281, 355-379).
TrailLeadsHere ==
  ticket # Nobody /\ ~gaps /\ (\A e \in Editors : edit[e].pc \notin {"write", "history"})
    => \A f \in Tracked : IF trail[f] = {} THEN ticket[f] = Fresh(1)[f] ELSE trail[f] = {ticket[f]}

\* What the interface promises of a version: a client that sends one never replaces a
\* change he has not seen (docs/api/standards.md:112-113, tickets.service.ts:237-240).
VersionGuards == "raced" \notin buried
=============================================================================
