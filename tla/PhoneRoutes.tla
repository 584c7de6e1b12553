----------------------------- MODULE PhoneRoutes -----------------------------
(* Telephone numbers and the IVR flows they route to. Administrators' requests
   check, in one read, what another may change before they write. *)
EXTENDS Naturals, FiniteSets

CONSTANTS
  Admins,     \* requests in flight
  Flows,      \* IVR flows
  Numbers,    \* telephone numbers
  None,       \* no route: voicemail
  MaxAsked    \* bound: requests

VARIABLES
  flow,       \* which flows exist, and which are active
  route,      \* the flow each number routes to, with None; Unset for no number
  task,
  asked,
  excuse      \* history: a write that overlapped another, or a patch that is not checked
vars == <<flow, route, task, asked, excuse>>

Unset == "no number"
NoTask == [pc |-> "idle", of |-> None, to |-> None]
Init ==
  /\ flow = [there |-> {}, active |-> {}]
  /\ route = [n \in Numbers |-> Unset]
  /\ task = [a \in Admins |-> NoTask]
  /\ asked = 0 /\ excuse = {}

Begins(a, pc, of, to) ==
  /\ task[a] = NoTask /\ asked < MaxAsked
  /\ asked' = asked + 1
  /\ task' = [task EXCEPT ![a] = [pc |-> pc, of |-> of, to |-> to]]
At(a, pc) == task[a].pc = pc
Over(a) == task' = [task EXCEPT ![a] = NoTask]

-----------------------------------------------------------------------------
\* createNumber and updateNumber look whether the target is there.
\* Mutant: they do not.
AnyTarget(f) == f # Unset
TargetThere(f) == f = None \/ f \in flow.there
Targets(a, n, f) ==
  /\ TargetThere(f)
  /\ Begins(a, "route", n, f)
  /\ UNCHANGED <<flow, route, excuse>>
Routes(a) ==
  /\ At(a, "route")
  /\ route' = [route EXCEPT ![task[a].of] = task[a].to]
  /\ excuse' = IF \E b \in Admins : At(b, "delete") /\ task[b].of = task[a].to
               THEN excuse \cup {task[a].of} ELSE excuse
  /\ Over(a)
  /\ UNCHANGED <<flow, asked>>
\* A patch of the target alone, without its kind, is not checked.
Patches(a, n, f) ==
  /\ route[n] # Unset
  /\ route' = [route EXCEPT ![n] = f]
  /\ excuse' = IF f \in flow.there THEN excuse ELSE excuse \cup {n}
  /\ asked < MaxAsked /\ asked' = asked + 1
  /\ UNCHANGED <<flow, task>>
Unroutes(n) ==
  /\ route[n] # Unset
  /\ route' = [route EXCEPT ![n] = Unset]
  /\ UNCHANGED <<flow, task, asked, excuse>>

\* createFlow refuses a name that is taken; here names are ids.
Creates(f) ==
  /\ f \notin flow.there /\ asked < MaxAsked
  /\ asked' = asked + 1
  /\ flow' = [flow EXCEPT !.there = @ \cup {f}]
  /\ UNCHANGED <<route, task, excuse>>

\* setActive retires the others, then activates: two writes.
\* Mutant: the others stay active.
NoneRetired == flow.active
Retired == {}
Retires(a, f) ==
  /\ f \in flow.there
  /\ Begins(a, "activate", f, None)
  /\ flow' = [flow EXCEPT !.active = Retired]
  /\ UNCHANGED <<route, excuse>>
Activates(a) ==
  LET f == task[a].of IN
  /\ At(a, "activate")
  /\ flow' = IF f \in flow.there THEN [flow EXCEPT !.active = @ \cup {f}] ELSE flow
  /\ excuse' = IF \E b \in Admins \ {a} : At(b, "activate") THEN excuse \cup {"active"} ELSE excuse
  /\ Over(a)
  /\ UNCHANGED <<route, asked>>
Deactivates(f) ==
  /\ f \in flow.active
  /\ flow' = [flow EXCEPT !.active = @ \ {f}]
  /\ UNCHANGED <<route, task, asked, excuse>>

\* deleteFlow: not while it is active, nor while a number routes to it.
Routed(f) == \E n \in Numbers : route[n] = f
ReadsToDelete(a, f) ==
  /\ f \in flow.there \ flow.active /\ ~Routed(f)
  /\ Begins(a, "delete", f, None)
  /\ UNCHANGED <<flow, route, excuse>>
Deletes(a) ==
  LET f == task[a].of IN
  /\ At(a, "delete")
  /\ flow' = [there |-> flow.there \ {f}, active |-> flow.active \ {f}]
  /\ excuse' = excuse \cup {n \in Numbers : route[n] = f}
                      \cup {task[b].of : b \in {b \in Admins : At(b, "route") /\ task[b].to = f}}
  /\ Over(a)
  /\ UNCHANGED <<route, asked>>

Next ==
  \/ \E a \in Admins :
       \/ \E n \in Numbers, f \in Flows \cup {None} : Targets(a, n, f) \/ (f # None /\ Patches(a, n, f))
       \/ Routes(a) \/ Activates(a) \/ Deletes(a)
       \/ \E f \in Flows : Retires(a, f) \/ ReadsToDelete(a, f)
  \/ \E f \in Flows : Creates(f) \/ Deactivates(f)
  \/ \E n \in Numbers : Unroutes(n)
Spec == Init /\ [][Next]_vars

-----------------------------------------------------------------------------
\* Flows, routes and requests have their types.
TypeOK ==
  /\ flow.active \subseteq flow.there
  /\ route \in [Numbers -> Flows \cup {None, Unset}]

\* A number routes to a flow that is there, unless its route was written beside the
\* flow's deletion or patched without its kind (ivr.service.ts:46-146, 227-237).
RoutesLead == \A n \in Numbers : route[n] \in flow.there \cup {None, Unset} \/ n \in excuse

\* Of the flows, one is active, unless two were activated at once
\* (ivr.service.ts:204-225).
OneActive == Cardinality(flow.active) <= 1 \/ "active" \in excuse
=============================================================================
