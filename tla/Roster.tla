------------------------------- MODULE Roster -------------------------------
(* The roster of one organisation: planners put people on shifts, one at a time or *)
(* from a template, publish and cancel them, and decide requests for time off.      *)
EXTENDS Naturals, Sequences, FiniteSets

CONSTANTS
  Planners,   \* requests of planners in flight
  People,
  Spans,      \* <<start, end>> a shift or a leave may cover
  Templates,  \* sequences of <<person, span>> a template expands to
  None,
  MaxAsked, MaxLeaves, MaxStops  \* bounds: requests, leaves asked for, requests that die half way

VARIABLES
  shifts,  \* rows in order: user, span, state; history: twin, late (overtaken checks)
  leaves,  \* time off requests in order: user, span, status
  job,     \* what each planner's request is doing
  asked, stops,
  halfway  \* history: leaves approved by a request that died before it cancelled shifts
vars == <<shifts, leaves, job, asked, stops, halfway>>

Idle == [todo |-> <<>>, step |-> "none", leave |-> 0, approve |-> FALSE, twin |-> FALSE, late |-> FALSE]
Init ==
  /\ shifts = <<>> /\ leaves = <<>> /\ halfway = {}
  /\ job = [p \in Planners |-> Idle]
  /\ asked = 0 /\ stops = 0

Live(s) == s.state # "cancelled"
Within(a, b) == a[1] <= b[1] /\ a[2] >= b[2]
Overlap(a, b) == a[1] < b[2] /\ a[2] > b[1]
\* Mutant: only a published shift counts as being rostered.
RosteredIfPublished(user, span) ==
  \E i \in DOMAIN shifts :
    shifts[i].user = user /\ shifts[i].state = "published" /\ Overlap(shifts[i].span, span)
Rostered(user, span) ==
  \E i \in DOMAIN shifts :
    shifts[i].user = user /\ Live(shifts[i]) /\ Overlap(shifts[i].span, span)
Away(user, span) ==
  \E l \in DOMAIN leaves :
    leaves[l].user = user /\ leaves[l].status = "approved" /\ Overlap(leaves[l].span, span)

Asks == asked < MaxAsked /\ asked' = asked + 1
\* createShift is a template of one.
StartsShifts(p) ==
  /\ job[p] = Idle
  /\ Asks
  /\ \E t \in Templates : job' = [job EXCEPT ![p] = [Idle EXCEPT !.todo = t, !.step = "overlap"]]
  /\ UNCHANGED <<shifts, leaves, stops, halfway>>

\* A clash skips this shift and no other.
Onward(p) == IF Len(job[p].todo) = 1 THEN Idle
             ELSE [Idle EXCEPT !.todo = Tail(job[p].todo), !.step = "overlap"]
Checks(p, step, clash, next) ==
  /\ job[p].step = step
  /\ job' = [job EXCEPT ![p] = IF clash THEN Onward(p) ELSE [@ EXCEPT !.step = next]]
  /\ UNCHANGED <<shifts, leaves, asked, stops, halfway>>
User(p) == Head(job[p].todo)[1]
Span(p) == Head(job[p].todo)[2]
ChecksOverlap(p) == job[p].todo # <<>> /\ Checks(p, "overlap", Rostered(User(p), Span(p)), "leave")
ChecksLeave(p) == job[p].todo # <<>> /\ Checks(p, "leave", Away(User(p), Span(p)), "insert")
Clashes(q, user, span) == job[q].todo # <<>> /\ User(q) = user /\ Overlap(Span(q), span)
Inserts(p) ==
  /\ job[p].step = "insert"
  /\ shifts' = Append(shifts, [user |-> User(p), span |-> Span(p), state |-> "draft",
                               twin |-> job[p].twin, late |-> job[p].late])
  /\ job' = [q \in Planners |->
               IF q = p THEN Onward(p)
               ELSE [job[q] EXCEPT !.twin = @ \/ (job[q].step \in {"leave", "insert"}
                                                   /\ Clashes(q, User(p), Span(p)))]]
  /\ UNCHANGED <<leaves, asked, stops, halfway>>

\* Drafts that lie wholly within the window are published.
PublishShifts ==
  /\ \E window \in Spans :
       /\ shifts' = [i \in DOMAIN shifts |->
                       IF shifts[i].state = "draft" /\ Within(window, shifts[i].span)
                       THEN [shifts[i] EXCEPT !.state = "published"] ELSE shifts[i]]
       /\ shifts' # shifts
  /\ UNCHANGED <<leaves, job, asked, stops, halfway>>
CancelShift ==
  /\ \E i \in DOMAIN shifts : shifts' = [shifts EXCEPT ![i].state = "cancelled"] /\ shifts' # shifts
  /\ UNCHANGED <<leaves, job, asked, stops, halfway>>

RequestTimeOff ==
  /\ Len(leaves) < MaxLeaves
  /\ \E u \in People, s \in Spans : leaves' = Append(leaves, [user |-> u, span |-> s, status |-> "requested"])
  /\ UNCHANGED <<shifts, job, asked, stops, halfway>>
\* decideTimeOff: the status is read, written by id, and the shifts are cancelled.
ReadsRequest(p) ==
  /\ job[p] = Idle
  /\ Asks
  /\ \E l \in DOMAIN leaves, yes \in BOOLEAN :
       /\ leaves[l].status = "requested"
       /\ job' = [job EXCEPT ![p] = [Idle EXCEPT !.leave = l, !.approve = yes, !.step = "decide"]]
  /\ UNCHANGED <<shifts, leaves, stops, halfway>>
Decides(p) ==
  /\ job[p].step = "decide"
  /\ LET l == job[p].leave
         yes == job[p].approve IN
     /\ leaves' = [leaves EXCEPT ![l].status = IF yes THEN "approved" ELSE "declined"]
     /\ job' = [q \in Planners |->
                  IF q = p THEN IF yes THEN [job[p] EXCEPT !.step = "cancel"] ELSE Idle
                  ELSE [job[q] EXCEPT !.late = @ \/ (yes /\ job[q].step = "insert"
                                                      /\ Clashes(q, leaves[l].user, leaves[l].span))]]
  /\ UNCHANGED <<shifts, asked, stops, halfway>>
\* Mutant: shifts still in draft are left alone.
PublishedOnes(l) ==
  {i \in DOMAIN shifts : /\ shifts[i].user = leaves[l].user /\ shifts[i].state = "published"
                         /\ Overlap(shifts[i].span, leaves[l].span)}
Collide(l) ==
  {i \in DOMAIN shifts : /\ shifts[i].user = leaves[l].user /\ Live(shifts[i])
                         /\ Overlap(shifts[i].span, leaves[l].span)}
CancelsShifts(p) ==
  /\ job[p].step = "cancel"
  /\ shifts' = [i \in DOMAIN shifts |->
                  IF i \in Collide(job[p].leave) THEN [shifts[i] EXCEPT !.state = "cancelled"] ELSE shifts[i]]
  /\ job' = [job EXCEPT ![p] = Idle]
  /\ UNCHANGED <<leaves, asked, stops, halfway>>

\* The process dies, or the database refuses a statement.
Stops(p) ==
  /\ job[p] # Idle /\ stops < MaxStops
  /\ stops' = stops + 1
  /\ halfway' = IF job[p].step = "cancel" THEN halfway \cup {job[p].leave} ELSE halfway
  /\ job' = [job EXCEPT ![p] = Idle]
  /\ UNCHANGED <<shifts, leaves, asked>>

Next ==
  \/ PublishShifts \/ CancelShift \/ RequestTimeOff
  \/ \E p \in Planners :
       \/ StartsShifts(p) \/ ChecksOverlap(p) \/ ChecksLeave(p) \/ Inserts(p)
       \/ ReadsRequest(p) \/ Decides(p) \/ CancelsShifts(p) \/ Stops(p)
Spec == Init /\ [][Next]_vars
-----------------------------------------------------------------------------
\* Two live shifts of one person overlap only when another planner rostered that
\* person after the overlap was looked for: nothing but the race double-books.
NoDoubleBooking ==
  \A i, j \in DOMAIN shifts :
    /\ i < j /\ shifts[i].user = shifts[j].user
    /\ Live(shifts[i]) /\ Live(shifts[j]) /\ Overlap(shifts[i].span, shifts[j].span)
    => shifts[j].twin

\* Nobody is rostered over approved time off, once the request that approved it has
\* cancelled the shifts: except by a planner who had looked before the approval.
LeaveIsKept ==
  \A l \in DOMAIN leaves, i \in DOMAIN shifts :
    /\ leaves[l].status = "approved" /\ shifts[i].user = leaves[l].user
    /\ Live(shifts[i]) /\ Overlap(shifts[i].span, leaves[l].span)
    => \/ shifts[i].late \/ l \in halfway
       \/ \E p \in Planners : job[p].step = "cancel" /\ job[p].leave = l
=============================================================================
