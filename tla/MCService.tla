----------------------------- MODULE MCService -----------------------------
(* The promises made to a customer and the people who keep them: SLA clocks    *)
(* (SlaClocks), tickets (Tickets), the roster (Roster), what an agent was doing *)
(* all day (PresenceLog), the scores of their work (Quality). They share no     *)
(* state: the first state chooses the part that moves.                          *)
EXTENDS SlaClocks, TLC

CONSTANTS
  Agents, Fields, Statuses,                       \* of Tickets
  People, Spans, Templates,                       \* of Roster
  Tabs, Presences, Available, Day, Shift, Break,  \* of PresenceLog
  Criteria, Marks, PassingScores,                 \* of Quality
  Nobody,
  MaxVersion, MaxDeaths, MaxPlans, MaxLeaves, MaxStops, MaxWrites, MaxLost,
  MaxEvaluations, MaxDisputes                     \* bounds

ASSUME SpansHaveTwoEnds == Spans \subseteq Nat \X Nat
ASSUME TemplatesAreLists ==
  \A t \in Templates :
    t # <<>> /\ t \in Seq({t[k] : k \in DOMAIN t}) /\ \A k \in DOMAIN t : t[k][2] \in Spans
ASSUME DayIsNatural == {Day, MaxWrites} \subseteq Nat
ASSUME NobodyIsNoChange == Nobody \notin [state : Presences, at : 0 .. 2 * Day, n : 1 .. MaxWrites]

(* Values of the parameters. *)

ShortTarget   == [resolution |-> [duration |-> 2, warn |-> 1]]
ThreeSpans    == {<<0, 2>>, <<1, 3>>, <<2, 4>>}
ThreeRosters  == {<< <<"ann", <<0, 2>> >> >>,
                  << <<"ann", <<1, 3>> >>, <<"ann", <<2, 4>> >> >>,
                  << <<"bob", <<0, 2>> >>, <<"ann", <<0, 2>> >> >>}
NightShift    == <<1, 4>>
LastHour      == <<3, 4>>
TwoCriteria   == <<[weight |-> 70, critical |-> FALSE], [weight |-> 30, critical |-> TRUE]>>

\* Listeners, and workers, are interchangeable.
Symmetry == Permutations(Listeners) \cup Permutations(Workers)

VARIABLES
  part,
  ticket, numbers, edit, trail, deaths, moved, gaps, buried,
  shifts, leaves, planning, plansAsked, stops, halfway,
  day, presence, tab, pending, log, rostered, record, writes, lost, truth, last, skewed,
  passingScore, evaluations, disputes, grading, crossed
ticketVars == <<ticket, numbers, edit, trail, deaths, moved, gaps, buried>>
rosterVars == <<shifts, leaves, planning, plansAsked, stops, halfway>>
presenceVars == <<day, presence, tab, pending, log, rostered, record, writes, lost, truth, last, skewed>>
qualityVars == <<passingScore, evaluations, disputes, grading, crossed>>

\* The editors, planners and graders have the names of the listeners, so that the
\* symmetry is theirs.
T == INSTANCE Tickets WITH Editors <- Listeners, Keys <- Fields
R == INSTANCE Roster WITH
       Planners <- Listeners, None <- Nobody,
       job <- planning, asked <- plansAsked, MaxAsked <- MaxPlans
P == INSTANCE PresenceLog WITH None <- Nobody, now <- day
Q == INSTANCE Quality WITH Requests <- Listeners, None <- Nobody, job <- grading

AllVars == <<vars, part, ticketVars, rosterVars, presenceVars, qualityVars>>
AllInit ==
  /\ part \in {"clocks", "tickets", "roster", "presence", "quality"}
  /\ Init /\ T!Init /\ R!Init /\ P!Init /\ Q!Init
  /\ part # "clocks" => kind = "ticket"
  /\ part # "quality" => passingScore = CHOOSE s \in PassingScores : TRUE
AllNext ==
  \/ /\ part = "clocks" /\ Next
     /\ UNCHANGED <<part, ticketVars, rosterVars, presenceVars, qualityVars>>
  \/ /\ part = "tickets" /\ T!Next
     /\ UNCHANGED <<part, vars, rosterVars, presenceVars, qualityVars>>
  \/ /\ part = "roster" /\ R!Next
     /\ UNCHANGED <<part, vars, ticketVars, presenceVars, qualityVars>>
  \/ /\ part = "presence" /\ P!Next
     /\ UNCHANGED <<part, vars, ticketVars, rosterVars, qualityVars>>
  \/ /\ part = "quality" /\ Q!Next
     /\ UNCHANGED <<part, vars, ticketVars, rosterVars, presenceVars>>
AllSpec == AllInit /\ [][AllNext]_AllVars

\* An update of a ticket replaces nothing its client has not seen, and the history leads to
\* the state, but for overlaps (tickets.service.ts:241-281, 355-379).
TicketsKeepChanges == T!OnlyOverlapsOverwrite /\ T!TrailLeadsHere
\* A day at work is as it was agreed and as it was: nobody is rostered twice or over approved
\* leave, and what is recorded of a day is what happened in it (wfm.service.ts:371-576, 581-667, 743-795),
\* but for the overlaps and the delays each names.
WorkdaysAreTrue == R!LeaveIsKept /\ R!NoDoubleBooking /\ P!RecordTellsTheDay
\* An evaluation is disputed as long as a dispute of it is open, and a failed critical
\* criterion is not averaged away by the model (quality.service.ts:330-460).
ScoresAreSettled == Q!StatusFollowsDisputes /\ Q!CriticalIsNotAveragedAway
=============================================================================
