----------------------------- MODULE PresenceLog -----------------------------
(* One agent's presence and what adherence makes of it: the presence is a column of *)
(* the user, each change of it an event, and the log of the events heard is all that *)
(* is left to say, after a day has ended, when the agent was available in it.        *)
EXTENDS Naturals, Sequences, FiniteSets

CONSTANTS
  Tabs,        \* requests of the agent that set the presence
  Presences, Available,
  Day,         \* minutes of a day; the shift is in the second one
  Shift, Break,  \* <<start, end>> in minutes
  None,
  MaxWrites, MaxLost  \* bounds: presence changes, events lost

VARIABLES
  now, presence,
  tab,       \* the change a request has written and not published
  pending,   \* events published and not heard, or to be heard again
  log,       \* AgentStateEvent rows in order
  rostered,  \* the shift is still published
  record,    \* AdherenceRecord of the second day
  writes, lost,
  truth,     \* history: the presence at the end of each minute
  last, skewed  \* history: newest change heard; an event came late, out of order or never
vars == <<now, presence, tab, pending, log, rostered, record, writes, lost, truth, last, skewed>>

Init ==
  /\ now = 0 /\ presence = "offline" /\ log = <<>> /\ truth = <<>> /\ pending = {}
  /\ tab = [t \in Tabs |-> None]
  /\ rostered = TRUE /\ record = None
  /\ writes = 0 /\ lost = 0 /\ last = 0 /\ skewed = FALSE

\* setPresence: the column, then the event; a publication that fails is swallowed.
SetsColumn(t, s) ==
  /\ tab[t] = None /\ writes < MaxWrites
  /\ writes' = writes + 1
  /\ presence' = s
  /\ tab' = [tab EXCEPT ![t] = [state |-> s, at |-> now, n |-> writes + 1]]
  /\ UNCHANGED <<now, pending, log, rostered, record, lost, truth, last, skewed>>
Publishes(t) ==
  /\ tab[t] # None
  /\ pending' = pending \cup {tab[t]}
  /\ tab' = [tab EXCEPT ![t] = None]
  /\ UNCHANGED <<now, presence, log, rostered, record, writes, lost, truth, last, skewed>>
IsLost(t) ==
  /\ tab[t] # None /\ lost < MaxLost
  /\ lost' = lost + 1 /\ skewed' = TRUE
  /\ tab' = [tab EXCEPT ![t] = None]
  /\ UNCHANGED <<now, presence, pending, log, rostered, record, writes, truth, last>>
\* recordStateChange stamps the row with the time it is heard; the bus may bring it again.
RecordStateChange(e) ==
  /\ log' = Append(log, [state |-> e.state, at |-> now])
  /\ Len(log) < MaxWrites + 1
  /\ pending' \in {pending, pending \ {e}}
  /\ last' = IF e.n > last THEN e.n ELSE last
  /\ skewed' = (skewed \/ e.at # now \/ e.n < last)
  /\ UNCHANGED <<now, presence, tab, rostered, record, writes, lost, truth>>
Tick ==
  /\ now < 2 * Day
  /\ now' = now + 1
  /\ truth' = Append(truth, presence)
  /\ UNCHANGED <<presence, tab, pending, log, rostered, record, writes, lost, last, skewed>>

DayStart == Day
DayEnd == 2 * Day
Clipped(span) ==
  {m \in DayStart .. DayEnd - 1 : span[1] <= m /\ m < span[2]}
MinuteMask == Clipped(Shift) \ Clipped(Break)
\* availabilityMask walks the transitions and carries the last state forward.
\* Mutant: the day starts offline, whatever went before.
StartsOffline(walk, e) ==
  [current |-> IF e.at < DayStart THEN "offline" ELSE e.state,
   cursor |-> IF e.at < DayStart THEN walk.cursor ELSE e.at,
   mask |-> walk.mask \cup IF e.at >= DayStart /\ walk.current \in Available
                            THEN walk.cursor .. e.at - 1 ELSE {}]
Takes(walk, e) ==
  [current |-> e.state,
   cursor |-> IF e.at < DayStart THEN walk.cursor ELSE e.at,
   mask |-> walk.mask \cup IF e.at >= DayStart /\ walk.current \in Available
                            THEN walk.cursor .. e.at - 1 ELSE {}]
Walk ==
  LET walk[k \in 0 .. Len(log)] ==
        IF k = 0 THEN [current |-> "offline", cursor |-> DayStart, mask |-> {}]
        ELSE IF log[k].at < DayEnd THEN Takes(walk[k - 1], log[k]) ELSE walk[k - 1]
  IN  walk
AvailabilityMask ==
  LET walk == Walk[Len(log)] IN
  walk.mask \cup IF walk.current \in Available THEN walk.cursor .. DayEnd - 1 ELSE {}

\* computeAdherenceForDay, by night or on demand: only for whoever has a published shift.
ComputeAdherence ==
  /\ now >= DayStart /\ rostered
  /\ record' = [adherent |-> Cardinality(MinuteMask \cap AvailabilityMask),
                unscheduled |-> Cardinality(AvailabilityMask \ MinuteMask),
                faithful |-> now >= DayEnd /\ ~skewed /\ pending = {} /\ \A t \in Tabs : tab[t] = None]
  /\ UNCHANGED <<now, presence, tab, pending, log, rostered, writes, lost, truth, last, skewed>>
CancelsShift ==
  /\ rostered /\ rostered' = FALSE
  /\ UNCHANGED <<now, presence, tab, pending, log, record, writes, lost, truth, last, skewed>>

Next ==
  \/ Tick \/ ComputeAdherence \/ CancelsShift
  \/ \E t \in Tabs : Publishes(t) \/ IsLost(t) \/ \E s \in Presences : SetsColumn(t, s)
  \/ \E e \in pending : RecordStateChange(e)
Spec == Init /\ [][Next]_vars
-----------------------------------------------------------------------------
\* What is recorded of a day that has ended is what happened in it, as long as every
\* change was heard within its minute and none after a later one: a day begun before
\* midnight, a change within a minute, an event heard twice are all counted right.
RecordTellsTheDay ==
  record # None /\ record.faithful =>
    LET was == {m \in DayStart .. DayEnd - 1 : truth[m + 1] \in Available} IN
    /\ record.adherent = Cardinality(MinuteMask \cap was)
    /\ record.unscheduled = Cardinality(was \ MinuteMask)
=============================================================================
