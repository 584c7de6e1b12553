------------------------------ MODULE Webhooks ------------------------------
(* One webhook endpoint: the delivery rows of the events it subscribes to, the
   attempts the dispatcher, the retry sweep and a replay make at them, and the
   failure count that retires the endpoint. An attempt reads the row, posts, and
   writes what it counted; other attempts at the same row may run meanwhile, and
   the process may stop anywhere. *)
EXTENDS Naturals, FiniteSets

CONSTANTS
  Senders,    \* attempts in flight the dispatcher or a replay started
  Sweeps,     \* retryDue calls in flight
  Rows,       \* delivery rows that may be created
  MaxAttempts,   \* MAX_ATTEMPTS
  MaxFailures,   \* FAILURES_BEFORE_DISABLE
  MaxCrashes, MaxEdits   \* bounds: crashes, administrators' requests

VARIABLES
  endpoint,   \* the endpoint row: isActive and failureCount, or gone
  row,        \* delivery rows: attempts, deliveredAt, nextAttemptAt
  task,       \* the attempt or sweep each process is at
  crashes, edits,
  sent,       \* history: requests made, by row
  slack       \* history: requests that were not counted when they might have been, by row
vars == <<endpoint, row, task, crashes, edits, sent, slack>>

Workers == Senders \cup Sweeps
NoTask == [pc |-> "idle", at |-> {}, n |-> 0, todo |-> {}]
Absent == [made |-> FALSE, attempts |-> 0, delivered |-> FALSE, due |-> "never"]
Created == [made |-> TRUE, attempts |-> 0, delivered |-> FALSE, due |-> "now"]

Init ==
  /\ endpoint = [there |-> TRUE, active |-> TRUE, failures |-> 0]
  /\ row = [d \in Rows |-> Absent]
  /\ task = [w \in Workers |-> NoTask]
  /\ crashes = 0 /\ edits = 0
  /\ sent = [d \in Rows |-> 0]
  /\ slack = [d \in Rows |-> 0]

Sends(w) == CHOOSE d \in task[w].at : TRUE
Turns(w, t) == task' = [task EXCEPT ![w] = t]
\* An attempt is over: a sweep goes on with its list.
Rest(w) == IF task[w].todo = {} THEN NoTask ELSE [NoTask EXCEPT !.pc = "next", !.todo = task[w].todo]
Reading(d) == [NoTask EXCEPT !.pc = "read", !.at = {d}]

-----------------------------------------------------------------------------
\* dispatch writes the row of a subscribed event and starts an attempt; a replay
\* does the same for an event that has a row already. The process may die between.
Dispatches(d) ==
  /\ endpoint.there /\ endpoint.active
  /\ ~row[d].made
  /\ row' = [row EXCEPT ![d] = Created]
  /\ \/ \E w \in Senders : task[w].pc = "idle" /\ Turns(w, Reading(d)) /\ UNCHANGED crashes
     \/ crashes < MaxCrashes /\ crashes' = crashes + 1 /\ UNCHANGED task
  /\ UNCHANGED <<endpoint, edits, sent, slack>>

\* retryDue lists what is due, and attempts it row by row.
Due == {d \in Rows : /\ row[d].made /\ ~row[d].delivered /\ row[d].due = "now"
                     /\ row[d].attempts < MaxAttempts /\ endpoint.active}
Lists(w) ==
  /\ task[w].pc = "idle" /\ Due # {}
  /\ Turns(w, [NoTask EXCEPT !.pc = "next", !.todo = Due])
  /\ UNCHANGED <<endpoint, row, crashes, edits, sent, slack>>
Takes(w) ==
  /\ task[w].pc = "next"
  /\ \E d \in task[w].todo :
       Turns(w, [Reading(d) EXCEPT !.todo = task[w].todo \ {d}])
  /\ UNCHANGED <<endpoint, row, crashes, edits, sent, slack>>

\* attempt: what is delivered, or whose endpoint is off, is left alone. The budget
\* is the sweep's to look at: a row listed earlier may have spent it since.
Reads(w) ==
  LET d == Sends(w) IN
  /\ task[w].pc = "read"
  /\ IF ~endpoint.there \/ row[d].delivered \/ ~endpoint.active
     THEN Turns(w, Rest(w)) /\ UNCHANGED slack
     ELSE /\ Turns(w, [task[w] EXCEPT !.pc = "post", !.n = row[d].attempts + 1])
          /\ slack' = [slack EXCEPT ![d] = @ + IF row[d].attempts >= MaxAttempts THEN 1 ELSE 0]
  /\ UNCHANGED <<endpoint, row, crashes, edits, sent>>
Posts(w) ==
  /\ task[w].pc = "post"
  /\ sent' = [sent EXCEPT ![Sends(w)] = @ + 1]
  /\ \E pc \in {"won", "lost"} : Turns(w, [task[w] EXCEPT !.pc = pc])
  /\ UNCHANGED <<endpoint, row, crashes, edits, slack>>

\* The count written is the one computed from the row as it was read.
\* Mutant: a failed attempt leaves the count as it was.
KeepsCount(w) == task[w].n - 1
Counted(w) == task[w].n
Overlooked(w, d) ==
  slack' = [slack EXCEPT ![d] = @ + IF row[d].attempts + 1 = task[w].n THEN 0
                                    ELSE IF row[d].attempts + 1 > task[w].n
                                    THEN row[d].attempts + 1 - task[w].n ELSE 0]
Succeeds(w) ==
  LET d == Sends(w) IN
  /\ task[w].pc = "won" /\ endpoint.there
  /\ row' = [row EXCEPT ![d] = [made |-> TRUE, attempts |-> task[w].n, delivered |-> TRUE, due |-> "never"]]
  /\ endpoint' = [endpoint EXCEPT !.failures = 0]
  /\ Overlooked(w, d)
  /\ Turns(w, Rest(w))
  /\ UNCHANGED <<crashes, edits, sent>>

\* Mutant: a failed delivery is not due again.
NeverAgain(w) == "never"
DueAgain(w) == IF Counted(w) >= MaxAttempts THEN "never" ELSE "later"
FailsRow(w) ==
  LET d == Sends(w) IN
  /\ task[w].pc = "lost" /\ endpoint.there
  /\ row' = [row EXCEPT ![d].attempts = Counted(w), ![d].due = DueAgain(w)]
  /\ Overlooked(w, d)
  /\ Turns(w, [task[w] EXCEPT !.pc = "count"])
  /\ UNCHANGED <<endpoint, crashes, edits, sent>>
FailsEndpoint(w) ==
  LET n == endpoint.failures + 1 IN
  /\ task[w].pc = "count" /\ endpoint.there
  /\ endpoint' = [endpoint EXCEPT !.failures = n]
  /\ Turns(w, IF n >= MaxFailures /\ endpoint.active THEN [task[w] EXCEPT !.pc = "disable"] ELSE Rest(w))
  /\ UNCHANGED <<row, crashes, edits, sent, slack>>
Disables(w) ==
  /\ task[w].pc = "disable" /\ endpoint.there
  /\ endpoint' = [endpoint EXCEPT !.active = FALSE]
  /\ Turns(w, Rest(w))
  /\ UNCHANGED <<row, crashes, edits, sent, slack>>
\* Removing the endpoint takes its rows: every write after that throws.
Throws(w) ==
  /\ task[w].pc \in {"won", "lost", "count", "disable"} /\ ~endpoint.there
  /\ Turns(w, Rest(w))
  /\ UNCHANGED <<endpoint, row, crashes, edits, sent, slack>>

-----------------------------------------------------------------------------
Elapses(d) ==
  /\ row[d].due = "later"
  /\ row' = [row EXCEPT ![d].due = "now"]
  /\ UNCHANGED <<endpoint, task, crashes, edits, sent, slack>>

\* update with isActive, which clears the count when it enables; remove.
Edits(active) ==
  /\ endpoint.there /\ edits < MaxEdits
  /\ endpoint' = [endpoint EXCEPT !.active = active, !.failures = IF active THEN 0 ELSE @]
  /\ edits' = edits + 1
  /\ UNCHANGED <<row, task, crashes, sent, slack>>
Removes ==
  /\ endpoint.there /\ edits < MaxEdits
  /\ endpoint' = [there |-> FALSE, active |-> FALSE, failures |-> 0]
  /\ row' = [d \in Rows |-> Absent]
  /\ edits' = edits + 1
  /\ UNCHANGED <<task, crashes, sent, slack>>

\* The process stops: its attempts and its sweep are gone, what they sent is not.
Stops(w) ==
  /\ task[w].pc # "idle" /\ crashes < MaxCrashes
  /\ crashes' = crashes + 1
  /\ Turns(w, NoTask)
  /\ slack' = IF task[w].pc \in {"won", "lost"} THEN [slack EXCEPT ![Sends(w)] = @ + 1] ELSE slack
  /\ UNCHANGED <<endpoint, row, edits, sent>>

Attempt(w) ==
  \/ Reads(w) \/ Posts(w) \/ Succeeds(w) \/ FailsRow(w) \/ FailsEndpoint(w) \/ Disables(w) \/ Throws(w)
Sweep(w) == Lists(w) \/ Takes(w) \/ Attempt(w)
Next ==
  \/ \E d \in Rows : Dispatches(d) \/ Elapses(d)
  \/ \E w \in Senders : Attempt(w)
  \/ \E w \in Sweeps : Sweep(w)
  \/ \E w \in Workers : Stops(w)
  \/ \E b \in BOOLEAN : Edits(b)
  \/ Removes

\* An attempt goes on, the sweep comes every minute, a delay passes.
Fairness ==
  /\ \A w \in Senders : WF_vars(Attempt(w))
  /\ \A w \in Sweeps : WF_vars(Sweep(w))
  /\ \A d \in Rows : WF_vars(Elapses(d))
Spec == Init /\ [][Next]_vars /\ Fairness

-----------------------------------------------------------------------------
\* The endpoint, its rows and the attempts have their types.
TypeOK ==
  /\ endpoint \in [there : BOOLEAN, active : BOOLEAN, failures : Nat]
  /\ row \in [Rows -> [made : BOOLEAN, attempts : Nat, delivered : BOOLEAN,
                       due : {"never", "later", "now"}]]
  /\ \A w \in Workers : task[w].at \subseteq Rows /\ task[w].todo \subseteq Rows

\* A delivery is sent MAX_ATTEMPTS times at most, and once more for each attempt
\* that overlapped another or whose outcome a crash swallowed (webhooks.service.ts:348-440).
Unsaved(d) == {w \in Workers : task[w].pc \in {"won", "lost"} /\ task[w].at = {d}}
BudgetHolds ==
  \A d \in Rows : row[d].made => sent[d] <= MaxAttempts + slack[d] + Cardinality(Unsaved(d))

\* A row written before its attempt is not lost with the process: it is delivered,
\* or tried until its budget is spent or the endpoint is off (webhooks.service.ts:298-305).
Settled(d) == row[d].delivered \/ row[d].attempts >= MaxAttempts \/ ~endpoint.active
EachSettles == \A d \in Rows : row[d].made ~> Settled(d)
=============================================================================
