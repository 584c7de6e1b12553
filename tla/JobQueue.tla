------------------------------ MODULE JobQueue ------------------------------
(* The job queue and its dead letters: jobs a worker takes and tries until the
   attempts are spent, the row that records an exhausted job, and the operators
   who replay or discard it. A worker, the process that records the letter and an
   operator's request may each stop between two of their writes. *)
EXTENDS Naturals

CONSTANTS
  Jobs,          \* jobs that may be enqueued; a letter bears the name of its job
  Operators,     \* operators' requests in flight
  Nobody,        \* the origin of a job that was not replayed
  MaxAttempts,   \* attempts of a job
  MaxStops       \* bound: workers, sinks and requests that stop half-way

VARIABLES
  job,       \* the queue's jobs: state, attempts, the letter replayed
  letter,    \* dead-letter rows
  request,   \* what each operator's request is at
  halts,
  missed,    \* history: exhausted jobs whose letter could not be written
  excuse     \* history: letters discarded beside a replay, or half replayed
vars == <<job, letter, request, halts, missed, excuse>>

NoJob == [state |-> "absent", attempts |-> 0, of |-> Nobody]
NoLetter == [there |-> FALSE, replayed |-> FALSE, discarded |-> FALSE]
NoRequest == [pc |-> "idle", at |-> Nobody]

Init ==
  /\ job = [j \in Jobs |-> NoJob]
  /\ letter = [j \in Jobs |-> NoLetter]
  /\ request = [o \in Operators |-> NoRequest]
  /\ halts = 0 /\ missed = {} /\ excuse = {}

-----------------------------------------------------------------------------
(* Jobs and workers. *)

Waiting(of) == [state |-> "waiting", attempts |-> 0, of |-> of]
Enqueues(j) ==
  /\ job[j] = NoJob
  /\ job' = [job EXCEPT ![j] = Waiting(Nobody)]
  /\ UNCHANGED <<letter, request, halts, missed, excuse>>
Moves(j, from, to) ==
  /\ job[j].state = from
  /\ job' = [job EXCEPT ![j].state = to]
  /\ UNCHANGED <<letter, request, halts, missed, excuse>>
Takes(j) == Moves(j, "waiting", "active")
Finishes(j) == Moves(j, "active", "done")
\* The last attempt ends in the failed handler; an earlier one is tried again.
\* Mutant: the last attempt is taken for one with another to come.
OneMore(n) == n > MaxAttempts
Exhausted(n) == n >= MaxAttempts
Throws(j) ==
  /\ job[j].state = "active"
  /\ LET n == job[j].attempts + 1
     IN job' = [job EXCEPT ![j].attempts = n,
                           ![j].state = IF Exhausted(n) THEN "failed"
                                        ELSE IF n < MaxAttempts THEN "waiting" ELSE "over"]
  /\ UNCHANGED <<letter, request, halts, missed, excuse>>
\* The worker dies: the queue gives its job to another.
Stalls(j) ==
  /\ job[j].state = "active" /\ halts < MaxStops
  /\ halts' = halts + 1
  /\ job' = [job EXCEPT ![j].state = "waiting"]
  /\ UNCHANGED <<letter, request, missed, excuse>>

\* The sink writes the letter. If it cannot, the job is lost, and only a log says so.
Sinks(j) ==
  /\ job[j].state = "failed"
  /\ job' = [job EXCEPT ![j].state = "over"]
  /\ letter' = [letter EXCEPT ![j].there = TRUE]
  /\ UNCHANGED <<request, halts, missed, excuse>>
SinkFails(j) ==
  /\ job[j].state = "failed" /\ halts < MaxStops
  /\ halts' = halts + 1
  /\ job' = [job EXCEPT ![j].state = "over"]
  /\ missed' = missed \cup {j}
  /\ UNCHANGED <<letter, request, excuse>>

-----------------------------------------------------------------------------
(* Operators. *)

Turns(o, pc, j) == request' = [request EXCEPT ![o] = [pc |-> pc, at |-> j]]
\* Both requests read the letter first. Only a discarded one cannot be replayed:
\* a letter may be replayed again.
\* Mutant: replay does not look whether the letter was discarded.
AnyLetter(j) == letter[j].there
MayReplay(j) == letter[j].there /\ ~letter[j].discarded
MayDiscard(j) == letter[j].there /\ ~letter[j].replayed
ReadsToReplay(o, j) ==
  /\ request[o] = NoRequest /\ MayReplay(j)
  /\ Turns(o, "replay", j)
  /\ UNCHANGED <<job, letter, halts, missed, excuse>>
ReadsToDiscard(o, j) ==
  /\ request[o] = NoRequest /\ MayDiscard(j)
  /\ Turns(o, "discard", j)
  /\ UNCHANGED <<job, letter, halts, missed, excuse>>
\* replay enqueues a copy, then marks the letter; both marks go by the id alone.
Requeues(o, k) ==
  /\ request[o].pc = "replay" /\ job[k] = NoJob
  /\ job' = [job EXCEPT ![k] = Waiting(request[o].at)]
  /\ Turns(o, "mark", request[o].at)
  /\ UNCHANGED <<letter, halts, missed, excuse>>
MarksReplayed(o) ==
  LET j == request[o].at IN
  /\ request[o].pc = "mark"
  /\ letter' = [letter EXCEPT ![j].replayed = TRUE]
  /\ excuse' = IF \E p \in Operators : request[p] = [pc |-> "discard", at |-> j]
               THEN excuse \cup {j} ELSE excuse
  /\ request' = [request EXCEPT ![o] = NoRequest]
  /\ UNCHANGED <<job, halts, missed>>
MarksDiscarded(o) ==
  LET j == request[o].at IN
  /\ request[o].pc = "discard"
  /\ letter' = [letter EXCEPT ![j].discarded = TRUE]
  /\ excuse' = IF \E p \in Operators : request[p].at = j /\ request[p].pc \in {"replay", "mark"}
               THEN excuse \cup {j} ELSE excuse
  /\ request' = [request EXCEPT ![o] = NoRequest]
  /\ UNCHANGED <<job, halts, missed>>
\* The request stops, or its second write fails: a job was enqueued that its letter
\* does not show.
RequestStops(o) ==
  /\ request[o] # NoRequest /\ halts < MaxStops
  /\ halts' = halts + 1
  /\ excuse' = IF request[o].pc = "mark" THEN excuse \cup {request[o].at} ELSE excuse
  /\ request' = [request EXCEPT ![o] = NoRequest]
  /\ UNCHANGED <<job, letter, missed>>

Works(j) == Takes(j) \/ Finishes(j) \/ Throws(j)
Next ==
  \/ \E j \in Jobs : Enqueues(j) \/ Works(j) \/ Stalls(j) \/ Sinks(j) \/ SinkFails(j)
  \/ \E o \in Operators :
       \/ \E j \in Jobs : ReadsToReplay(o, j) \/ ReadsToDiscard(o, j) \/ Requeues(o, j)
       \/ MarksReplayed(o) \/ MarksDiscarded(o) \/ RequestStops(o)

\* Workers take what waits, and the sink is called.
Fairness ==
  /\ \A j \in Jobs : WF_vars(Works(j)) /\ WF_vars(Sinks(j))
Spec == Init /\ [][Next]_vars /\ Fairness

-----------------------------------------------------------------------------
\* Jobs, letters and requests have their types.
TypeOK ==
  /\ job \in [Jobs -> [state : {"absent", "waiting", "active", "done", "failed", "over"},
                       attempts : 0 .. MaxAttempts, of : Jobs \cup {Nobody}]]
  /\ letter \in [Jobs -> [there : BOOLEAN, replayed : BOOLEAN, discarded : BOOLEAN]]
  /\ \A o \in Operators : request[o].at \in Jobs \cup {Nobody}

\* A discarded job is not run again, except for a replay that overlapped the discard
\* or stopped before its mark (dead-letter.service.ts:122-177).
DiscardMeansNever ==
  \A j, k \in Jobs : letter[j].discarded /\ job[k].of = j => j \in excuse

\* Every job is done in the end or recorded as a letter, unless the sink failed
\* (queue.service.ts:151-184).
EachJobSettles ==
  \A j \in Jobs : job[j].state # "absent" ~> (job[j].state = "done" \/ letter[j].there \/ j \in missed)
=============================================================================
