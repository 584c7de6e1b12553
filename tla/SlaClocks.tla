----------------------------- MODULE SlaClocks ------------------------------
(***************************************************************************)
(* SlaService and SlaListener: the clocks of one conversation or ticket,   *)
(* started, paused, resumed, met and cancelled by listeners of its events, *)
(* and the sweep of every worker that announces warnings and breaches.     *)
(*                                                                         *)
(* A listener reads the clocks and writes each row by id later: listeners, *)
(* sweeps and the passing of time interleave between the two.  Time counts *)
(* working time only, in ticks; the calendar is always open.  One policy   *)
(* applies; its choice and the escalation's reassignment are left out.     *)
(* The events come in any order and number, as redelivery may bring them.  *)
(***************************************************************************)
EXTENDS Integers, Sequences, Functions

CONSTANTS
  Listeners,  \* event handlers that may be in flight at once
  Workers,    \* processes that run the sweep
  NoWorker,
  Target,     \* the policy: duration and warning point, in ticks, of some types
  MINUTE,     \* ticks in a minute
  Horizon,    \* bound: time
  MaxCalls,   \* bound: events of the subject, redeliveries included, and sweeps
  MaxClocks   \* bound: clocks started

Types == {"first_response", "resolution"}

ASSUME SlaAssumption ==
  /\ NoWorker \notin Workers
  /\ DOMAIN Target \subseteq Types
  /\ Target \in [DOMAIN Target -> [duration : Nat \ {0}, warn : Nat]]
  /\ MINUTE \in Nat \ {0}
  /\ MaxClocks \in Nat \ {0}

VARIABLES
  now,
  kind,    \* what the clocks belong to: a conversation or a ticket
  opened,  \* whether it has been created
  clock,   \* the sla_clocks rows of the subject
  job,     \* the local state of each listener
  sweep,   \* the local state of each worker's sweep
  lock,    \* who holds the sweep lock
  overrun, \* history: the lock has expired under a sweep
  asked,   \* events and sweeps so far
  said     \* history: per clock, the warnings and breaches its sweeps announced
           \* and the breaches its completions announced

vars == <<now, kind, opened, clock, job, sweep, lock, overrun, asked, said>>

States == {"running", "paused", "met", "breached", "cancelled"}
Open   == {"running", "paused"}

\* ConversationStatusChanged to waiting, or to active or assigned, a message from
\* the customer or from an agent, ConversationResolved and ConversationClosed;
\* TicketResolved and TicketReopened.
Events(k) ==
  {"created", "resolved"} \cup
  (IF k = "ticket" THEN {"reopened"} ELSE {"waiting", "working", "inbound", "replied", "closed"})

\* pausedAt is 0 while null; breached and warned say whether breachedAt and
\* warnedAt are set.
Clock == [type : Types, state : States, startedAt : Nat, dueAt : Nat, warnAt : Nat,
          pausedAt : Nat, pausedMs : Nat, elapsedMs : Nat,
          breached : BOOLEAN, warned : BOOLEAN]
PC    == {"idle", "start", "create", "complete", "settle", "pause", "pausing", "resume",
          "resuming", "cancel"}
Job(S) == [pc : PC, todo : Seq(Types), at : Nat, seen : [S -> Clock]]
IsJob(j) == \E S \in SUBSET (1..MaxClocks) : j \in Job(S)

Sweep == [pc : {"idle", "warn", "breach"}, at : Nat, todo : SUBSET (1..MaxClocks)]
Said  == [warnings : Nat, breaches : Nat, late : Nat]

NoRows  == [k \in {} |-> 0]
NoJob   == [pc |-> "idle", todo |-> <<>>, at |-> 0, seen |-> NoRows]
NoSweep == [pc |-> "idle", at |-> 0, todo |-> {}]
Silent  == [warnings |-> 0, breaches |-> 0, late |-> 0]

TypeOK ==
  /\ now \in Nat
  /\ kind \in {"conversation", "ticket"}
  /\ opened \in BOOLEAN
  /\ clock \in Seq(Clock) /\ Len(clock) <= MaxClocks
  /\ job = [l \in Listeners |-> job[l]] /\ \A l \in Listeners : IsJob(job[l])
  /\ sweep \in [Workers -> Sweep]
  /\ lock \in Workers \cup {NoWorker}
  /\ overrun \in BOOLEAN
  /\ asked \in Nat
  /\ said \in [1..MaxClocks -> Said]

Init ==
  /\ now = 1
  /\ kind \in {"conversation", "ticket"}
  /\ opened = FALSE
  /\ clock = <<>> /\ asked = 0
  /\ job = [l \in Listeners |-> NoJob]
  /\ sweep = [w \in Workers |-> NoSweep]
  /\ lock = NoWorker /\ overrun = FALSE
  /\ said = [k \in 1..MaxClocks |-> Silent]

-----------------------------------------------------------------------------
(* The events of the subject, and the listener each one calls.             *)

Both == <<"first_response", "resolution">>

\* What the listener of an event does first.
Duty(e) ==
  CASE e = "created"                -> [NoJob EXCEPT !.pc = "start", !.todo = Both, !.at = now]
    [] e = "waiting"                -> [NoJob EXCEPT !.pc = "pause"]
    [] e \in {"working", "inbound"} -> [NoJob EXCEPT !.pc = "resume"]
    [] e = "replied"                -> [NoJob EXCEPT !.pc = "complete", !.todo = <<"first_response">>]
    [] e = "resolved"               -> [NoJob EXCEPT !.pc = "complete",
                                          !.todo = <<"resolution", "first_response">>]
    [] e = "closed"                 -> [NoJob EXCEPT !.pc = "cancel"]
    [] e = "reopened"               -> [NoJob EXCEPT !.pc = "cancel", !.todo = <<"resolution">>]

\* publish emits in process, at once: the listener is in flight from then on.
\* The relay may deliver any event again later.
Delivers(l, e) ==
  /\ job[l].pc = "idle" /\ asked < MaxCalls
  /\ opened \/ e = "created"
  /\ opened' = TRUE
  /\ asked' = asked + 1
  /\ job' = [job EXCEPT ![l] = Duty(e)]
  /\ UNCHANGED <<now, kind, clock, sweep, lock, overrun, said>>

-----------------------------------------------------------------------------
(* The listeners.                                                          *)

OpenOf(t) == {k \in DOMAIN clock : clock[k].type = t /\ clock[k].state \in Open}
In(s)     == {k \in DOMAIN clock : clock[k].state = s}

\* A listener goes on with the rest of its list of types, or ends.
Rest(l, next) ==
  IF Len(job[l].todo) > 1
  THEN [job[l] EXCEPT !.pc = next, !.todo = Tail(@), !.seen = NoRows]
  ELSE NoJob

Goes(l, j) == job' = [job EXCEPT ![l] = j]
Aside      == UNCHANGED <<now, kind, opened, sweep, lock, overrun, asked>>

\* startClocks: a type the policy has no target for, or that has an open clock,
\* is left alone.
StartChecks(l) ==
  /\ job[l].pc = "start"
  /\ LET t == Head(job[l].todo) IN
     Goes(l, IF t \notin DOMAIN Target \/ OpenOf(t) # {} THEN Rest(l, "start")
             ELSE [job[l] EXCEPT !.pc = "create"])
  /\ Aside /\ UNCHANGED <<clock, said>>

Started(t, at) ==
  [type |-> t, state |-> "running", startedAt |-> at, dueAt |-> at + Target[t].duration,
   warnAt |-> at + Target[t].warn, pausedAt |-> 0, pausedMs |-> 0, elapsedMs |-> 0,
   breached |-> FALSE, warned |-> FALSE]

StartCreates(l) ==
  /\ job[l].pc = "create" /\ Len(clock) < MaxClocks
  /\ clock' = Append(clock, Started(Head(job[l].todo), job[l].at))
  /\ Goes(l, Rest(l, "start"))
  /\ Aside /\ UNCHANGED said

\* completeClock finds one open clock of the type, whichever comes first.
CompleteReads(l) ==
  /\ job[l].pc = "complete"
  /\ \/ /\ OpenOf(Head(job[l].todo)) = {}
        /\ Goes(l, Rest(l, "complete"))
     \/ \E k \in OpenOf(Head(job[l].todo)) :
          Goes(l, [job[l] EXCEPT !.pc = "settle", !.seen = Restrict(clock, {k})])
  /\ Aside /\ UNCHANGED <<clock, said>>

\* Mutant: the elapsed time includes the pauses.
SettledWithPauses(current, row) ==
  [current EXCEPT !.state = IF now <= row.dueAt THEN "met" ELSE "breached",
                  !.elapsedMs = now - row.startedAt,
                  !.breached = @ \/ now > row.dueAt]

\* The verdict and the elapsed time come from the row as it was read.
Settled(current, row) ==
  LET elapsed == now - row.startedAt - row.pausedMs IN
  [current EXCEPT !.state = IF now <= row.dueAt THEN "met" ELSE "breached",
                  !.elapsedMs = IF elapsed < 0 THEN 0 ELSE elapsed,
                  !.breached = @ \/ now > row.dueAt]

CompleteWrites(l) ==
  /\ job[l].pc = "settle"
  /\ \E k \in DOMAIN job[l].seen :
       /\ clock' = [clock EXCEPT ![k] = Settled(clock[k], job[l].seen[k])]
       /\ said' = [said EXCEPT ![k].late = IF now > job[l].seen[k].dueAt THEN @ + 1 ELSE @]
  /\ Goes(l, Rest(l, "complete"))
  /\ Aside

PauseReads(l) ==
  /\ job[l].pc = "pause"
  /\ Goes(l, IF In("running") = {} THEN NoJob
             ELSE [job[l] EXCEPT !.pc = "pausing", !.at = now,
                                 !.seen = Restrict(clock, In("running"))])
  /\ Aside /\ UNCHANGED <<clock, said>>

\* The rows still to write; the last one ends the listener.
Without(l, k) ==
  IF DOMAIN job[l].seen = {k} THEN NoJob
  ELSE [job[l] EXCEPT !.seen = Restrict(@, DOMAIN @ \ {k})]

Paused(current, at) == [current EXCEPT !.state = "paused", !.pausedAt = at]

PauseWrites(l) ==
  /\ job[l].pc = "pausing"
  /\ \E k \in DOMAIN job[l].seen :
       /\ clock' = [clock EXCEPT ![k] = Paused(clock[k], job[l].at)]
       /\ Goes(l, Without(l, k))
  /\ Aside /\ UNCHANGED said

ResumeReads(l) ==
  /\ job[l].pc = "resume"
  /\ Goes(l, IF In("paused") = {} THEN NoJob
             ELSE [job[l] EXCEPT !.pc = "resuming", !.at = now,
                                 !.seen = Restrict(clock, In("paused"))])
  /\ Aside /\ UNCHANGED <<clock, said>>

\* Mutant: minutes are rounded up.
CeilingMinutes(p) == p + ((MINUTE - (p % MINUTE)) % MINUTE)

\* Deadlines move by whole minutes; pausedMs keeps the exact time.
WholeMinutes(p) == p - (p % MINUTE)

\* Mutant: the working time is asked for from now to the pause.
ResumedBackwards(current, row, at) ==
  LET p == at - row.pausedAt IN
  [current EXCEPT !.state = "running", !.pausedAt = 0, !.pausedMs = row.pausedMs - p,
                  !.dueAt = row.dueAt + WholeMinutes(p), !.warnAt = row.warnAt + WholeMinutes(p)]

\* Mutant: pausedAt is not cleared.
ResumedStillMarked(current, row, at) ==
  LET p == at - row.pausedAt IN
  [current EXCEPT !.state = "running", !.pausedMs = row.pausedMs + p,
                  !.dueAt = row.dueAt + WholeMinutes(p), !.warnAt = row.warnAt + WholeMinutes(p)]

Resumed(current, row, at) ==
  LET p == at - row.pausedAt IN
  [current EXCEPT !.state = "running", !.pausedAt = 0, !.pausedMs = row.pausedMs + p,
                  !.dueAt = row.dueAt + WholeMinutes(p), !.warnAt = row.warnAt + WholeMinutes(p)]

ResumeWrites(l) ==
  /\ job[l].pc = "resuming"
  /\ \E k \in DOMAIN job[l].seen :
       /\ clock' = [clock EXCEPT ![k] = Resumed(clock[k], job[l].seen[k], job[l].at)]
       /\ Goes(l, Without(l, k))
  /\ Aside /\ UNCHANGED said

\* cancelClocks is one statement.  A reopened ticket starts a fresh resolution clock.
Cancels(l) ==
  /\ job[l].pc = "cancel"
  /\ clock' = [k \in DOMAIN clock |->
                 IF clock[k].state \in Open THEN [clock[k] EXCEPT !.state = "cancelled"]
                 ELSE clock[k]]
  /\ Goes(l, IF job[l].todo = <<>> THEN NoJob ELSE [job[l] EXCEPT !.pc = "start", !.at = now])
  /\ Aside /\ UNCHANGED said

-----------------------------------------------------------------------------
(* The sweep.                                                              *)

Sweeps(w, s) == sweep' = [sweep EXCEPT ![w] = s]
Beside       == UNCHANGED <<now, kind, opened, job, asked>>

WarningsDue(at) ==
  {k \in In("running") : ~clock[k].warned /\ clock[k].warnAt <= at /\ clock[k].dueAt > at}

\* Mutant: a clock announced before is due again once it runs.
BreachesDueAgain(at) == {k \in In("running") : clock[k].dueAt <= at}

\* Mutant: the warning point is taken for the deadline.
BreachesDueEarly(at) == {k \in In("running") : ~clock[k].breached /\ clock[k].warnAt <= at}

BreachesDue(at) == {k \in In("running") : ~clock[k].breached /\ clock[k].dueAt <= at}

SweepBegins(w) ==
  /\ sweep[w].pc = "idle" /\ lock = NoWorker /\ asked < MaxCalls
  /\ lock' = w /\ asked' = asked + 1
  /\ Sweeps(w, [pc |-> "warn", at |-> now, todo |-> WarningsDue(now)])
  /\ UNCHANGED <<now, kind, opened, job, clock, said, overrun>>

Warned(current)   == [current EXCEPT !.warned = TRUE]
Breached(current) == [current EXCEPT !.state = "breached", !.breached = TRUE]

SweepWarns(w) ==
  /\ sweep[w].pc = "warn"
  /\ \E k \in sweep[w].todo :
       /\ clock' = [clock EXCEPT ![k] = Warned(clock[k])]
       /\ said' = [said EXCEPT ![k].warnings = @ + 1]
       /\ Sweeps(w, [sweep[w] EXCEPT !.todo = @ \ {k}])
  /\ Beside /\ UNCHANGED <<lock, overrun>>

SweepTurns(w) ==
  /\ sweep[w].pc = "warn" /\ sweep[w].todo = {}
  /\ Sweeps(w, [sweep[w] EXCEPT !.pc = "breach", !.todo = BreachesDue(sweep[w].at)])
  /\ Beside /\ UNCHANGED <<clock, said, lock, overrun>>

SweepBreaches(w) ==
  /\ sweep[w].pc = "breach"
  /\ \E k \in sweep[w].todo :
       /\ clock' = [clock EXCEPT ![k] = Breached(clock[k])]
       /\ said' = [said EXCEPT ![k].breaches = @ + 1]
       /\ Sweeps(w, [sweep[w] EXCEPT !.todo = @ \ {k}])
  /\ Beside /\ UNCHANGED <<lock, overrun>>

\* The release leaves alone a lock that another sweep has taken since.
SweepEnds(w) ==
  /\ sweep[w].pc = "breach" /\ sweep[w].todo = {}
  /\ Sweeps(w, NoSweep)
  /\ lock' = IF lock = w THEN NoWorker ELSE lock
  /\ Beside /\ UNCHANGED <<clock, said, overrun>>

\* A worker may die with rows left to write.
SweepDies(w) ==
  /\ sweep[w].pc # "idle"
  /\ Sweeps(w, NoSweep)
  /\ Beside /\ UNCHANGED <<clock, said, lock, overrun>>

\* The lock of a sweep that died expires, and so does, after a minute, that of a slow one.
LockExpires ==
  /\ lock # NoWorker
  /\ sweep[lock].pc = "idle" \/ sweep[lock].at + MINUTE <= now
  /\ lock' = NoWorker
  /\ overrun' = (overrun \/ sweep[lock].pc # "idle")
  /\ Beside /\ UNCHANGED <<clock, said, sweep>>

Tick ==
  /\ now < Horizon
  /\ now' = now + 1
  /\ UNCHANGED <<kind, opened, clock, job, sweep, lock, overrun, asked, said>>

-----------------------------------------------------------------------------
Listens(l) ==
  \/ StartChecks(l) \/ StartCreates(l) \/ CompleteReads(l) \/ CompleteWrites(l)
  \/ PauseReads(l) \/ PauseWrites(l) \/ ResumeReads(l) \/ ResumeWrites(l) \/ Cancels(l)

SweepStep(w) ==
  SweepBegins(w) \/ SweepWarns(w) \/ SweepTurns(w) \/ SweepBreaches(w) \/ SweepEnds(w)

Next ==
  \/ \E l \in Listeners : Listens(l) \/ \E e \in Events(kind) : Delivers(l, e)
  \/ \E w \in Workers : SweepStep(w) \/ SweepDies(w)
  \/ LockExpires \/ Tick

Spec == Init /\ [][Next]_vars

-----------------------------------------------------------------------------
(* Properties.                                                             *)

\* A clock row says it is paused exactly when it says since when, although
\* pauses and resumes overlap and are written by row id: resumeClocks can always
\* tell how long the pause was, and its skip of a row without pausedAt never loses one.
PauseRecorded ==
  \A k \in DOMAIN clock :
    /\ clock[k].state = "paused" => clock[k].pausedAt # 0
    /\ clock[k].state = "running" => clock[k].pausedAt = 0

\* A deadline never moves out by more than the time recorded as paused, whatever
\* stale rows resumeClocks writes back.
CreditWithinPause ==
  \A k \in DOMAIN clock :
    clock[k].dueAt <= clock[k].startedAt + Target[clock[k].type].duration + clock[k].pausedMs

\* A clock counted as met consumed no more working time than its target, by the
\* elapsedMs that completeClock records beside the verdict.
MetWithinTarget ==
  \A k \in DOMAIN clock :
    clock[k].state = "met" => clock[k].elapsedMs <= Target[clock[k].type].duration

\* No breach is announced, by a sweep or by a late completion, before the time the
\* target grants has passed since the clock started.
BreachIsLate ==
  \A k \in DOMAIN clock :
    clock[k].state = "breached" \/ said[k].breaches + said[k].late > 0
      => now >= clock[k].startedAt + Target[clock[k].type].duration

\* However often a stale listener puts a breached clock back to paused or running,
\* and whichever worker dies, the sweeps announce at most one warning and one
\* breach of a clock, as long as no sweep outlives its lock.
SweepAnnouncesOnce ==
  ~overrun => \A k \in DOMAIN clock : said[k].warnings <= 1 /\ said[k].breaches <= 1

\* What the comment on sweep claims, a breach is announced exactly once, of a breach
\* that a sweep announced, even while no sweep outlives its lock.  A completion that
\* overlaps the sweep announces it again.
BreachAnnouncedOnce ==
  ~overrun => \A k \in DOMAIN clock : said[k].breaches > 0 => said[k].breaches + said[k].late = 1
=============================================================================
