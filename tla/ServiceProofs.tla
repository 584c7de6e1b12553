---------------------------- MODULE ServiceProofs ---------------------------
(***************************************************************************)
(* Proofs about MCService, for any values of its constants: what the rows  *)
(* of SLA clocks, tickets, evaluations and shifts say although every write *)
(* is based on an earlier read, and what the log of an agent's presence    *)
(* says of a day that is over.                                             *)
(***************************************************************************)
EXTENDS MCService, SequenceTheorems, WellFoundedInduction, TLAPS

-----------------------------------------------------------------------------
(* The inductive invariant.                                                *)

Granted(r) == r.startedAt + Target[r.type].duration

\* The deadline lies between what was granted and what was granted plus the pauses.
Within(r) ==
  /\ r.type \in DOMAIN Target
  /\ Granted(r) <= r.dueAt
  /\ r.dueAt <= Granted(r) + r.pausedMs

RowOK(r, t) ==
  /\ Within(r)
  /\ r.startedAt <= t /\ r.pausedAt <= t
  /\ r.state = "paused" => r.pausedAt # 0
  /\ r.state = "running" => r.pausedAt = 0
  /\ r.state = "met" => r.elapsedMs <= Target[r.type].duration

RowsOK == \A k \in DOMAIN clock : RowOK(clock[k], now)

\* What a listener remembers of a row still tells when and against what it started.
SeenOK(j, rows) ==
  \A k \in DOMAIN j.seen :
    /\ k \in DOMAIN rows
    /\ Within(j.seen[k])
    /\ j.seen[k].type = rows[k].type /\ j.seen[k].startedAt = rows[k].startedAt
    /\ j.pc = "resuming" => j.seen[k].pausedAt <= j.at

\* The listener's own state: a type at hand, and times that have passed.
DutyOK(j, t) ==
  /\ j.at <= t
  /\ j.pc = "pausing" => j.at # 0
  /\ j.pc \in {"start", "create", "complete", "settle"} => j.todo # <<>>
  /\ j.pc = "create" => Head(j.todo) \in DOMAIN Target

ListenersOK == \A l \in Listeners : SeenOK(job[l], clock) /\ DutyOK(job[l], now)

\* Only the holder of the lock sweeps, unless a sweep outlived its lock.
Holder == ~overrun => \A w \in Workers : sweep[w].pc # "idle" => lock = w

SweepOK(s, rows, told, t, over) ==
  /\ s.at <= t
  /\ \A k \in s.todo :
       /\ k \in DOMAIN rows
       /\ s.pc = "warn" /\ ~over => told[k].warnings = 0
       /\ s.pc = "breach" /\ ~over => told[k].breaches = 0
       /\ s.pc = "breach" => Granted(rows[k]) <= t

SweepsOK == \A w \in Workers : SweepOK(sweep[w], clock, said, now, overrun)

\* What was announced shows in the row, for good.
SaidOK ==
  \A k \in 1..MaxClocks :
    /\ ~overrun => said[k].warnings <= 1 /\ said[k].breaches <= 1
    /\ k \notin DOMAIN clock => said[k] = Silent
    /\ k \in DOMAIN clock =>
         /\ said[k].warnings > 0 => clock[k].warned
         /\ said[k].breaches > 0 => clock[k].breached
         /\ clock[k].state = "breached" \/ said[k].breaches + said[k].late > 0 => Granted(clock[k]) <= now

IInv ==
  /\ TypeOK
  /\ now # 0
  /\ RowsOK
  /\ ListenersOK
  /\ Holder
  /\ SweepsOK
  /\ SaidOK

USE SlaAssumption DEF SlaAssumption

-----------------------------------------------------------------------------
(* Types of the pieces.                                                    *)

LEMMA NoJobFits == IsJob(NoJob) /\ SeenOK(NoJob, clock) /\ \A t \in Nat : DutyOK(NoJob, t)
<1>1. {} \in SUBSET (1..MaxClocks) /\ NoRows \in [{} -> Clock]
  BY DEF NoRows
<1>2. NoJob \in Job({})
  BY <1>1 DEF NoJob, Job, PC
<1>3. SeenOK(NoJob, clock) /\ \A t \in Nat : DutyOK(NoJob, t)
  BY DEF NoJob, NoRows, SeenOK, DutyOK
<1> QED BY <1>1, <1>2, <1>3 DEF IsJob

LEMMA RowsTyped ==
  ASSUME TypeOK, NEW k \in DOMAIN clock
  PROVE  k \in 1..MaxClocks /\ clock[k] \in Clock /\ k \in Nat
  BY DEF TypeOK

LEMMA TailOfTwo ==
  ASSUME NEW S, NEW q \in Seq(S), Len(q) > 1
  PROVE  Tail(q) \in Seq(S) /\ Tail(q) # <<>>
<1>1. q # <<>> /\ Len(q) \in Nat
  OBVIOUS
<1>2. Tail(q) \in Seq(S) /\ Len(Tail(q)) = Len(q) - 1
  BY <1>1, HeadTailProperties
<1>3. Len(Tail(q)) # Len(<<>>)
  <2>1. Len(Tail(q)) # 0
    BY <1>1, <1>2
  <2> QED BY <2>1, EmptySeq
<1> QED BY <1>2, <1>3

LEMMA TimeTyped ==
  ASSUME IInv
  PROVE  now \in Nat /\ now <= now
  BY DEF IInv, TypeOK

\* The list of types a listener works off gets shorter and never runs dry.
LEMMA RestFits ==
  ASSUME IInv, NEW l \in Listeners, job[l].todo # <<>>, NEW next \in {"start", "complete"}
  PROVE  IsJob(Rest(l, next)) /\ SeenOK(Rest(l, next), clock) /\ DutyOK(Rest(l, next), now)
<1>1. PICK S \in SUBSET (1..MaxClocks) : job[l] \in Job(S)
  BY DEF IInv, TypeOK, IsJob
<1>2. CASE Len(job[l].todo) > 1
  <2> DEFINE j == [job[l] EXCEPT !.pc = next, !.todo = Tail(@), !.seen = NoRows]
  <2>1. Rest(l, next) = j
    BY <1>2 DEF Rest
  <2>2. Tail(job[l].todo) \in Seq(Types) /\ Tail(job[l].todo) # <<>>
    <3>1. job[l].todo \in Seq(Types)
      BY <1>1 DEF Job
    <3>2. Len(job[l].todo) \in Nat
      BY <3>1
    <3> QED BY <3>1, <3>2, <1>2, TailOfTwo
  <2>3. {} \in SUBSET (1..MaxClocks) /\ NoRows \in [{} -> Clock]
    BY DEF NoRows
  <2>4. j \in Job({})
    BY <1>1, <2>2, <2>3 DEF Job, PC
  <2>5. j.seen = NoRows /\ j.pc = next /\ j.todo = Tail(job[l].todo) /\ j.at = job[l].at
    BY <1>1 DEF Job
  <2>6. job[l].at <= now
    BY DEF IInv, ListenersOK, DutyOK
  <2>7. SeenOK(j, clock)
    BY <2>5 DEF SeenOK, NoRows
  <2>8. DutyOK(j, now)
    BY <2>2, <2>5, <2>6 DEF DutyOK
  <2> QED BY <2>1, <2>3, <2>4, <2>7, <2>8 DEF IsJob
<1>3. CASE ~(Len(job[l].todo) > 1)
  <2>1. Rest(l, next) = NoJob
    BY <1>3 DEF Rest
  <2> QED BY <2>1, NoJobFits DEF IInv, TypeOK
<1> QED BY <1>2, <1>3

-----------------------------------------------------------------------------
(* How a step of each kind keeps the invariant.                            *)

\* A listener that only moves itself, to a state that fits, disturbs nothing.
LEMMA JobMoves ==
  ASSUME IInv, NEW l \in Listeners, NEW j, IsJob(j), SeenOK(j, clock), DutyOK(j, now),
         Goes(l, j), UNCHANGED <<now, kind, clock, sweep, lock, overrun, said>>,
         asked' \in Nat, opened' \in BOOLEAN
  PROVE  IInv'
<1>1. \A i \in Listeners : job'[i] = IF i = l THEN j ELSE job[i]
  BY DEF IInv, TypeOK, Goes
<1>2. TypeOK'
  BY <1>1 DEF IInv, TypeOK, Goes
<1>3. ListenersOK'
  <2> SUFFICES ASSUME NEW i \in Listeners
               PROVE  SeenOK(job'[i], clock') /\ DutyOK(job'[i], now')
    BY DEF ListenersOK
  <2>1. CASE i = l
    BY <1>1, <2>1
  <2>2. CASE i # l
    BY <1>1, <2>2 DEF IInv, ListenersOK
  <2> QED BY <2>1, <2>2
<1>4. RowsOK' /\ Holder' /\ now' # 0
  BY DEF IInv, RowsOK, Holder
<1>5. SweepsOK' /\ SaidOK'
  BY DEF IInv, SweepsOK, SaidOK
<1> QED BY <1>2, <1>3, <1>4, <1>5 DEF IInv

\* What every writer keeps of a row: what it is about, and what was announced.
Keeps(row, old) ==
  /\ row.type = old.type /\ row.startedAt = old.startedAt
  /\ old.breached => row.breached
  /\ old.warned => row.warned

\* What a history entry may become when its row is written.
SaidFits(s, row) ==
  /\ s \in Said
  /\ ~overrun => s.warnings <= 1 /\ s.breaches <= 1
  /\ s.warnings > 0 => row.warned
  /\ s.breaches > 0 => row.breached
  /\ row.state = "breached" \/ s.breaches + s.late > 0 => Granted(row) <= now

\* One row is written: all that was read or listed before still fits.
LEMMA RowWritten ==
  ASSUME IInv, NEW k \in DOMAIN clock, NEW row \in Clock, NEW s,
         Keeps(row, clock[k]), RowOK(row, now), SaidFits(s, row),
         clock' = [clock EXCEPT ![k] = row], said' = [said EXCEPT ![k] = s],
         UNCHANGED <<now, overrun>>
  PROVE  /\ clock' \in Seq(Clock) /\ Len(clock') <= MaxClocks
         /\ said' \in [1..MaxClocks -> Said]
         /\ RowsOK' /\ SaidOK'
         /\ \A j : SeenOK(j, clock) => SeenOK(j, clock')
<1>1. /\ DOMAIN clock' = DOMAIN clock
      /\ \A i \in DOMAIN clock : clock'[i] = IF i = k THEN row ELSE clock[i]
  OBVIOUS
<1>2. clock' \in Seq(Clock) /\ Len(clock') <= MaxClocks
  BY DEF IInv, TypeOK
<1>3. k \in 1..MaxClocks
  BY RowsTyped DEF IInv
<1>4. \A i \in 1..MaxClocks : said'[i] = IF i = k THEN s ELSE said[i]
  BY DEF IInv, TypeOK
<1>5. said' \in [1..MaxClocks -> Said]
  BY <1>3 DEF IInv, TypeOK, SaidFits
<1>6. RowsOK'
  BY <1>1 DEF IInv, RowsOK, RowOK, Within, Granted
<1>7. SaidOK'
  <2> SUFFICES ASSUME NEW i \in 1..MaxClocks
               PROVE  /\ ~overrun => said'[i].warnings <= 1 /\ said'[i].breaches <= 1
                      /\ i \notin DOMAIN clock' => said'[i] = Silent
                      /\ i \in DOMAIN clock' =>
                           /\ said'[i].warnings > 0 => clock'[i].warned
                           /\ said'[i].breaches > 0 => clock'[i].breached
                           /\ clock'[i].state = "breached" \/ said'[i].breaches + said'[i].late > 0
                                => Granted(clock'[i]) <= now
    BY DEF SaidOK
  <2>1. CASE i = k
    BY <1>1, <1>4, <2>1 DEF SaidFits
  <2>2. CASE i # k
    BY <1>1, <1>4, <2>2 DEF IInv, SaidOK
  <2> QED BY <2>1, <2>2
<1>8. ASSUME NEW j, SeenOK(j, clock) PROVE SeenOK(j, clock')
  BY <1>1, <1>8 DEF SeenOK, Keeps
<1> QED BY <1>2, <1>5, <1>6, <1>7, <1>8

-----------------------------------------------------------------------------
(* The listeners' steps.                                                   *)

LEMMA DeliversSafe ==
  ASSUME IInv, NEW l \in Listeners, NEW e \in Events(kind), Delivers(l, e)
  PROVE  IInv'
<1>1. {} \in SUBSET (1..MaxClocks) /\ NoRows \in [{} -> Clock]
  BY DEF NoRows
<1>2. now \in Nat
  BY DEF IInv, TypeOK
<1>3. /\ Both \in Seq(Types) /\ Both # <<>>
      /\ <<"first_response">> \in Seq(Types) /\ <<"first_response">> # <<>>
      /\ <<"resolution">> \in Seq(Types)
      /\ <<"resolution", "first_response">> \in Seq(Types)
      /\ <<"resolution", "first_response">> # <<>>
      /\ <<>> \in Seq(Types)
  BY DEF Both, Types
<1>4. e \in {"created", "resolved", "reopened", "waiting", "working", "inbound", "replied", "closed"}
  BY DEF Events
<1>5. /\ Duty(e) \in Job({})
      /\ Duty(e).seen = NoRows /\ Duty(e).at \in {0, now}
      /\ Duty(e).pc \in {"start", "pause", "resume", "complete", "cancel"}
      /\ Duty(e).pc \in {"start", "complete"} => Duty(e).todo # <<>>
  BY <1>1, <1>2, <1>3, <1>4 DEF Duty, NoJob, Job, PC
<1>6. IsJob(Duty(e)) /\ SeenOK(Duty(e), clock) /\ DutyOK(Duty(e), now)
  BY <1>1, <1>2, <1>5 DEF IsJob, SeenOK, DutyOK, NoRows
<1>7. asked' \in Nat /\ opened' \in BOOLEAN
  BY DEF Delivers, IInv, TypeOK
<1> QED BY <1>6, <1>7, JobMoves DEF Delivers, Goes

\* Types, listener facts and times, when a listener goes on with its own state.
LEMMA DutyFacts ==
  ASSUME IInv, NEW l \in Listeners
  PROVE  /\ IsJob(job[l]) /\ SeenOK(job[l], clock) /\ DutyOK(job[l], now)
         /\ now \in Nat /\ now # 0
         /\ asked \in Nat /\ opened \in BOOLEAN
  BY DEF IInv, TypeOK, ListenersOK

LEMMA StartChecksSafe ==
  ASSUME IInv, NEW l \in Listeners, StartChecks(l)
  PROVE  IInv'
<1>1. job[l].todo # <<>> /\ job[l].pc = "start" /\ job[l].at <= now
  BY DutyFacts DEF DutyOK, StartChecks
<1> DEFINE t == Head(job[l].todo)
           j == [job[l] EXCEPT !.pc = "create"]
<1>2. CASE t \notin DOMAIN Target \/ OpenOf(t) # {}
  BY <1>1, <1>2, RestFits, JobMoves, DutyFacts DEF StartChecks, Aside
<1>3. CASE ~(t \notin DOMAIN Target \/ OpenOf(t) # {})
  <2>1. PICK S \in SUBSET (1..MaxClocks) : job[l] \in Job(S)
    BY DutyFacts DEF IsJob
  <2>2. j \in Job(S) /\ j.seen = job[l].seen /\ j.todo = job[l].todo /\ j.at = job[l].at /\ j.pc = "create"
    BY <2>1 DEF Job, PC
  <2>3. IsJob(j) /\ SeenOK(j, clock)
    BY <2>2, DutyFacts DEF IsJob, SeenOK
  <2>4. DutyOK(j, now)
    BY <2>2, <1>1, <1>3 DEF DutyOK
  <2> QED BY <1>3, <2>3, <2>4, JobMoves, DutyFacts DEF StartChecks, Aside
<1> QED BY <1>2, <1>3

\* A listener that has just read some rows remembers them as they are.
LEMMA Remembers ==
  ASSUME IInv, NEW K \in SUBSET (DOMAIN clock)
  PROVE  /\ K \in SUBSET (1..MaxClocks)
         /\ Restrict(clock, K) \in [K -> Clock]
         /\ \A j : j.seen = Restrict(clock, K) /\ (j.pc = "resuming" => j.at = now)
                   => SeenOK(j, clock)
<1>1. K \in SUBSET (1..MaxClocks)
  BY RowsTyped DEF IInv
<1>2. Restrict(clock, K) \in [K -> Clock]
  BY RowsTyped DEF IInv, Restrict
<1>3. ASSUME NEW j, j.seen = Restrict(clock, K), j.pc = "resuming" => j.at = now
      PROVE  SeenOK(j, clock)
  BY <1>3 DEF SeenOK, Restrict, IInv, RowsOK, RowOK
<1> QED BY <1>1, <1>2, <1>3

LEMMA CompleteReadsSafe ==
  ASSUME IInv, NEW l \in Listeners, CompleteReads(l)
  PROVE  IInv'
<1>1. job[l].todo # <<>> /\ job[l].pc = "complete" /\ job[l].at <= now
  BY DutyFacts DEF DutyOK, CompleteReads
<1> DEFINE t == Head(job[l].todo)
           j(k) == [job[l] EXCEPT !.pc = "settle", !.seen = Restrict(clock, {k})]
<1>2. CASE Goes(l, Rest(l, "complete"))
  BY <1>1, <1>2, RestFits, JobMoves, DutyFacts DEF CompleteReads, Aside
<1>3. ASSUME NEW k \in OpenOf(t), Goes(l, j(k)) PROVE IInv'
  <2>1. PICK S \in SUBSET (1..MaxClocks) : job[l] \in Job(S)
    BY DutyFacts DEF IsJob
  <2>2. {k} \in SUBSET (DOMAIN clock)
    BY DEF OpenOf
  <2>3. /\ j(k) \in Job({k})
        /\ j(k).seen = Restrict(clock, {k}) /\ j(k).pc = "settle"
        /\ j(k).at = job[l].at /\ j(k).todo = job[l].todo
    BY <2>1, <2>2, Remembers DEF Job, PC
  <2>4. IsJob(j(k)) /\ SeenOK(j(k), clock)
    BY <2>2, <2>3, Remembers DEF IsJob
  <2>5. DutyOK(j(k), now)
    BY <2>3, <1>1 DEF DutyOK
  <2> QED BY <1>3, <2>4, <2>5, JobMoves, DutyFacts DEF CompleteReads, Aside
<1> QED BY <1>2, <1>3 DEF CompleteReads

LEMMA PauseReadsSafe ==
  ASSUME IInv, NEW l \in Listeners, PauseReads(l)
  PROVE  IInv'
<1> DEFINE j == [job[l] EXCEPT !.pc = "pausing", !.at = now, !.seen = Restrict(clock, In("running"))]
<1>1. CASE In("running") = {}
  BY <1>1, NoJobFits, JobMoves, DutyFacts DEF PauseReads, Aside
<1>2. CASE In("running") # {}
  <2>1. PICK S \in SUBSET (1..MaxClocks) : job[l] \in Job(S)
    BY DutyFacts DEF IsJob
  <2>a. In("running") \in SUBSET (DOMAIN clock)
    BY DEF In
  <2>2. /\ j \in Job(In("running"))
        /\ j.seen = Restrict(clock, In("running")) /\ j.pc = "pausing" /\ j.at = now
    BY <2>1, <2>a, Remembers, DutyFacts DEF Job, PC
  <2>3. IsJob(j) /\ SeenOK(j, clock)
    BY <2>2, <2>a, Remembers DEF IsJob
  <2>4. DutyOK(j, now)
    BY <2>2, DutyFacts DEF DutyOK
  <2> QED BY <1>2, <2>3, <2>4, JobMoves, DutyFacts DEF PauseReads, Aside
<1> QED BY <1>1, <1>2

LEMMA ResumeReadsSafe ==
  ASSUME IInv, NEW l \in Listeners, ResumeReads(l)
  PROVE  IInv'
<1> DEFINE j == [job[l] EXCEPT !.pc = "resuming", !.at = now, !.seen = Restrict(clock, In("paused"))]
<1>1. CASE In("paused") = {}
  BY <1>1, NoJobFits, JobMoves, DutyFacts DEF ResumeReads, Aside
<1>2. CASE In("paused") # {}
  <2>1. PICK S \in SUBSET (1..MaxClocks) : job[l] \in Job(S)
    BY DutyFacts DEF IsJob
  <2>a. In("paused") \in SUBSET (DOMAIN clock)
    BY DEF In
  <2>2. /\ j \in Job(In("paused"))
        /\ j.seen = Restrict(clock, In("paused")) /\ j.pc = "resuming" /\ j.at = now
    BY <2>1, <2>a, Remembers, DutyFacts DEF Job, PC
  <2>3. IsJob(j) /\ SeenOK(j, clock)
    BY <2>2, <2>a, Remembers DEF IsJob
  <2>4. DutyOK(j, now)
    BY <2>2, DutyFacts DEF DutyOK
  <2> QED BY <1>2, <2>3, <2>4, JobMoves, DutyFacts DEF ResumeReads, Aside
<1> QED BY <1>1, <1>2

\* A listener writes one row and goes on: sweeps in flight are not disturbed.
LEMMA ListenerWrites ==
  ASSUME IInv, NEW l \in Listeners, NEW k \in DOMAIN clock, NEW row \in Clock, NEW s, NEW j,
         Keeps(row, clock[k]), RowOK(row, now), SaidFits(s, row),
         s.warnings = said[k].warnings, s.breaches = said[k].breaches,
         IsJob(j), SeenOK(j, clock), DutyOK(j, now),
         clock' = [clock EXCEPT ![k] = row], said' = [said EXCEPT ![k] = s],
         Goes(l, j), Aside
  PROVE  IInv'
<1>1. /\ clock' \in Seq(Clock) /\ Len(clock') <= MaxClocks
      /\ said' \in [1..MaxClocks -> Said]
      /\ RowsOK' /\ SaidOK'
      /\ \A i : SeenOK(i, clock) => SeenOK(i, clock')
  BY RowWritten DEF Aside
<1>2. \A i \in Listeners : job'[i] = IF i = l THEN j ELSE job[i]
  BY DEF IInv, TypeOK, Goes
<1>3. TypeOK'
  BY <1>1, <1>2 DEF IInv, TypeOK, Goes, Aside
<1>4. ListenersOK'
  <2> SUFFICES ASSUME NEW i \in Listeners
               PROVE  SeenOK(job'[i], clock') /\ DutyOK(job'[i], now')
    BY DEF ListenersOK
  <2> QED BY <1>1, <1>2 DEF IInv, ListenersOK, Aside
<1>5. SweepsOK'
  <2> SUFFICES ASSUME NEW w \in Workers PROVE SweepOK(sweep[w], clock', said', now, overrun)
    BY DEF SweepsOK, Aside
  <2>1. SweepOK(sweep[w], clock, said, now, overrun)
    BY DEF IInv, SweepsOK
  <2>2. \A i \in DOMAIN clock : /\ i \in DOMAIN clock'
                                /\ Granted(clock'[i]) = Granted(clock[i])
    BY DEF Keeps, Granted
  <2>3. \A i \in DOMAIN clock : /\ said'[i].warnings = said[i].warnings
                                /\ said'[i].breaches = said[i].breaches
    BY RowsTyped DEF IInv, TypeOK
  <2> QED BY <2>1, <2>2, <2>3 DEF SweepOK
<1>6. Holder' /\ now' # 0
  BY DEF IInv, Holder, Aside
<1> QED BY <1>1, <1>3, <1>4, <1>5, <1>6 DEF IInv

\* The rows a listener has still to write are among those it remembered.
LEMMA WithoutFits ==
  ASSUME IInv, NEW l \in Listeners, NEW k \in DOMAIN job[l].seen
  PROVE  IsJob(Without(l, k)) /\ SeenOK(Without(l, k), clock) /\ DutyOK(Without(l, k), now)
<1>1. PICK S \in SUBSET (1..MaxClocks) : job[l] \in Job(S)
  BY DutyFacts DEF IsJob
<1>2. CASE DOMAIN job[l].seen = {k}
  BY <1>2, NoJobFits, DutyFacts DEF Without
<1>3. CASE DOMAIN job[l].seen # {k}
  <2> DEFINE j == [job[l] EXCEPT !.seen = Restrict(@, DOMAIN @ \ {k})]
  <2>1. DOMAIN job[l].seen = S /\ \A i \in S : job[l].seen[i] \in Clock
    BY <1>1 DEF Job
  <2>2. Restrict(job[l].seen, S \ {k}) \in [S \ {k} -> Clock]
    BY <2>1 DEF Restrict
  <2>3. /\ j \in Job(S \ {k}) /\ j.seen = Restrict(job[l].seen, S \ {k})
        /\ j.pc = job[l].pc /\ j.at = job[l].at /\ j.todo = job[l].todo
    BY <1>1, <2>1, <2>2 DEF Job
  <2>4. IsJob(j)
    BY <2>3 DEF IsJob
  <2>5. SeenOK(j, clock)
    BY <2>1, <2>3, DutyFacts DEF SeenOK, Restrict
  <2>6. DutyOK(j, now)
    BY <2>3, DutyFacts DEF DutyOK
  <2> QED BY <1>3, <2>4, <2>5, <2>6 DEF Without
<1> QED BY <1>2, <1>3

\* What a remembered row and the row as it is have in common.
LEMMA SeenFacts ==
  ASSUME IInv, NEW l \in Listeners, NEW k \in DOMAIN job[l].seen
  PROVE  /\ k \in DOMAIN clock /\ k \in 1..MaxClocks
         /\ job[l].seen[k] \in Clock /\ clock[k] \in Clock
         /\ Within(job[l].seen[k]) /\ RowOK(clock[k], now)
         /\ job[l].seen[k].type = clock[k].type /\ job[l].seen[k].startedAt = clock[k].startedAt
         /\ job[l].pc = "resuming" => job[l].seen[k].pausedAt <= job[l].at
         /\ job[l].at \in Nat /\ job[l].at <= now
         /\ said[k] \in Said /\ SaidFits(said[k], clock[k])
<1>1. PICK S \in SUBSET (1..MaxClocks) : job[l] \in Job(S)
  BY DutyFacts DEF IsJob
<1>2. job[l].seen[k] \in Clock /\ job[l].at \in Nat
  BY <1>1 DEF Job
<1>3. /\ k \in DOMAIN clock /\ Within(job[l].seen[k])
      /\ job[l].seen[k].type = clock[k].type /\ job[l].seen[k].startedAt = clock[k].startedAt
      /\ job[l].pc = "resuming" => job[l].seen[k].pausedAt <= job[l].at
  BY DutyFacts DEF SeenOK
<1>4. k \in 1..MaxClocks /\ clock[k] \in Clock
  BY <1>3, RowsTyped DEF IInv
<1>5. RowOK(clock[k], now)
  BY <1>3 DEF IInv, RowsOK
<1>6. said[k] \in Said
  BY <1>4 DEF IInv, TypeOK
<1>7. SaidFits(said[k], clock[k])
  BY <1>3, <1>4, <1>6 DEF IInv, SaidOK, SaidFits
<1>8. job[l].at <= now
  BY DutyFacts DEF DutyOK
<1> QED BY <1>2, <1>3, <1>4, <1>5, <1>6, <1>7, <1>8

LEMMA PausedRow ==
  ASSUME NEW c \in Clock, NEW at \in Nat
  PROVE  /\ Paused(c, at) \in Clock
         /\ Paused(c, at).state = "paused" /\ Paused(c, at).pausedAt = at
         /\ Paused(c, at).type = c.type /\ Paused(c, at).startedAt = c.startedAt
         /\ Paused(c, at).dueAt = c.dueAt /\ Paused(c, at).pausedMs = c.pausedMs
         /\ Paused(c, at).breached = c.breached /\ Paused(c, at).warned = c.warned
<1>1. "paused" \in States
  BY DEF States
<1>2. Paused(c, at) \in Clock
  BY <1>1 DEF Paused, Clock
<1>3. Paused(c, at).breached = c.breached
  BY DEF Paused, Clock
<1>4. Paused(c, at).warned = c.warned
  BY DEF Paused, Clock
<1>5. Paused(c, at).state = "paused" /\ Paused(c, at).pausedAt = at
  BY DEF Paused, Clock
<1> QED BY <1>2, <1>3, <1>4, <1>5 DEF Paused, Clock

LEMMA PauseWritesSafe ==
  ASSUME IInv, NEW l \in Listeners, PauseWrites(l)
  PROVE  IInv'
<1>1. PICK k \in DOMAIN job[l].seen :
        /\ clock' = [clock EXCEPT ![k] = Paused(clock[k], job[l].at)]
        /\ Goes(l, Without(l, k))
  BY DEF PauseWrites
<1> DEFINE row == Paused(clock[k], job[l].at)
<1>2. job[l].at # 0
  BY DutyFacts DEF DutyOK, PauseWrites
<1>3. /\ row \in Clock /\ row.state = "paused" /\ row.pausedAt = job[l].at
      /\ row.type = clock[k].type /\ row.startedAt = clock[k].startedAt
      /\ row.dueAt = clock[k].dueAt /\ row.pausedMs = clock[k].pausedMs
      /\ row.breached = clock[k].breached /\ row.warned = clock[k].warned
  BY SeenFacts, PausedRow
<1>4. Keeps(row, clock[k]) /\ RowOK(row, now)
  BY <1>2, <1>3, SeenFacts DEF Keeps, RowOK, Within, Granted
<1>5. SaidFits(said[k], row)
  BY <1>3, SeenFacts DEF SaidFits, Granted
<1>6. said' = [said EXCEPT ![k] = said[k]]
  BY SeenFacts DEF PauseWrites, IInv, TypeOK
<1>7. PauseWrites(l) => Aside
  BY DEF PauseWrites
<1> HIDE DEF row
<1> QED BY <1>1, <1>3, <1>4, <1>5, <1>6, <1>7, SeenFacts, WithoutFits, ListenerWrites DEF row

\* Whole minutes are no more than the time they are taken from.
LEMMA RemainderBound ==
  ASSUME NEW p \in Nat, NEW m \in Nat \ {0}
  PROVE  p % m \in Nat /\ p % m <= p
<1>1. p % m \in 0..(m - 1)
  OBVIOUS
<1>2. CASE p < m
  <2>1. p % m = p
    BY <1>2
  <2> QED BY <2>1
<1>3. CASE ~(p < m)
  BY <1>1, <1>3
<1> QED BY <1>2, <1>3

LEMMA WholeMinutesBound ==
  ASSUME NEW p \in Nat
  PROVE  WholeMinutes(p) \in Nat /\ WholeMinutes(p) <= p
<1>1. p % MINUTE \in Nat /\ p % MINUTE <= p
  BY RemainderBound
<1> QED BY <1>1 DEF WholeMinutes

LEMMA ResumedRow ==
  ASSUME NEW c \in Clock, NEW r \in Clock, NEW at \in Nat, r.pausedAt <= at
  PROVE  /\ Resumed(c, r, at) \in Clock
         /\ Resumed(c, r, at).state = "running" /\ Resumed(c, r, at).pausedAt = 0
         /\ Resumed(c, r, at).type = c.type /\ Resumed(c, r, at).startedAt = c.startedAt
         /\ Resumed(c, r, at).pausedMs = r.pausedMs + (at - r.pausedAt)
         /\ Resumed(c, r, at).dueAt = r.dueAt + WholeMinutes(at - r.pausedAt)
         /\ Resumed(c, r, at).breached = c.breached /\ Resumed(c, r, at).warned = c.warned
<1> DEFINE p == at - r.pausedAt
<1>1. p \in Nat /\ r.dueAt \in Nat /\ r.warnAt \in Nat /\ r.pausedMs \in Nat
  BY DEF Clock
<1>2. WholeMinutes(p) \in Nat
  BY <1>1, WholeMinutesBound
<1> DEFINE ms == r.pausedMs + p
           due == r.dueAt + WholeMinutes(p)
           warn == r.warnAt + WholeMinutes(p)
<1>3. Resumed(c, r, at) =
        [c EXCEPT !.state = "running", !.pausedAt = 0, !.pausedMs = ms, !.dueAt = due, !.warnAt = warn]
  BY DEF Resumed
<1>4. ms \in Nat /\ due \in Nat /\ warn \in Nat
  BY <1>1, <1>2
<1> HIDE DEF p, ms, due, warn
<1>5. Resumed(c, r, at) \in Clock
  <2>1. "running" \in States
    BY DEF States
  <2>2. [c EXCEPT !.state = "running", !.pausedAt = 0, !.pausedMs = ms] \in Clock
    BY <1>4, <2>1 DEF Clock
  <2> DEFINE d == [c EXCEPT !.state = "running", !.pausedAt = 0, !.pausedMs = ms]
  <2>3. Resumed(c, r, at) = [d EXCEPT !.dueAt = due, !.warnAt = warn]
    BY <1>3 DEF Clock
  <2> HIDE DEF d
  <2> QED BY <1>4, <2>2, <2>3 DEF Clock, d
<1>6. Resumed(c, r, at).breached = c.breached
  BY <1>3 DEF Clock
<1>7. Resumed(c, r, at).warned = c.warned
  BY <1>3 DEF Clock
<1>8. /\ Resumed(c, r, at).state = "running" /\ Resumed(c, r, at).pausedAt = 0
      /\ Resumed(c, r, at).type = c.type /\ Resumed(c, r, at).startedAt = c.startedAt
      /\ Resumed(c, r, at).pausedMs = ms /\ Resumed(c, r, at).dueAt = due
  BY <1>3 DEF Clock
<1> QED BY <1>5, <1>6, <1>7, <1>8 DEF p, ms, due

LEMMA ResumeWritesSafe ==
  ASSUME IInv, NEW l \in Listeners, ResumeWrites(l)
  PROVE  IInv'
<1>1. PICK k \in DOMAIN job[l].seen :
        /\ clock' = [clock EXCEPT ![k] = Resumed(clock[k], job[l].seen[k], job[l].at)]
        /\ Goes(l, Without(l, k))
  BY DEF ResumeWrites
<1> DEFINE r   == job[l].seen[k]
           p   == job[l].at - r.pausedAt
           row == Resumed(clock[k], r, job[l].at)
<1>2. r.pausedAt <= job[l].at /\ r \in Clock /\ Within(r)
  BY SeenFacts DEF ResumeWrites
<1>3. /\ row \in Clock /\ row.state = "running" /\ row.pausedAt = 0
      /\ row.type = clock[k].type /\ row.startedAt = clock[k].startedAt
      /\ row.pausedMs = r.pausedMs + p /\ row.dueAt = r.dueAt + WholeMinutes(p)
      /\ row.breached = clock[k].breached /\ row.warned = clock[k].warned
  <2>1. clock[k] \in Clock /\ job[l].at \in Nat
    BY SeenFacts
  <2> HIDE DEF r
  <2>2. \A c \in Clock, at \in Nat : r.pausedAt <= at =>
          /\ Resumed(c, r, at) \in Clock
          /\ Resumed(c, r, at).state = "running" /\ Resumed(c, r, at).pausedAt = 0
          /\ Resumed(c, r, at).type = c.type /\ Resumed(c, r, at).startedAt = c.startedAt
          /\ Resumed(c, r, at).pausedMs = r.pausedMs + (at - r.pausedAt)
          /\ Resumed(c, r, at).dueAt = r.dueAt + WholeMinutes(at - r.pausedAt)
          /\ Resumed(c, r, at).breached = c.breached /\ Resumed(c, r, at).warned = c.warned
    BY <1>2, ResumedRow
  <2> QED BY <1>2, <2>1, <2>2
<1>4. Within(row)
  <2>1. Granted(row) = Granted(r) /\ row.type = r.type
    BY <1>3, SeenFacts DEF Granted
  <2>2. p \in Nat /\ r.dueAt \in Nat /\ r.pausedMs \in Nat
    BY <1>2, SeenFacts DEF Clock
  <2>3. WholeMinutes(p) \in Nat /\ WholeMinutes(p) <= p
    BY <2>2, WholeMinutesBound
  <2>4. Granted(r) \in Nat
    BY <1>2 DEF Within, Granted, Clock
  <2> HIDE DEF p, row, r
  <2> QED BY <1>2, <1>3, <2>1, <2>2, <2>3, <2>4 DEF Within
<1>5. Keeps(row, clock[k]) /\ RowOK(row, now)
  BY <1>3, <1>4, SeenFacts, DutyFacts DEF Keeps, RowOK
<1>6. SaidFits(said[k], row)
  BY <1>3, SeenFacts DEF SaidFits, Granted
<1>7. said' = [said EXCEPT ![k] = said[k]]
  BY SeenFacts DEF ResumeWrites, IInv, TypeOK
<1>8. Aside
  BY DEF ResumeWrites
<1> HIDE DEF row
<1> QED BY <1>1, <1>3, <1>5, <1>6, <1>7, <1>8, SeenFacts, WithoutFits, ListenerWrites DEF row

LEMMA SettledRow ==
  ASSUME NEW c \in Clock, NEW r \in Clock, now \in Nat
  PROVE  /\ Settled(c, r) \in Clock
         /\ Settled(c, r).state \in {"met", "breached"}
         /\ (Settled(c, r).state = "met") <=> (now <= r.dueAt)
         /\ Settled(c, r).elapsedMs \in {0, now - r.startedAt - r.pausedMs}
         /\ Settled(c, r).type = c.type /\ Settled(c, r).startedAt = c.startedAt
         /\ Settled(c, r).dueAt = c.dueAt /\ Settled(c, r).pausedMs = c.pausedMs
         /\ Settled(c, r).pausedAt = c.pausedAt
         /\ c.breached => Settled(c, r).breached
         /\ Settled(c, r).warned = c.warned
<1> DEFINE e  == now - r.startedAt - r.pausedMs
           st == IF now <= r.dueAt THEN "met" ELSE "breached"
           ms == IF e < 0 THEN 0 ELSE e
           b  == c.breached \/ now > r.dueAt
<1>1. Settled(c, r) = [c EXCEPT !.state = st, !.elapsedMs = ms, !.breached = b]
  BY DEF Settled, Clock
<1>2. r.startedAt \in Nat /\ r.pausedMs \in Nat /\ r.dueAt \in Nat
  BY DEF Clock
<1>3. ms \in Nat /\ ms \in {0, e}
  BY <1>2
<1>4. st \in {"met", "breached"} /\ ((st = "met") <=> (now <= r.dueAt))
  BY <1>2
<1>5. b \in BOOLEAN /\ (c.breached => b)
  OBVIOUS
<1> HIDE DEF e, st, ms, b
<1>6. Settled(c, r) \in Clock
  BY <1>1, <1>3, <1>4, <1>5 DEF Clock, States
<1>7. Settled(c, r).breached = b
  BY <1>1 DEF Clock
<1>8. Settled(c, r).warned = c.warned
  BY <1>1 DEF Clock
<1>9. /\ Settled(c, r).state = st /\ Settled(c, r).elapsedMs = ms
      /\ Settled(c, r).type = c.type /\ Settled(c, r).startedAt = c.startedAt
      /\ Settled(c, r).dueAt = c.dueAt /\ Settled(c, r).pausedMs = c.pausedMs
      /\ Settled(c, r).pausedAt = c.pausedAt
  BY <1>1 DEF Clock
<1>10. c.breached => Settled(c, r).breached
  BY <1>5, <1>7
<1> QED BY <1>3, <1>4, <1>6, <1>8, <1>9, <1>10 DEF e

LEMMA CompleteWritesSafe ==
  ASSUME IInv, NEW l \in Listeners, CompleteWrites(l)
  PROVE  IInv'
<1>1. PICK k \in DOMAIN job[l].seen :
        /\ clock' = [clock EXCEPT ![k] = Settled(clock[k], job[l].seen[k])]
        /\ said' = [said EXCEPT ![k].late = IF now > job[l].seen[k].dueAt THEN @ + 1 ELSE @]
  BY DEF CompleteWrites
<1> DEFINE r    == job[l].seen[k]
           row  == Settled(clock[k], r)
           late == IF now > r.dueAt THEN said[k].late + 1 ELSE said[k].late
           s    == [said[k] EXCEPT !.late = late]
<1>2. r \in Clock /\ clock[k] \in Clock /\ now \in Nat /\ said[k] \in Said
  BY SeenFacts, DutyFacts
<1>3. /\ row \in Clock
      /\ row.state \in {"met", "breached"} /\ ((row.state = "met") <=> (now <= r.dueAt))
      /\ row.elapsedMs \in {0, now - r.startedAt - r.pausedMs}
      /\ row.type = clock[k].type /\ row.startedAt = clock[k].startedAt
      /\ row.dueAt = clock[k].dueAt /\ row.pausedMs = clock[k].pausedMs
      /\ row.pausedAt = clock[k].pausedAt
      /\ clock[k].breached => row.breached
      /\ row.warned = clock[k].warned
  <2> HIDE DEF r
  <2>1. \A c \in Clock :
          /\ Settled(c, r) \in Clock
          /\ Settled(c, r).state \in {"met", "breached"}
          /\ (Settled(c, r).state = "met") <=> (now <= r.dueAt)
          /\ Settled(c, r).elapsedMs \in {0, now - r.startedAt - r.pausedMs}
          /\ Settled(c, r).type = c.type /\ Settled(c, r).startedAt = c.startedAt
          /\ Settled(c, r).dueAt = c.dueAt /\ Settled(c, r).pausedMs = c.pausedMs
          /\ Settled(c, r).pausedAt = c.pausedAt
          /\ c.breached => Settled(c, r).breached
          /\ Settled(c, r).warned = c.warned
    BY <1>2, SettledRow
  <2> QED BY <1>2, <2>1
<1>4. /\ Within(r) /\ Granted(row) = Granted(r) /\ row.type = r.type /\ row.startedAt = r.startedAt
      /\ RowOK(clock[k], now)
  BY <1>3, SeenFacts DEF Granted
<1>5. r.startedAt \in Nat /\ r.pausedMs \in Nat /\ r.dueAt \in Nat /\ said[k].late \in Nat
  BY <1>2 DEF Clock, Said
<1>6. r.type \in DOMAIN Target /\ Target[r.type].duration \in Nat
  BY <1>4 DEF Within
<1>7. s \in Said /\ s.warnings = said[k].warnings /\ s.breaches = said[k].breaches /\ s.late = late
  BY <1>2, <1>5 DEF Said
<1>8. said' = [said EXCEPT ![k] = s]
  BY <1>1
<1> HIDE DEF row, r, s
<1>9. row.state = "met" => row.elapsedMs <= Target[row.type].duration
  BY <1>2, <1>3, <1>4, <1>5, <1>6 DEF Within, Granted
<1>10. now > r.dueAt => Granted(row) <= now
  BY <1>2, <1>4, <1>5, <1>6 DEF Within, Granted
<1>11. Keeps(row, clock[k])
  BY <1>3 DEF Keeps
<1>12. RowOK(row, now)
  <2>1. Within(row)
    BY <1>3, <1>4 DEF RowOK, Within, Granted
  <2> QED BY <1>3, <1>4, <1>9, <2>1 DEF RowOK
<1>13. SaidFits(s, row)
  <2>1. SaidFits(said[k], clock[k]) /\ Granted(clock[k]) = Granted(row)
    BY <1>3, SeenFacts DEF Granted
  <2>2. row.state = "breached" => now > r.dueAt
    BY <1>2, <1>3, <1>5
  <2>3. s.breaches + s.late > 0 => Granted(row) <= now
    BY <1>5, <1>7, <1>10, <2>1, <1>2 DEF SaidFits, Said
  <2> QED BY <1>3, <1>7, <1>10, <2>1, <2>2, <2>3 DEF SaidFits
<1>14. job[l].todo # <<>>
  BY DutyFacts DEF CompleteWrites, DutyOK
<1>15. Goes(l, Rest(l, "complete")) /\ Aside
  BY DEF CompleteWrites
<1>16. clock' = [clock EXCEPT ![k] = row] /\ k \in DOMAIN clock
  BY <1>1, SeenFacts DEF row, r
<1> QED BY <1>3, <1>7, <1>8, <1>11, <1>12, <1>13, <1>14, <1>15, <1>16, RestFits, ListenerWrites

\* A new row at the end leaves every row before it alone.
LEMMA StartCreatesSafe ==
  ASSUME IInv, NEW l \in Listeners, StartCreates(l)
  PROVE  IInv'
<1> DEFINE t   == Head(job[l].todo)
           row == Started(t, job[l].at)
           n   == Len(clock)
<1>1. t \in DOMAIN Target /\ job[l].todo # <<>> /\ job[l].at <= now /\ job[l].at \in Nat
  <2>1. PICK S \in SUBSET (1..MaxClocks) : job[l] \in Job(S)
    BY DutyFacts DEF IsJob
  <2> QED BY <2>1, DutyFacts DEF DutyOK, StartCreates, Job
<1>2. Target[t].duration \in Nat /\ Target[t].warn \in Nat /\ t \in Types
  BY <1>1
<1>3. row \in Clock /\ RowOK(row, now)
  <2> HIDE DEF t
  <2>1. /\ job[l].at + Target[t].duration \in Nat
        /\ job[l].at + Target[t].warn \in Nat
    BY <1>1, <1>2
  <2>2. row \in Clock
    BY <1>1, <1>2, <2>1 DEF Started, Clock, States
  <2>3. RowOK(row, now)
    BY <1>1, <1>2, <2>1, DutyFacts DEF Started, RowOK, Within, Granted
  <2> QED BY <2>2, <2>3
<1>4. clock \in Seq(Clock) /\ n \in Nat /\ n < MaxClocks
  BY DEF IInv, TypeOK, StartCreates
<1>5. /\ clock' = Append(clock, row)
      /\ clock' \in Seq(Clock) /\ Len(clock') = n + 1
      /\ clock'[n + 1] = row
      /\ \A k \in DOMAIN clock : k \in DOMAIN clock' /\ clock'[k] = clock[k]
      /\ \A k \in DOMAIN clock' : k \in DOMAIN clock \/ k = n + 1
  <2> HIDE DEF row
  <2> QED BY <1>3, <1>4 DEF StartCreates, row, t
<1> HIDE DEF row, t, n
<1>6. RowsOK'
  BY <1>3, <1>5 DEF IInv, RowsOK, StartCreates, Aside
<1>7. SaidOK'
  <2> SUFFICES ASSUME NEW k \in 1..MaxClocks
               PROVE  /\ ~overrun => said[k].warnings <= 1 /\ said[k].breaches <= 1
                      /\ k \notin DOMAIN clock' => said[k] = Silent
                      /\ k \in DOMAIN clock' =>
                           /\ said[k].warnings > 0 => clock'[k].warned
                           /\ said[k].breaches > 0 => clock'[k].breached
                           /\ clock'[k].state = "breached" \/ said[k].breaches + said[k].late > 0
                                => Granted(clock'[k]) <= now
    BY DEF SaidOK, StartCreates, Aside
  <2>1. CASE k \in DOMAIN clock
    BY <1>5, <2>1 DEF IInv, SaidOK
  <2>2. CASE k \notin DOMAIN clock
    <3>1. said[k] = Silent
      BY <2>2 DEF IInv, SaidOK
    <3>2. k \in DOMAIN clock' => clock'[k] = row
      BY <1>5, <2>2
    <3>3. row.state = "running"
      BY DEF row, Started
    <3> QED BY <3>1, <3>2, <3>3 DEF Silent
  <2> QED BY <2>1, <2>2
<1>8. /\ IsJob(Rest(l, "start")) /\ SeenOK(Rest(l, "start"), clock) /\ DutyOK(Rest(l, "start"), now)
  BY <1>1, RestFits
<1>9. \A i \in Listeners : job'[i] = IF i = l THEN Rest(l, "start") ELSE job[i]
  BY DEF IInv, TypeOK, Goes, StartCreates
<1>10. ListenersOK'
  <2> SUFFICES ASSUME NEW i \in Listeners
               PROVE  SeenOK(job'[i], clock') /\ DutyOK(job'[i], now)
    BY DEF ListenersOK, StartCreates, Aside
  <2>1. SeenOK(job'[i], clock) /\ DutyOK(job'[i], now)
    BY <1>8, <1>9 DEF IInv, ListenersOK
  <2> QED BY <1>5, <2>1 DEF SeenOK
<1>11. SweepsOK'
  <2> SUFFICES ASSUME NEW w \in Workers PROVE SweepOK(sweep[w], clock', said, now, overrun)
    BY DEF SweepsOK, StartCreates, Aside
  <2> QED BY <1>5 DEF IInv, SweepsOK, SweepOK
<1>12. TypeOK'
  BY <1>4, <1>5, <1>8, <1>9 DEF IInv, TypeOK, StartCreates, Aside, Goes
<1>13. Holder' /\ now' # 0
  BY DEF IInv, Holder, StartCreates, Aside
<1> QED BY <1>6, <1>7, <1>10, <1>11, <1>12, <1>13 DEF IInv
\* One statement cancels every open row; nothing it changes was relied upon.
LEMMA CancelsSafe ==
  ASSUME IInv, NEW l \in Listeners, Cancels(l)
  PROVE  IInv'
<1> DEFINE gone(r) == [r EXCEPT !.state = "cancelled"]
           row(k)  == IF clock[k].state \in Open THEN gone(clock[k]) ELSE clock[k]
<1>1. ASSUME NEW r \in Clock
      PROVE  /\ gone(r) \in Clock /\ gone(r).state = "cancelled"
             /\ gone(r).type = r.type /\ gone(r).startedAt = r.startedAt
             /\ gone(r).dueAt = r.dueAt /\ gone(r).pausedMs = r.pausedMs
             /\ gone(r).pausedAt = r.pausedAt
  BY DEF Clock, States
<1>2. ASSUME NEW r \in Clock
      PROVE  gone(r).breached = r.breached
  BY DEF Clock
<1>3. ASSUME NEW r \in Clock
      PROVE  gone(r).warned = r.warned
  BY DEF Clock
<1>4. \A k \in DOMAIN clock : clock[k] \in Clock /\ k \in 1..MaxClocks
  BY RowsTyped DEF IInv
<1>5. clock \in Seq(Clock) /\ Len(clock) \in Nat /\ Len(clock) <= MaxClocks /\ DOMAIN clock = 1..Len(clock)
  BY DEF IInv, TypeOK
<1>6. ASSUME NEW k \in DOMAIN clock
      PROVE  /\ row(k) \in Clock /\ Keeps(row(k), clock[k])
             /\ row(k).dueAt = clock[k].dueAt /\ row(k).pausedMs = clock[k].pausedMs
             /\ row(k).pausedAt = clock[k].pausedAt
             /\ row(k).state \in {"cancelled", clock[k].state}
  <2>1. clock[k] \in Clock
    BY <1>4
  <2> HIDE DEF gone
  <2>2. Keeps(gone(clock[k]), clock[k])
    BY <1>1, <1>2, <1>3, <2>1 DEF Keeps
  <2>3. Keeps(clock[k], clock[k])
    BY DEF Keeps
  <2> QED BY <1>1, <2>1, <2>2, <2>3
<1> HIDE DEF gone, row
<1>7. clock' = [k \in DOMAIN clock |-> row(k)]
  BY DEF Cancels, row, gone
<1>8. /\ clock' \in Seq(Clock) /\ Len(clock') <= MaxClocks /\ DOMAIN clock' = DOMAIN clock
      /\ \A k \in DOMAIN clock : clock'[k] = row(k)
  BY <1>5, <1>6, <1>7
<1>9. \A k \in DOMAIN clock : /\ k \in DOMAIN clock'
                              /\ Keeps(clock'[k], clock[k]) /\ Granted(clock'[k]) = Granted(clock[k])
                              /\ clock'[k].dueAt = clock[k].dueAt /\ clock'[k].pausedMs = clock[k].pausedMs
                              /\ clock'[k].pausedAt = clock[k].pausedAt
                              /\ clock'[k].state \in {"cancelled", clock[k].state}
  BY <1>6, <1>8 DEF Keeps, Granted
<1>10. UNCHANGED <<now, kind, opened, sweep, lock, overrun, asked, said>>
  BY DEF Cancels, Aside
<1>11. RowsOK'
  <2> SUFFICES ASSUME NEW k \in DOMAIN clock PROVE RowOK(clock'[k], now)
    BY <1>8, <1>10 DEF RowsOK
  <2>1. RowOK(clock[k], now) /\ clock'[k].state \in {"cancelled", clock[k].state}
    BY <1>9 DEF IInv, RowsOK
  <2>2. /\ clock'[k].type = clock[k].type /\ clock'[k].startedAt = clock[k].startedAt
        /\ clock'[k].dueAt = clock[k].dueAt /\ clock'[k].pausedMs = clock[k].pausedMs
        /\ clock'[k].pausedAt = clock[k].pausedAt
    BY <1>9 DEF Keeps
  <2>3. Within(clock'[k])
    BY <2>1, <2>2 DEF RowOK, Within, Granted
  <2>4. clock'[k].state = "met" => clock'[k].elapsedMs <= Target[clock'[k].type].duration
    <3>1. CASE clock[k].state \in Open
      BY <3>1, <1>1, <1>4, <1>8 DEF row
    <3>2. CASE clock[k].state \notin Open
      BY <3>2, <1>8, <2>1 DEF row, RowOK
    <3> QED BY <3>1, <3>2
  <2> QED BY <2>1, <2>2, <2>3, <2>4 DEF RowOK
<1>12. SaidOK'
  <2> SUFFICES ASSUME NEW k \in 1..MaxClocks
               PROVE  /\ ~overrun => said[k].warnings <= 1 /\ said[k].breaches <= 1
                      /\ k \notin DOMAIN clock' => said[k] = Silent
                      /\ k \in DOMAIN clock' =>
                           /\ said[k].warnings > 0 => clock'[k].warned
                           /\ said[k].breaches > 0 => clock'[k].breached
                           /\ clock'[k].state = "breached" \/ said[k].breaches + said[k].late > 0
                                => Granted(clock'[k]) <= now
    BY <1>10 DEF SaidOK
  <2> QED BY <1>8, <1>9 DEF IInv, SaidOK, Keeps
<1>13. SweepsOK'
  <2> SUFFICES ASSUME NEW w \in Workers PROVE SweepOK(sweep[w], clock', said, now, overrun)
    BY <1>10 DEF SweepsOK
  <2> QED BY <1>9 DEF IInv, SweepsOK, SweepOK
<1> DEFINE again == [job[l] EXCEPT !.pc = "start", !.at = now]
           next  == IF job[l].todo = <<>> THEN NoJob ELSE again
<1>14. IsJob(next) /\ SeenOK(next, clock) /\ DutyOK(next, now)
  <2>1. CASE job[l].todo = <<>>
    BY <2>1, NoJobFits, DutyFacts
  <2>2. CASE job[l].todo # <<>>
    <3>1. PICK S \in SUBSET (1..MaxClocks) : job[l] \in Job(S)
      BY DutyFacts DEF IsJob
    <3>2. /\ again \in Job(S) /\ again.seen = job[l].seen /\ again.pc = "start"
          /\ again.at = now /\ again.todo = job[l].todo
      BY <3>1, DutyFacts DEF Job, PC
    <3>3. IsJob(again) /\ SeenOK(again, clock)
      BY <3>2, DutyFacts DEF IsJob, SeenOK
    <3>4. DutyOK(again, now)
      BY <2>2, <3>2, DutyFacts DEF DutyOK
    <3> QED BY <2>2, <3>3, <3>4
  <2> QED BY <2>1, <2>2
<1>15. Goes(l, next)
  BY DEF Cancels
<1> HIDE DEF next
<1>16. \A i \in Listeners : job'[i] = IF i = l THEN next ELSE job[i]
  BY <1>15 DEF IInv, TypeOK, Goes
<1>17. ListenersOK'
  <2> SUFFICES ASSUME NEW i \in Listeners PROVE SeenOK(job'[i], clock') /\ DutyOK(job'[i], now)
    BY <1>10 DEF ListenersOK
  <2>1. SeenOK(job'[i], clock) /\ DutyOK(job'[i], now)
    BY <1>14, <1>16 DEF IInv, ListenersOK
  <2> QED BY <1>9, <2>1 DEF SeenOK, Keeps
<1>18. TypeOK'
  BY <1>8, <1>10, <1>14, <1>15, <1>16 DEF IInv, TypeOK, Goes
<1>19. Holder' /\ now' # 0
  BY <1>10 DEF IInv, Holder
<1> QED BY <1>11, <1>12, <1>13, <1>17, <1>18, <1>19 DEF IInv

-----------------------------------------------------------------------------
(* The sweep's steps.                                                      *)

\* A sweep only moves itself, and holds the lock for as long as it runs.
LEMMA SweepMoves ==
  ASSUME IInv, NEW w \in Workers, NEW s \in Sweep, SweepOK(s, clock, said, now, overrun),
         Sweeps(w, s), Holder', lock' \in Workers \cup {NoWorker},
         UNCHANGED <<now, kind, opened, job, clock, said, overrun>>, asked' \in Nat
  PROVE  IInv'
<1>1. \A v \in Workers : sweep'[v] = IF v = w THEN s ELSE sweep[v]
  BY DEF IInv, TypeOK, Sweeps
<1>2. SweepsOK'
  <2> SUFFICES ASSUME NEW v \in Workers PROVE SweepOK(sweep'[v], clock, said, now, overrun)
    BY DEF SweepsOK
  <2> QED BY <1>1 DEF IInv, SweepsOK
<1>3. TypeOK'
  BY DEF IInv, TypeOK, Sweeps
<1>4. RowsOK' /\ SaidOK' /\ ListenersOK' /\ now' # 0
  BY DEF IInv, RowsOK, SaidOK, ListenersOK
<1> QED BY <1>2, <1>3, <1>4 DEF IInv

LEMMA SweepBeginsSafe ==
  ASSUME IInv, NEW w \in Workers, SweepBegins(w)
  PROVE  IInv'
<1> DEFINE s == [pc |-> "warn", at |-> now, todo |-> WarningsDue(now)]
<1>1. \A k \in WarningsDue(now) : /\ k \in DOMAIN clock /\ k \in 1..MaxClocks
                                  /\ said[k].warnings = 0
  <2> SUFFICES ASSUME NEW k \in WarningsDue(now)
               PROVE  k \in DOMAIN clock /\ k \in 1..MaxClocks /\ said[k].warnings = 0
    OBVIOUS
  <2>1. k \in DOMAIN clock /\ ~clock[k].warned
    BY DEF WarningsDue, In
  <2>2. k \in 1..MaxClocks
    BY <2>1, RowsTyped DEF IInv
  <2>3. said[k].warnings \in Nat /\ ~(said[k].warnings > 0)
    BY <2>1, <2>2 DEF IInv, TypeOK, SaidOK, Said
  <2> QED BY <2>1, <2>2, <2>3
<1>2. s \in Sweep /\ SweepOK(s, clock, said, now, overrun)
  BY <1>1, TimeTyped DEF Sweep, SweepOK
<1>3. Holder'
  <2> SUFFICES ASSUME NEW v \in Workers, sweep'[v].pc # "idle", ~overrun PROVE v = w
    BY DEF Holder, SweepBegins
  <2>1. v # w => sweep[v].pc # "idle"
    BY DEF IInv, TypeOK, SweepBegins, Sweeps
  <2> QED BY <2>1 DEF IInv, Holder, SweepBegins
<1>4. /\ lock' \in Workers \cup {NoWorker} /\ asked' \in Nat
      /\ UNCHANGED <<now, kind, opened, job, clock, said, overrun>>
  BY DEF SweepBegins, IInv, TypeOK
<1>5. Sweeps(w, s)
  BY DEF SweepBegins
<1> HIDE DEF s
<1> QED BY <1>2, <1>3, <1>4, <1>5, SweepMoves

LEMMA SweepTurnsSafe ==
  ASSUME IInv, NEW w \in Workers, SweepTurns(w)
  PROVE  IInv'
<1> DEFINE due == BreachesDue(sweep[w].at)
           s   == [sweep[w] EXCEPT !.pc = "breach", !.todo = due]
<1>1. sweep[w] \in Sweep /\ sweep[w].at <= now /\ sweep[w].at \in Nat /\ now \in Nat
  BY DEF IInv, TypeOK, SweepsOK, SweepOK, Sweep
<1>2. \A k \in due : /\ k \in DOMAIN clock /\ k \in 1..MaxClocks
                     /\ said[k].breaches = 0 /\ Granted(clock[k]) <= now
  <2> SUFFICES ASSUME NEW k \in due
               PROVE  /\ k \in DOMAIN clock /\ k \in 1..MaxClocks
                      /\ said[k].breaches = 0 /\ Granted(clock[k]) <= now
    OBVIOUS
  <2>1. k \in DOMAIN clock /\ ~clock[k].breached /\ clock[k].dueAt <= sweep[w].at
    BY DEF BreachesDue, In
  <2>2. k \in 1..MaxClocks /\ clock[k] \in Clock
    BY <2>1, RowsTyped DEF IInv
  <2>3. said[k].breaches \in Nat /\ ~(said[k].breaches > 0)
    BY <2>1, <2>2 DEF IInv, TypeOK, SaidOK, Said
  <2>4. Granted(clock[k]) <= clock[k].dueAt /\ Granted(clock[k]) \in Nat /\ clock[k].dueAt \in Nat
    BY <2>1, <2>2 DEF IInv, RowsOK, RowOK, Within, Granted, Clock
  <2> QED BY <1>1, <2>1, <2>2, <2>3, <2>4
<1> HIDE DEF due
<1>3. s \in Sweep /\ s.at = sweep[w].at /\ s.todo = due /\ s.pc = "breach"
  BY <1>1, <1>2 DEF Sweep
<1>4. SweepOK(s, clock, said, now, overrun)
  BY <1>1, <1>2, <1>3 DEF SweepOK
<1>5. Holder'
  BY DEF IInv, TypeOK, Holder, SweepTurns, Sweeps
<1> QED BY <1>3, <1>4, <1>5, SweepMoves DEF SweepTurns, Beside, IInv, TypeOK, due

\* A sweep that ends, or dies, leaves nothing to do.
LEMMA SweepStopsSafe ==
  ASSUME IInv, NEW w \in Workers, SweepEnds(w) \/ SweepDies(w)
  PROVE  IInv'
<1>1. NoSweep \in Sweep /\ SweepOK(NoSweep, clock, said, now, overrun)
  BY TimeTyped DEF NoSweep, Sweep, SweepOK
<1>2. \A v \in Workers : sweep'[v].pc # "idle" => v # w /\ sweep[v].pc # "idle"
  BY DEF IInv, TypeOK, SweepEnds, SweepDies, Sweeps, NoSweep
<1>3. sweep[w].pc # "idle"
  BY DEF SweepEnds, SweepDies
<1>4. /\ lock' \in {lock, NoWorker} /\ (lock # w => lock' = lock)
      /\ Sweeps(w, NoSweep) /\ UNCHANGED <<now, kind, opened, job, asked, clock, said, overrun>>
  BY DEF SweepEnds, SweepDies, Beside
<1>5. Holder'
  BY <1>2, <1>3, <1>4 DEF IInv, Holder
<1> QED BY <1>1, <1>4, <1>5, SweepMoves DEF IInv, TypeOK

LEMMA LockExpiresSafe ==
  ASSUME IInv, LockExpires
  PROVE  IInv'
<1>1. UNCHANGED <<now, kind, opened, clock, job, sweep, asked, said>>
  BY DEF LockExpires, Beside
<1>2. lock' = NoWorker /\ overrun' \in BOOLEAN /\ (overrun => overrun')
  BY DEF LockExpires
<1>3. lock \in Workers /\ (sweep[lock].pc # "idle" => overrun')
  BY DEF LockExpires, IInv, TypeOK
<1>4. Holder'
  BY <1>1, <1>2, <1>3 DEF IInv, Holder
<1>5. TypeOK'
  BY <1>1, <1>2 DEF IInv, TypeOK
<1>6. RowsOK' /\ ListenersOK' /\ now' # 0
  BY <1>1 DEF IInv, RowsOK, ListenersOK
<1>7. SweepsOK' /\ SaidOK'
  BY <1>1, <1>2 DEF IInv, SweepsOK, SweepOK, SaidOK
<1> QED BY <1>4, <1>5, <1>6, <1>7 DEF IInv

\* A sweep writes one row: unless one outlived its lock, no other is running.
LEMMA SweepWrites ==
  ASSUME IInv, NEW w \in Workers, sweep[w].pc # "idle",
         NEW k \in DOMAIN clock, NEW row \in Clock, NEW s, NEW left \in Sweep,
         Keeps(row, clock[k]), RowOK(row, now), SaidFits(s, row),
         clock' = [clock EXCEPT ![k] = row], said' = [said EXCEPT ![k] = s],
         Sweeps(w, left), left.pc = sweep[w].pc, SweepOK(left, clock', said', now, overrun),
         Beside, UNCHANGED <<lock, overrun>>
  PROVE  IInv'
<1>1. /\ clock' \in Seq(Clock) /\ Len(clock') <= MaxClocks
      /\ said' \in [1..MaxClocks -> Said]
      /\ RowsOK' /\ SaidOK'
      /\ \A j : SeenOK(j, clock) => SeenOK(j, clock')
  BY RowWritten DEF Beside
<1>2. \A v \in Workers : sweep'[v] = IF v = w THEN left ELSE sweep[v]
  BY DEF IInv, TypeOK, Sweeps
<1>3. TypeOK'
  BY <1>1, <1>2 DEF IInv, TypeOK, Sweeps, Beside
<1>4. SweepsOK'
  <2> SUFFICES ASSUME NEW v \in Workers PROVE SweepOK(sweep'[v], clock', said', now, overrun)
    BY DEF SweepsOK, Beside
  <2>1. CASE v = w
    BY <1>2, <2>1
  <2>2. CASE v # w
    <3>1. SweepOK(sweep[v], clock, said, now, overrun) /\ (~overrun => sweep[v].pc = "idle")
      BY <2>2 DEF IInv, SweepsOK, Holder
    <3>2. \A i \in DOMAIN clock : i \in DOMAIN clock' /\ Granted(clock'[i]) = Granted(clock[i])
      BY DEF Keeps, Granted
    <3> QED BY <1>2, <2>2, <3>1, <3>2 DEF SweepOK, Beside
  <2> QED BY <2>1, <2>2
<1>5. ListenersOK'
  <2> SUFFICES ASSUME NEW l \in Listeners PROVE SeenOK(job[l], clock') /\ DutyOK(job[l], now)
    BY DEF ListenersOK, Beside
  <2> QED BY <1>1 DEF IInv, ListenersOK
<1>6. Holder' /\ now' # 0
  BY <1>2 DEF IInv, Holder, Beside
<1> QED BY <1>1, <1>3, <1>4, <1>5, <1>6 DEF IInv

\* What a sweep knows of a row on its list.
LEMMA ListedFacts ==
  ASSUME IInv, NEW w \in Workers, NEW k \in sweep[w].todo
  PROVE  /\ sweep[w] \in Sweep /\ SweepOK(sweep[w], clock, said, now, overrun)
         /\ k \in DOMAIN clock /\ clock[k] \in Clock /\ RowOK(clock[k], now)
         /\ said[k] \in Said /\ SaidFits(said[k], clock[k])
         /\ now \in Nat /\ k \in 1..MaxClocks
<1>1. sweep[w] \in Sweep /\ SweepOK(sweep[w], clock, said, now, overrun) /\ now \in Nat
  BY DEF IInv, TypeOK, SweepsOK
<1>2. k \in DOMAIN clock
  BY <1>1 DEF SweepOK
<1>3. k \in 1..MaxClocks /\ clock[k] \in Clock
  BY <1>2, RowsTyped DEF IInv
<1>4. said[k] \in Said
  BY <1>3 DEF IInv, TypeOK
<1>5. RowOK(clock[k], now)
  BY <1>2 DEF IInv, RowsOK
<1>6. SaidFits(said[k], clock[k])
  BY <1>2, <1>3, <1>4 DEF IInv, SaidOK, SaidFits
<1> QED BY <1>1, <1>2, <1>3, <1>4, <1>5, <1>6

\* The rest of a sweep's list is still to be announced once one row has been.
LEMMA LeftFits ==
  ASSUME IInv, NEW w \in Workers, NEW k \in sweep[w].todo, NEW row, Keeps(row, clock[k]), NEW s,
         clock' = [clock EXCEPT ![k] = row], said' = [said EXCEPT ![k] = s], UNCHANGED <<now, overrun>>
  PROVE  LET left == [sweep[w] EXCEPT !.todo = @ \ {k}] IN
         left \in Sweep /\ left.pc = sweep[w].pc /\ SweepOK(left, clock', said', now', overrun)
<1> DEFINE left == [sweep[w] EXCEPT !.todo = @ \ {k}]
<1>1. sweep[w] \in Sweep /\ SweepOK(sweep[w], clock, said, now, overrun)
  BY ListedFacts
<1>2. /\ left \in Sweep /\ left.pc = sweep[w].pc /\ left.at = sweep[w].at
      /\ left.todo = sweep[w].todo \ {k}
  BY <1>1 DEF Sweep
<1>3. \A i \in DOMAIN clock : i # k => clock'[i] = clock[i]
  OBVIOUS
<1>4. \A i \in DOMAIN clock : i # k => said'[i] = said[i]
  BY RowsTyped DEF IInv, TypeOK
<1>5. DOMAIN clock' = DOMAIN clock
  OBVIOUS
<1> HIDE DEF left
<1>6. SweepOK(left, clock', said', now', overrun)
  BY <1>1, <1>2, <1>3, <1>4, <1>5 DEF SweepOK
<1> QED BY <1>2, <1>6 DEF left

LEMMA SweepWarnsSafe ==
  ASSUME IInv, NEW w \in Workers, SweepWarns(w)
  PROVE  IInv'
<1>1. PICK k \in sweep[w].todo :
        /\ clock' = [clock EXCEPT ![k] = Warned(clock[k])]
        /\ said' = [said EXCEPT ![k].warnings = @ + 1]
        /\ Sweeps(w, [sweep[w] EXCEPT !.todo = @ \ {k}])
  BY DEF SweepWarns
<1> DEFINE row == Warned(clock[k])
           s   == [said[k] EXCEPT !.warnings = @ + 1]
<1>2. ~overrun => said[k].warnings = 0
  BY ListedFacts DEF SweepWarns, SweepOK
<1>3. s \in Said /\ s.warnings = said[k].warnings + 1 /\ s.breaches = said[k].breaches /\ s.late = said[k].late
  BY <1>2, ListedFacts DEF Said
<1>4. row \in Clock
  BY ListedFacts DEF Warned, Clock
<1>5. row.warned
  BY ListedFacts DEF Warned, Clock
<1>6. row.breached = clock[k].breached
  BY ListedFacts DEF Warned, Clock
<1>7. /\ row.type = clock[k].type /\ row.startedAt = clock[k].startedAt /\ row.state = clock[k].state
      /\ row.dueAt = clock[k].dueAt /\ row.pausedMs = clock[k].pausedMs
      /\ row.pausedAt = clock[k].pausedAt /\ row.elapsedMs = clock[k].elapsedMs
  BY ListedFacts DEF Warned, Clock
<1>8. said' = [said EXCEPT ![k] = s] /\ clock' = [clock EXCEPT ![k] = row]
  BY <1>1
<1>9. sweep[w].pc # "idle" /\ Beside /\ UNCHANGED <<lock, overrun, now>>
  BY DEF SweepWarns, Beside
<1> HIDE DEF row, s
<1>10. Keeps(row, clock[k])
  BY <1>5, <1>6, <1>7 DEF Keeps
<1>11. RowOK(row, now)
  BY <1>7, ListedFacts DEF RowOK, Within, Granted
<1>12. SaidFits(s, row)
  BY <1>2, <1>3, <1>5, <1>6, <1>7, ListedFacts DEF SaidFits, Granted
<1> DEFINE left == [sweep[w] EXCEPT !.todo = @ \ {k}]
<1>13. left \in Sweep /\ left.pc = sweep[w].pc /\ SweepOK(left, clock', said', now', overrun)
  BY <1>8, <1>9, <1>10, LeftFits
<1>14. SweepOK(left, clock', said', now, overrun)
  BY <1>9, <1>13
<1>15. Sweeps(w, left) /\ k \in DOMAIN clock
  BY <1>1, ListedFacts
<1> HIDE DEF left
<1> QED BY <1>4, <1>8, <1>9, <1>10, <1>11, <1>12, <1>13, <1>14, <1>15, SweepWrites

LEMMA SweepBreachesSafe ==
  ASSUME IInv, NEW w \in Workers, SweepBreaches(w)
  PROVE  IInv'
<1>1. PICK k \in sweep[w].todo :
        /\ clock' = [clock EXCEPT ![k] = Breached(clock[k])]
        /\ said' = [said EXCEPT ![k].breaches = @ + 1]
        /\ Sweeps(w, [sweep[w] EXCEPT !.todo = @ \ {k}])
  BY DEF SweepBreaches
<1> DEFINE row == Breached(clock[k])
           s   == [said[k] EXCEPT !.breaches = @ + 1]
<1>2. (~overrun => said[k].breaches = 0) /\ Granted(clock[k]) <= now
  BY ListedFacts DEF SweepBreaches, SweepOK
<1>3. s \in Said /\ s.breaches = said[k].breaches + 1 /\ s.warnings = said[k].warnings /\ s.late = said[k].late
  BY <1>2, ListedFacts DEF Said
<1>4. row \in Clock /\ row.state = "breached"
  BY ListedFacts DEF Breached, Clock, States
<1>5. row.breached
  BY ListedFacts DEF Breached, Clock
<1>6. row.warned = clock[k].warned
  BY ListedFacts DEF Breached, Clock
<1>7. /\ row.type = clock[k].type /\ row.startedAt = clock[k].startedAt
      /\ row.dueAt = clock[k].dueAt /\ row.pausedMs = clock[k].pausedMs
      /\ row.pausedAt = clock[k].pausedAt
  BY ListedFacts DEF Breached, Clock
<1>8. said' = [said EXCEPT ![k] = s] /\ clock' = [clock EXCEPT ![k] = row]
  BY <1>1
<1>9. sweep[w].pc # "idle" /\ Beside /\ UNCHANGED <<lock, overrun, now>>
  BY DEF SweepBreaches, Beside
<1> HIDE DEF row, s
<1>10. Keeps(row, clock[k])
  BY <1>5, <1>6, <1>7 DEF Keeps
<1>11. RowOK(row, now)
  BY <1>4, <1>7, ListedFacts DEF RowOK, Within, Granted
<1>12. SaidFits(s, row)
  BY <1>2, <1>3, <1>5, <1>6, <1>7, ListedFacts DEF SaidFits, Granted
<1> DEFINE left == [sweep[w] EXCEPT !.todo = @ \ {k}]
<1>13. left \in Sweep /\ left.pc = sweep[w].pc /\ SweepOK(left, clock', said', now', overrun)
  BY <1>8, <1>9, <1>10, LeftFits
<1>14. SweepOK(left, clock', said', now, overrun)
  BY <1>9, <1>13
<1>15. Sweeps(w, left) /\ k \in DOMAIN clock
  BY <1>1, ListedFacts
<1> HIDE DEF left
<1> QED BY <1>4, <1>8, <1>9, <1>10, <1>11, <1>12, <1>13, <1>14, <1>15, SweepWrites

-----------------------------------------------------------------------------
(* The invariant.                                                          *)

\* Time passing makes nothing less true.
LEMMA TickSafe ==
  ASSUME IInv, Tick
  PROVE  IInv'
<1>1. now \in Nat /\ now' = now + 1 /\ now' \in Nat
  BY DEF IInv, TypeOK, Tick
<1>2. TypeOK'
  BY <1>1 DEF IInv, TypeOK, Tick
<1>3. RowsOK'
  <2> SUFFICES ASSUME NEW k \in DOMAIN clock PROVE RowOK(clock[k], now')
    BY DEF RowsOK, Tick
  <2>1. RowOK(clock[k], now) /\ clock[k] \in Clock
    BY RowsTyped DEF IInv, RowsOK
  <2>2. clock[k].startedAt \in Nat /\ clock[k].pausedAt \in Nat
    BY <2>1 DEF Clock
  <2> QED BY <1>1, <2>1, <2>2 DEF RowOK
<1>4. ListenersOK'
  <2> SUFFICES ASSUME NEW l \in Listeners PROVE SeenOK(job[l], clock) /\ DutyOK(job[l], now')
    BY DEF ListenersOK, Tick
  <2>1. job[l].at \in Nat
    BY DutyFacts DEF IsJob, Job
  <2> QED BY <1>1, <2>1, DutyFacts DEF DutyOK
<1>5. SweepsOK'
  <2> SUFFICES ASSUME NEW w \in Workers PROVE SweepOK(sweep[w], clock, said, now', overrun)
    BY DEF SweepsOK, Tick
  <2>1. SweepOK(sweep[w], clock, said, now, overrun) /\ sweep[w].at \in Nat
    BY DEF IInv, TypeOK, SweepsOK, Sweep
  <2>2. sweep[w].at <= now'
    BY <1>1, <2>1 DEF SweepOK
  <2>3. \A k \in sweep[w].todo : sweep[w].pc = "breach" => Granted(clock[k]) <= now'
    <3> SUFFICES ASSUME NEW k \in sweep[w].todo, sweep[w].pc = "breach"
                 PROVE  Granted(clock[k]) <= now'
      OBVIOUS
    <3>1. Granted(clock[k]) \in Nat /\ Granted(clock[k]) <= now
      BY <2>1, ListedFacts DEF SweepOK, RowOK, Within, Granted, Clock
    <3> QED BY <1>1, <3>1
  <2> QED BY <2>1, <2>2, <2>3 DEF SweepOK
<1>6. SaidOK'
  <2> SUFFICES ASSUME NEW k \in 1..MaxClocks, k \in DOMAIN clock,
                      Granted(clock[k]) <= now
               PROVE  Granted(clock[k]) <= now'
    BY DEF IInv, SaidOK, Tick
  <2>1. Granted(clock[k]) \in Nat
    BY RowsTyped DEF IInv, RowsOK, RowOK, Within, Granted, Clock
  <2> QED BY <1>1, <2>1
<1>7. Holder' /\ now' # 0
  BY <1>1 DEF IInv, Holder, Tick
<1> QED BY <1>2, <1>3, <1>4, <1>5, <1>6, <1>7 DEF IInv

LEMMA InitSafe == Init => IInv
<1> SUFFICES ASSUME Init PROVE IInv
  OBVIOUS
<1>1. \A l \in Listeners : IsJob(job[l]) /\ SeenOK(job[l], clock) /\ DutyOK(job[l], now)
  BY NoJobFits DEF Init
<1>2. NoSweep \in Sweep /\ \A w \in Workers : SweepOK(sweep[w], clock, said, now, overrun)
  BY DEF Init, NoSweep, Sweep, SweepOK
<1>3. Silent \in Said
  BY DEF Silent, Said
<1>4. clock \in Seq(Clock) /\ Len(clock) = 0 /\ DOMAIN clock = {}
  BY DEF Init
<1>5. TypeOK
  <2>1. job = [l \in Listeners |-> job[l]]
    BY DEF Init
  <2>2. /\ sweep \in [Workers -> Sweep] /\ said \in [1..MaxClocks -> Said]
        /\ now \in Nat /\ asked \in Nat /\ opened \in BOOLEAN /\ overrun \in BOOLEAN
    BY <1>2, <1>3 DEF Init
  <2>3. lock \in Workers \cup {NoWorker} /\ kind \in {"conversation", "ticket"}
    BY DEF Init
  <2> QED BY <1>1, <1>4, <2>1, <2>2, <2>3 DEF TypeOK
<1>6. RowsOK /\ now # 0
  BY <1>4 DEF Init, RowsOK
<1>7. SaidOK
  BY <1>4 DEF Init, SaidOK, Silent
<1>8. Holder
  BY DEF Init, Holder, NoSweep
<1> QED BY <1>1, <1>2, <1>5, <1>6, <1>7, <1>8 DEF IInv, ListenersOK, SweepsOK

LEMMA StepSafe == IInv /\ [Next]_vars => IInv'
<1> SUFFICES ASSUME IInv, [Next]_vars PROVE IInv'
  OBVIOUS
<1>1. ASSUME NEW l \in Listeners, Listens(l) PROVE IInv'
  BY <1>1, StartChecksSafe, StartCreatesSafe, CompleteReadsSafe, CompleteWritesSafe, PauseReadsSafe,
     PauseWritesSafe, ResumeReadsSafe, ResumeWritesSafe, CancelsSafe DEF Listens
<1>2. ASSUME NEW l \in Listeners, NEW e \in Events(kind), Delivers(l, e) PROVE IInv'
  BY <1>2, DeliversSafe
<1>3. ASSUME NEW w \in Workers, SweepStep(w) \/ SweepDies(w) PROVE IInv'
  BY <1>3, SweepBeginsSafe, SweepWarnsSafe, SweepTurnsSafe, SweepBreachesSafe, SweepStopsSafe
  DEF SweepStep
<1>4. CASE LockExpires
  BY <1>4, LockExpiresSafe
<1>5. CASE Tick
  BY <1>5, TickSafe
<1>6. CASE UNCHANGED vars
  BY <1>6 DEF vars, IInv, TypeOK, RowsOK, ListenersOK, Holder, SweepsOK, SaidOK
<1> QED BY <1>1, <1>2, <1>3, <1>4, <1>5, <1>6 DEF Next

\* Whatever the listeners read before they write, and however events, sweeps and
\* time interleave, the rows, the memories and the announcements fit together.
THEOREM Inductive == Spec => []IInv
<1> QED BY InitSafe, StepSafe, PTL DEF Spec

-----------------------------------------------------------------------------
(* What follows from it.                                                   *)

\* The rows, the listeners' and the sweeps' own state keep their types.
THEOREM TypeCorrect == Spec => []TypeOK
<1>1. IInv => TypeOK
  BY DEF IInv
<1> QED BY <1>1, Inductive, PTL

\* A clock says since when it is paused exactly while it is paused.
THEOREM PausesAreRecorded == Spec => []PauseRecorded
<1>1. IInv => PauseRecorded
  BY DEF IInv, RowsOK, RowOK, PauseRecorded
<1> QED BY <1>1, Inductive, PTL

\* No pause moves a deadline out by more than the time it lasted.
THEOREM CreditIsWithinPause == Spec => []CreditWithinPause
<1>1. IInv => CreditWithinPause
  BY DEF IInv, RowsOK, RowOK, Within, Granted, CreditWithinPause
<1> QED BY <1>1, Inductive, PTL

\* A clock is counted as met only if the working time it took fits its target.
THEOREM MetMeansWithinTarget == Spec => []MetWithinTarget
<1>1. IInv => MetWithinTarget
  BY DEF IInv, RowsOK, RowOK, MetWithinTarget
<1> QED BY <1>1, Inductive, PTL

\* No breach is recorded or announced before the time granted has passed.
THEOREM BreachMeansLate == Spec => []BreachIsLate
<1>1. IInv => BreachIsLate
  <2> SUFFICES ASSUME IInv, NEW k \in DOMAIN clock,
                      clock[k].state = "breached" \/ said[k].breaches + said[k].late > 0
               PROVE  now >= Granted(clock[k])
    BY DEF BreachIsLate, Granted
  <2>1. k \in 1..MaxClocks /\ clock[k] \in Clock /\ RowOK(clock[k], now) /\ now \in Nat
    BY RowsTyped DEF IInv, RowsOK, TypeOK
  <2>2. Granted(clock[k]) <= now
    BY <2>1 DEF IInv, SaidOK
  <2>3. Granted(clock[k]) \in Nat
    BY <2>1 DEF RowOK, Within, Granted, Clock
  <2> QED BY <2>1, <2>2, <2>3
<1> QED BY <1>1, Inductive, PTL

\* As long as no sweep outlives its lock, the sweeps announce one warning and one breach
\* of a clock at most.
THEOREM SweepsAnnounceOnce == Spec => []SweepAnnouncesOnce
<1>1. IInv => SweepAnnouncesOnce
  BY RowsTyped DEF IInv, SaidOK, SweepAnnouncesOnce
<1> QED BY <1>1, Inductive, PTL

-----------------------------------------------------------------------------
(* Tickets, the roster, presence and scores move by themselves.            *)

LEMMA StartsEveryPart == AllInit => Init /\ T!Init /\ R!Init /\ P!Init /\ Q!Init
  BY Zenon DEF AllInit

LEMMA StepsOnePart == [AllNext]_AllVars =>
  /\ Next \/ UNCHANGED vars
  /\ T!Next \/ UNCHANGED ticketVars
  /\ R!Next \/ UNCHANGED rosterVars
  /\ P!Next \/ UNCHANGED presenceVars
  /\ Q!Next \/ UNCHANGED qualityVars
  BY Zenon DEF AllNext, AllVars

-----------------------------------------------------------------------------
(* Evaluations and their disputes.                                         *)

\* What an evaluation and a request are made of; nothing is asked of their scores.
IsEvaluation(e) ==
  e \in [kind : {e.kind}, marks : {e.marks}, score : {e.score}, passed : {e.passed}, status : {e.status}]
IsGrade(j) == j \in [op : {j.op}, pc : {j.pc}, of : {j.of}, score : {j.score}, passing : {j.passing}]
IsList(s) == s \in Seq({s[i] : i \in DOMAIN s})

\* A request at work on an evaluation is at work on one that is there; whoever raises a
\* dispute has made it, and whoever resolves one has found it.
GradeOK(j) ==
  \/ j = Q!Idle
  \/ j.op \in {"ai", "manual"} /\ j.pc = "judge" /\ j.of = 0
  \/ /\ \/ j.op = "raise" /\ j.pc = "status"
        \/ j.op = "resolve" /\ j.pc \in {"final", "template", "score"}
     /\ j.of \in 1 .. Len(evaluations)
     /\ \E d \in 1 .. Len(disputes) : disputes[d].of = j.of

\* Two requests about one evaluation cross; one alone knows whether a dispute is open.
GradedAlone ==
  \A q, r \in Listeners : q # r /\ grading[q].of = grading[r].of /\ grading[q].of # 0
                            => grading[q].of \in crossed
GradeSees ==
  \A r \in Listeners : LET e == grading[r].of IN
    /\ grading[r].op = "raise" => e \in crossed \/ Q!OpenOf(e) # {}
    /\ grading[r].op = "resolve" => e \in crossed \/ Q!OpenOf(e) = {}

QualInv ==
  /\ IsList(evaluations) /\ \A e \in DOMAIN evaluations : IsEvaluation(evaluations[e])
  /\ disputes \in Seq([of : 1 .. Len(evaluations), open : BOOLEAN])
  /\ grading \in [Listeners -> {grading[r] : r \in Listeners}]
  /\ \A r \in Listeners : IsGrade(grading[r]) /\ GradeOK(grading[r])
  /\ GradedAlone
  /\ GradeSees
  /\ Q!StatusFollowsDisputes
  /\ Q!CriticalIsNotAveragedAway

LEMMA WidenedSeq == ASSUME NEW S, NEW s \in Seq(S), NEW t, S \subseteq t PROVE s \in Seq(t)
<1>1. Len(s) \in Nat /\ s = [i \in 1 .. Len(s) |-> s[i]] /\ \A i \in 1 .. Len(s) : s[i] \in t
  OBVIOUS
<1> QED BY <1>1

LEMMA ListOf == ASSUME NEW S, NEW s \in Seq(S) PROVE IsList(s) /\ \A i \in DOMAIN s : s[i] \in S
  BY DEF IsList

LEMMA AppendIs ==
  ASSUME NEW s, IsList(s), NEW x
  PROVE  /\ Len(Append(s, x)) = Len(s) + 1 /\ IsList(Append(s, x))
         /\ \A i \in 1 .. Len(s) : Append(s, x)[i] = s[i]
         /\ Append(s, x)[Len(s) + 1] = x
<1> DEFINE S == {s[i] : i \in DOMAIN s}
           t == Append(s, x)
<1>1. s \in Seq(S) /\ s \in Seq(S \cup {x})
  BY DEF IsList
<1> HIDE DEF S
<1>2. /\ t \in Seq(S \cup {x}) /\ Len(t) = Len(s) + 1 /\ DOMAIN t = 1 .. Len(s) + 1
      /\ \A i \in 1 .. Len(s) : t[i] = s[i]
      /\ t[Len(s) + 1] = x
  BY <1>1
<1>3. IsList(t)
  BY <1>2, ListOf
<1> QED BY <1>2, <1>3

LEMMA QualInit == Q!Init => QualInv
<1> SUFFICES ASSUME Q!Init PROVE QualInv
  OBVIOUS
<1>1. /\ evaluations = <<>> /\ disputes = <<>> /\ crossed = {}
      /\ grading = [r \in Listeners |-> Q!Idle]
  BY DEF Q!Init
<1>2. IsList(evaluations) /\ DOMAIN evaluations = {} /\ Len(evaluations) = 0 /\ Len(disputes) = 0
  BY <1>1 DEF IsList
<1>3. disputes \in Seq([of : 1 .. Len(evaluations), open : BOOLEAN])
  BY <1>1
<1>4. \A r \in Listeners : IsGrade(grading[r]) /\ GradeOK(grading[r]) /\ grading[r].of = 0 /\ grading[r].op = "none"
  BY <1>1 DEF IsGrade, GradeOK, Q!Idle
<1>5. GradedAlone /\ GradeSees
  BY <1>4 DEF GradedAlone, GradeSees
<1>6. Q!StatusFollowsDisputes /\ Q!CriticalIsNotAveragedAway
  BY <1>2 DEF Q!StatusFollowsDisputes, Q!CriticalIsNotAveragedAway
<1> QED BY <1>1, <1>2, <1>3, <1>4, <1>5, <1>6 DEF QualInv

\* What a request of the graders becomes, and what the others stay.
LEMMA AGradeMoves ==
  ASSUME QualInv, NEW r \in Listeners, NEW j, IsGrade(j), grading' = [grading EXCEPT ![r] = j]
  PROVE  /\ grading' \in [Listeners -> {grading'[q] : q \in Listeners}]
         /\ \A q \in Listeners : IsGrade(grading'[q]) /\ grading'[q] = IF q = r THEN j ELSE grading[q]
  BY DEF QualInv

\* A request that begins or reads concerns no evaluation's status.
LEMMA QualByReading ==
  ASSUME QualInv, NEW r \in Listeners, NEW j, IsGrade(j), grading' = [grading EXCEPT ![r] = j],
         UNCHANGED <<evaluations, disputes, crossed>>,
         GradeOK(j), j.of = grading[r].of, j.op = grading[r].op \/ j.op \notin {"raise", "resolve"}
  PROVE  QualInv'
<1>1. /\ grading' \in [Listeners -> {grading'[q] : q \in Listeners}]
      /\ \A q \in Listeners : IsGrade(grading'[q]) /\ grading'[q] = IF q = r THEN j ELSE grading[q]
  BY AGradeMoves
<1>2. Q!StatusFollowsDisputes'
  BY <1>1 DEF QualInv, Q!StatusFollowsDisputes, Q!OpenOf
<1>3. Q!CriticalIsNotAveragedAway'
  BY DEF QualInv, Q!CriticalIsNotAveragedAway
<1>4. (\A q \in Listeners : GradeOK(grading[q]))'
  BY <1>1 DEF QualInv, GradeOK, Q!Idle
<1>5. GradedAlone' /\ GradeSees'
  BY <1>1 DEF QualInv, GradedAlone, GradeSees, Q!OpenOf
<1> QED BY <1>1, <1>2, <1>3, <1>4, <1>5 DEF QualInv

LEMMA QualByTemplate == ASSUME QualInv, UNCHANGED <<evaluations, disputes, grading, crossed>> PROVE QualInv'
<1>1. Q!StatusFollowsDisputes' /\ Q!CriticalIsNotAveragedAway'
  BY DEF QualInv, Q!StatusFollowsDisputes, Q!CriticalIsNotAveragedAway, Q!OpenOf
<1>2. (\A q \in Listeners : GradeOK(grading[q]))'
  BY DEF QualInv, GradeOK
<1>3. GradedAlone' /\ GradeSees'
  BY DEF QualInv, GradedAlone, GradeSees, Q!OpenOf
<1> QED BY <1>1, <1>2, <1>3 DEF QualInv

\* A request that writes its evaluation is done with it.
LEMMA QualByWriting ==
  ASSUME QualInv, NEW r \in Listeners, NEW e \in 1 .. Len(evaluations), NEW x, IsEvaluation(x),
         grading[r].op \in {"raise", "resolve"}, grading[r].of = e,
         grading' = [grading EXCEPT ![r] = Q!Idle],
         evaluations' = [evaluations EXCEPT ![e] = x],
         UNCHANGED <<disputes, crossed>>,
         e \in crossed \/ (x.status = "disputed" <=> Q!OpenOf(e) # {})
  PROVE  QualInv'
<1>1. /\ grading' \in [Listeners -> {grading'[q] : q \in Listeners}]
      /\ \A q \in Listeners : IsGrade(grading'[q]) /\ grading'[q] = IF q = r THEN Q!Idle ELSE grading[q]
  <2>1. IsGrade(Q!Idle)
    BY DEF IsGrade, Q!Idle
  <2> QED BY <2>1, AGradeMoves
<1>2. /\ Len(evaluations') = Len(evaluations) /\ IsList(evaluations')
      /\ DOMAIN evaluations' = DOMAIN evaluations /\ DOMAIN evaluations = 1 .. Len(evaluations)
      /\ \A f \in DOMAIN evaluations : evaluations'[f] = IF f = e THEN x ELSE evaluations[f]
  <2> IsList(evaluations)
    BY DEF QualInv
  <2> DEFINE S == {evaluations[i] : i \in DOMAIN evaluations}
  <2>1. evaluations \in Seq(S) /\ evaluations \in Seq(S \cup {x})
    BY DEF IsList
  <2> HIDE DEF S
  <2>2. /\ evaluations' \in Seq(S \cup {x}) /\ Len(evaluations') = Len(evaluations)
        /\ DOMAIN evaluations' = DOMAIN evaluations /\ DOMAIN evaluations = 1 .. Len(evaluations)
        /\ \A f \in DOMAIN evaluations : evaluations'[f] = IF f = e THEN x ELSE evaluations[f]
    BY <2>1
  <2>3. IsList(evaluations')
    BY <2>2, ListOf
  <2> QED BY <2>2, <2>3
<1>3. \A f \in DOMAIN evaluations' : IsEvaluation(evaluations'[f])
  BY <1>2 DEF QualInv
<1>4. Q!StatusFollowsDisputes'
  <2>1. ASSUME NEW f \in DOMAIN evaluations, f # e, NEW q \in Listeners, grading[q].of = f PROVE grading'[q].of = f
    BY <1>1, <2>1
  <2>2. \A f : Q!OpenOf(f)' = Q!OpenOf(f)
    BY DEF Q!OpenOf
  <2> QED BY <1>2, <2>1, <2>2 DEF QualInv, Q!StatusFollowsDisputes
<1>5. \E d \in DOMAIN disputes : disputes[d].of = e
  <2>1. GradeOK(grading[r]) /\ DOMAIN disputes = 1 .. Len(disputes)
    BY DEF QualInv
  <2> QED BY <2>1 DEF GradeOK, Q!Idle
<1>6. Q!CriticalIsNotAveragedAway'
  BY <1>1, <1>2, <1>5 DEF QualInv, Q!CriticalIsNotAveragedAway
<1>7. (\A q \in Listeners : GradeOK(grading[q]))'
  BY <1>1, <1>2 DEF QualInv, GradeOK
<1>8. GradedAlone' /\ GradeSees'
  BY <1>1 DEF QualInv, GradedAlone, GradeSees, Q!OpenOf, Q!Idle
<1>9. disputes' \in Seq([of : 1 .. Len(evaluations'), open : BOOLEAN])
  BY <1>2 DEF QualInv
<1> QED BY <1>1, <1>2, <1>3, <1>4, <1>6, <1>7, <1>8, <1>9 DEF QualInv

LEMMA QualByEvaluating == ASSUME QualInv, NEW r \in Listeners, Q!Evaluates(r) PROVE QualInv'
<1>1. PICK marks \in [DOMAIN Criteria -> Marks] :
        LET total == IF grading[r].op = "ai" THEN Q!Overall(marks) ELSE Q!Weighted(marks) IN
        evaluations' = Append(evaluations,
          [kind |-> grading[r].op, marks |-> marks, score |-> total, passed |-> total >= grading[r].passing,
           status |-> "final"])
  BY DEF Q!Evaluates
<1> DEFINE total == IF grading[r].op = "ai" THEN Q!Overall(marks) ELSE Q!Weighted(marks)
           x == [kind |-> grading[r].op, marks |-> marks, score |-> total,
                 passed |-> total >= grading[r].passing, status |-> "final"]
<1>2. evaluations' = Append(evaluations, x) /\ IsEvaluation(x) /\ x.status = "final"
  BY <1>1 DEF IsEvaluation
<1>3. x.kind = "ai" /\ Q!FailedCritical(x.marks) # {} => x.score < 50
  BY DEF Q!Overall
<1> HIDE DEF x
<1>4. /\ grading[r].pc = "judge" /\ grading' = [grading EXCEPT ![r] = Q!Idle]
      /\ UNCHANGED <<disputes, crossed>>
  BY DEF Q!Evaluates
<1>5. /\ grading' \in [Listeners -> {grading'[q] : q \in Listeners}]
      /\ \A q \in Listeners : IsGrade(grading'[q]) /\ grading'[q] = IF q = r THEN Q!Idle ELSE grading[q]
  <2>1. IsGrade(Q!Idle)
    BY DEF IsGrade, Q!Idle
  <2> QED BY <1>4, <2>1, AGradeMoves
<1>6. /\ IsList(evaluations') /\ Len(evaluations') = Len(evaluations) + 1
      /\ \A i \in 1 .. Len(evaluations) : evaluations'[i] = evaluations[i]
      /\ evaluations'[Len(evaluations) + 1] = x
  BY <1>2, AppendIs DEF QualInv
<1>7. /\ DOMAIN evaluations' = 1 .. Len(evaluations) + 1 /\ DOMAIN evaluations = 1 .. Len(evaluations)
      /\ Len(evaluations) \in Nat
  BY <1>6 DEF IsList, QualInv
<1>8. disputes' \in Seq([of : 1 .. Len(evaluations'), open : BOOLEAN])
  <2>1. [of : 1 .. Len(evaluations), open : BOOLEAN] \subseteq [of : 1 .. Len(evaluations'), open : BOOLEAN]
    BY <1>6, <1>7
  <2>2. disputes \in Seq([of : 1 .. Len(evaluations), open : BOOLEAN])
    BY DEF QualInv
  <2> QED BY <2>1, <2>2, <1>4, WidenedSeq
<1>9. \A f \in DOMAIN evaluations' : f \in DOMAIN evaluations \/ f = Len(evaluations) + 1
  BY <1>7
<1>10. \A f \in DOMAIN evaluations' : IsEvaluation(evaluations'[f])
  BY <1>2, <1>6, <1>7, <1>9 DEF QualInv
<1>11. Q!OpenOf(Len(evaluations) + 1) = {}
  <2> disputes \in Seq([of : 1 .. Len(evaluations), open : BOOLEAN])
    BY DEF QualInv
  <2>1. \A d \in DOMAIN disputes : disputes[d].of \in 1 .. Len(evaluations)
    <3>1. \A d \in DOMAIN disputes : disputes[d] \in [of : 1 .. Len(evaluations), open : BOOLEAN]
      BY ListOf
    <3> QED BY <3>1
  <2> QED BY <1>7, <2>1 DEF Q!OpenOf
<1>12. Q!StatusFollowsDisputes'
  <2>1. ASSUME NEW f \in DOMAIN evaluations, NEW q \in Listeners, grading[q].of = f PROVE grading'[q].of = f
    <3> GradeOK(grading[r])
      BY DEF QualInv
    <3>1. grading[r].of = 0
      BY <1>4 DEF GradeOK, Q!Idle
    <3> QED BY <1>5, <1>7, <2>1, <3>1
  <2>2. \A f : Q!OpenOf(f)' = Q!OpenOf(f)
    BY <1>4 DEF Q!OpenOf
  <2>3. evaluations'[Len(evaluations) + 1].status = "final"
    BY <1>2, <1>6
  <2>4. Q!OpenOf(Len(evaluations) + 1) = {}
    BY <1>11
  <2>5. ASSUME NEW f \in DOMAIN evaluations
        PROVE  \/ evaluations'[f].status = "disputed" <=> Q!OpenOf(f) # {}
               \/ f \in crossed \/ \E q \in Listeners : grading'[q].of = f
    BY <1>6, <1>7, <2>1 DEF QualInv, Q!StatusFollowsDisputes
  <2>6. ASSUME NEW f \in DOMAIN evaluations'
        PROVE  \/ evaluations'[f].status = "disputed" <=> Q!OpenOf(f) # {}
               \/ f \in crossed \/ \E q \in Listeners : grading'[q].of = f
    BY <1>9, <2>3, <2>4, <2>5
  <2> QED BY <1>4, <2>2, <2>6 DEF Q!StatusFollowsDisputes
<1>13. Q!CriticalIsNotAveragedAway'
  BY <1>3, <1>4, <1>6, <1>7, <1>9 DEF QualInv, Q!CriticalIsNotAveragedAway, Q!FailedCritical
<1>14. (\A q \in Listeners : GradeOK(grading[q]))'
  <2>1. 1 .. Len(evaluations) \subseteq 1 .. Len(evaluations')
    BY <1>6, <1>7
  <2> QED BY <1>4, <1>5, <2>1 DEF QualInv, GradeOK
<1>15. GradedAlone' /\ GradeSees'
  BY <1>4, <1>5 DEF QualInv, GradedAlone, GradeSees, Q!OpenOf, Q!Idle
<1> QED BY <1>5, <1>6, <1>8, <1>10, <1>12, <1>13, <1>14, <1>15 DEF QualInv

LEMMA QualByDisputing == ASSUME QualInv, NEW r \in Listeners, Q!CreatesDispute(r) PROVE QualInv'
<1>1. PICK e \in DOMAIN evaluations :
        /\ disputes' = Append(disputes, [of |-> e, open |-> TRUE])
        /\ grading' = [grading EXCEPT ![r] = [Q!Idle EXCEPT !.op = "raise", !.pc = "status", !.of = e]]
        /\ crossed' = IF Q!Others(r, e) # {} \/ Q!OpenOf(e) # {} THEN crossed \cup {e} ELSE crossed
  BY DEF Q!CreatesDispute
<1> DEFINE j == [Q!Idle EXCEPT !.op = "raise", !.pc = "status", !.of = e]
<1>2. IsGrade(j) /\ j.op = "raise" /\ j.pc = "status" /\ j.of = e
  BY DEF IsGrade, Q!Idle
<1>3. grading' = [grading EXCEPT ![r] = j]
  BY <1>1
<1> HIDE DEF j
<1>4. UNCHANGED evaluations /\ grading[r] = Q!Idle
  BY DEF Q!CreatesDispute
<1>5. /\ grading' \in [Listeners -> {grading'[q] : q \in Listeners}]
      /\ \A q \in Listeners : IsGrade(grading'[q]) /\ grading'[q] = IF q = r THEN j ELSE grading[q]
  BY <1>2, <1>3, AGradeMoves
<1> DEFINE new == [of |-> e, open |-> TRUE]
           D == [of : 1 .. Len(evaluations), open : BOOLEAN]
<1>6. disputes \in Seq(D) /\ e \in 1 .. Len(evaluations) /\ DOMAIN evaluations = 1 .. Len(evaluations)
  BY DEF QualInv, IsList
<1>7. new \in D /\ new.of = e /\ new.open = TRUE
  BY <1>6
<1> HIDE DEF new, D
<1>8. /\ disputes' \in Seq(D) /\ Len(disputes') = Len(disputes) + 1 /\ Len(disputes) \in Nat
      /\ DOMAIN disputes = 1 .. Len(disputes) /\ DOMAIN disputes' = 1 .. Len(disputes) + 1
      /\ \A d \in DOMAIN disputes : disputes'[d] = disputes[d]
      /\ disputes'[Len(disputes) + 1] = new
  BY <1>1, <1>6, <1>7 DEF new
<1>9. /\ \A d \in DOMAIN disputes : d \in DOMAIN disputes'
      /\ Len(disputes) + 1 \in DOMAIN disputes'
      /\ \A d \in DOMAIN disputes' : d \in DOMAIN disputes \/ d = Len(disputes) + 1
  BY <1>8
<1>10. Q!OpenOf(e)' # {} /\ \A f \in DOMAIN evaluations : f # e => Q!OpenOf(f)' = Q!OpenOf(f)
  BY <1>7, <1>8, <1>9 DEF Q!OpenOf
<1>11. crossed \subseteq crossed' /\ crossed' \subseteq crossed \cup {e}
  BY <1>1
<1>12. \A q \in Listeners : q # r /\ grading[q].of = e => e \in crossed'
  BY <1>1 DEF Q!Others
<1>13. Q!StatusFollowsDisputes'
  <2>1. ASSUME NEW f \in DOMAIN evaluations, f # e, NEW q \in Listeners, grading[q].of = f PROVE grading'[q].of = f
    <3>1. grading[r].of = 0
      BY <1>4 DEF Q!Idle
    <3> QED BY <1>5, <1>6, <2>1, <3>1
  <2>2. grading'[r].of = e
    BY <1>2, <1>5
  <2>3. ASSUME NEW f \in DOMAIN evaluations, f # e
        PROVE  \/ evaluations[f].status = "disputed" <=> Q!OpenOf(f)' # {}
               \/ f \in crossed' \/ \E q \in Listeners : grading'[q].of = f
    BY <1>10, <1>11, <2>1, <2>3 DEF QualInv, Q!StatusFollowsDisputes
  <2> QED BY <1>4, <2>2, <2>3 DEF Q!StatusFollowsDisputes
<1>14. Q!CriticalIsNotAveragedAway'
  <2>1. ASSUME NEW f \in DOMAIN evaluations, \E d \in DOMAIN disputes : disputes[d].of = f
        PROVE  \E d \in DOMAIN disputes' : disputes'[d].of = f
    BY <1>8, <1>9, <2>1
  <2> QED BY <1>4, <2>1 DEF QualInv, Q!CriticalIsNotAveragedAway, Q!FailedCritical
<1>15. (\A q \in Listeners : GradeOK(grading[q]))'
  <2>1. ASSUME NEW q \in Listeners, q # r PROVE GradeOK(grading[q])'
    <3>1. GradeOK(grading[q]) /\ grading'[q] = grading[q]
      BY <1>5, <2>1 DEF QualInv
    <3> QED BY <1>4, <1>8, <1>9, <3>1 DEF GradeOK
  <2>2. GradeOK(grading[r])'
    BY <1>2, <1>4, <1>5, <1>6, <1>7, <1>8, <1>9 DEF GradeOK
  <2> QED BY <2>1, <2>2
<1>16. GradedAlone'
  <2>1. GradedAlone
    BY DEF QualInv
  <2>2. \A q \in Listeners : grading'[q].of = IF q = r THEN e ELSE grading[q].of
    BY <1>2, <1>5
  <2> QED BY <1>11, <1>12, <2>1, <2>2 DEF GradedAlone
<1>17. GradeSees'
  <2>1. ASSUME NEW q \in Listeners, q # r, grading[q].op \in {"raise", "resolve"}
        PROVE  grading[q].of \in DOMAIN evaluations
    <3> GradeOK(grading[q])
      BY DEF QualInv
    <3> QED BY <1>6, <2>1 DEF GradeOK, Q!Idle
  <2> QED BY <1>2, <1>5, <1>10, <1>11, <1>12, <2>1 DEF QualInv, GradeSees
<1>18. disputes' \in Seq([of : 1 .. Len(evaluations'), open : BOOLEAN])
  BY <1>4, <1>8 DEF D
<1> QED BY <1>4, <1>5, <1>13, <1>14, <1>15, <1>16, <1>17, <1>18 DEF QualInv

LEMMA QualByResolving == ASSUME QualInv, NEW r \in Listeners, Q!ResolvesDispute(r) PROVE QualInv'
<1>1. PICK d \in DOMAIN disputes, s \in Marks \cup {Nobody} :
        /\ disputes' = [disputes EXCEPT ![d].open = FALSE]
        /\ grading' = [grading EXCEPT ![r] = [Q!Idle EXCEPT !.op = "resolve", !.of = disputes[d].of, !.score = s,
                                               !.pc = IF s = Nobody THEN "final" ELSE "template"]]
        /\ LET e == disputes[d].of IN
           crossed' = IF Q!Others(r, e) # {} \/ Q!OpenOf(e) \ {d} # {} THEN crossed \cup {e} ELSE crossed
  BY DEF Q!ResolvesDispute
<1>0. PICK e : e = disputes[d].of
  OBVIOUS
<1> DEFINE j == [Q!Idle EXCEPT !.op = "resolve", !.of = e, !.score = s,
                               !.pc = IF s = Nobody THEN "final" ELSE "template"]
           D == [of : 1 .. Len(evaluations), open : BOOLEAN]
<1>2. IsGrade(j) /\ j.op = "resolve" /\ j.pc \in {"final", "template"} /\ j.of = e
  BY DEF IsGrade, Q!Idle
<1>3. grading' = [grading EXCEPT ![r] = j]
  BY <1>0, <1>1
<1>4. UNCHANGED evaluations /\ grading[r] = Q!Idle
  BY DEF Q!ResolvesDispute
<1> HIDE DEF j
<1>5. /\ grading' \in [Listeners -> {grading'[q] : q \in Listeners}]
      /\ \A q \in Listeners : IsGrade(grading'[q]) /\ grading'[q] = IF q = r THEN j ELSE grading[q]
  BY <1>2, <1>3, AGradeMoves
<1>6. disputes \in Seq(D) /\ DOMAIN evaluations = 1 .. Len(evaluations)
  BY DEF QualInv, IsList
<1> HIDE DEF D
<1>7. /\ disputes' \in Seq(D) /\ DOMAIN disputes' = DOMAIN disputes /\ Len(disputes') = Len(disputes)
      /\ disputes'[d].open = FALSE /\ \A c \in DOMAIN disputes : disputes'[c].of = disputes[c].of
      /\ \A c \in DOMAIN disputes : c # d => disputes'[c] = disputes[c]
      /\ DOMAIN disputes = 1 .. Len(disputes)
  <2>1. /\ \A c \in DOMAIN disputes : disputes[c] \in D
        /\ DOMAIN disputes = 1 .. Len(disputes) /\ Len(disputes) \in Nat
    BY <1>6, ListOf
  <2>2. disputes' = [disputes EXCEPT ![d] = [disputes[d] EXCEPT !.open = FALSE]]
    BY <1>1
  <2>3. [disputes[d] EXCEPT !.open = FALSE] \in D /\ [disputes[d] EXCEPT !.open = FALSE].of = disputes[d].of
        /\ [disputes[d] EXCEPT !.open = FALSE].open = FALSE
    BY <2>1 DEF D
  <2> QED BY <1>6, <2>1, <2>2, <2>3
<1>8. e \in DOMAIN evaluations
  <2>1. disputes[d] \in D
    BY <1>6, ListOf
  <2> QED BY <1>0, <1>6, <2>1 DEF D
<1>9. /\ \A f : f # e => Q!OpenOf(f)' = Q!OpenOf(f)
      /\ Q!OpenOf(e)' = Q!OpenOf(e) \ {d}
  BY <1>0, <1>7 DEF Q!OpenOf
<1>10. crossed \subseteq crossed' /\ crossed' \subseteq crossed \cup {e}
       /\ (Q!OpenOf(e) \ {d} # {} => e \in crossed')
  BY <1>0, <1>1
<1>11. \A q \in Listeners : q # r /\ grading[q].of = e => e \in crossed'
  BY <1>0, <1>1 DEF Q!Others
<1>12. Q!StatusFollowsDisputes'
  <2>1. ASSUME NEW f \in DOMAIN evaluations, f # e, NEW q \in Listeners, grading[q].of = f PROVE grading'[q].of = f
    <3>1. grading[r].of = 0
      BY <1>4 DEF Q!Idle
    <3> QED BY <1>5, <1>6, <2>1, <3>1
  <2>2. grading'[r].of = e
    BY <1>2, <1>5
  <2>3. ASSUME NEW f \in DOMAIN evaluations, f # e
        PROVE  \/ evaluations[f].status = "disputed" <=> Q!OpenOf(f)' # {}
               \/ f \in crossed' \/ \E q \in Listeners : grading'[q].of = f
    BY <1>9, <1>10, <2>1, <2>3 DEF QualInv, Q!StatusFollowsDisputes
  <2> QED BY <1>4, <2>2, <2>3 DEF Q!StatusFollowsDisputes
<1>13. Q!CriticalIsNotAveragedAway'
  BY <1>4, <1>7 DEF QualInv, Q!CriticalIsNotAveragedAway, Q!FailedCritical
<1>14. (\A q \in Listeners : GradeOK(grading[q]))'
  <2>1. ASSUME NEW q \in Listeners, q # r PROVE GradeOK(grading[q])'
    <3>1. GradeOK(grading[q]) /\ grading'[q] = grading[q]
      BY <1>5, <2>1 DEF QualInv
    <3> QED BY <1>4, <1>7, <3>1 DEF GradeOK
  <2>2. GradeOK(grading[r])'
    BY <1>2, <1>4, <1>5, <1>6, <1>7, <1>8, <1>0 DEF GradeOK
  <2> QED BY <2>1, <2>2
<1>15. GradedAlone'
  BY <1>2, <1>5, <1>10, <1>11 DEF QualInv, GradedAlone
<1>16. GradeSees'
  <2>1. ASSUME NEW q \in Listeners, NEW f, f = grading'[q].of
        PROVE  /\ grading'[q].op = "raise" => f \in crossed' \/ Q!OpenOf(f)' # {}
               /\ grading'[q].op = "resolve" => f \in crossed' \/ Q!OpenOf(f)' = {}
    <3>1. CASE q = r
      <4>1. f = e /\ grading'[q].op = "resolve"
        BY <1>2, <1>5, <2>1, <3>1
      <4> QED BY <1>9, <1>10, <4>1
    <3>2. CASE q # r /\ f = e
      <4>1. grading[q].of = e
        BY <1>5, <2>1, <3>2
      <4> QED BY <1>11, <3>2, <4>1
    <3>3. CASE q # r /\ f # e
      <4>1. grading'[q] = grading[q] /\ Q!OpenOf(f)' = Q!OpenOf(f)
        BY <1>5, <1>9, <2>1, <3>3
      <4>2. /\ grading[q].op = "raise" => f \in crossed \/ Q!OpenOf(f) # {}
            /\ grading[q].op = "resolve" => f \in crossed \/ Q!OpenOf(f) = {}
        BY <2>1, <4>1 DEF QualInv, GradeSees
      <4> QED BY <1>10, <4>1, <4>2
    <3> QED BY <3>1, <3>2, <3>3
  <2> QED BY <2>1 DEF GradeSees, Q!OpenOf
<1>17. disputes' \in Seq([of : 1 .. Len(evaluations'), open : BOOLEAN])
  BY <1>4, <1>7 DEF D
<1> QED BY <1>4, <1>5, <1>12, <1>13, <1>14, <1>15, <1>16, <1>17 DEF QualInv

LEMMA QualNext == QualInv /\ (Q!Next \/ UNCHANGED qualityVars) => QualInv'
<1> SUFFICES ASSUME QualInv, Q!Next \/ UNCHANGED qualityVars PROVE QualInv'
  OBVIOUS
<1>1. CASE UNCHANGED qualityVars
  BY <1>1, QualByTemplate DEF qualityVars
<1>2. CASE Q!UpdateTemplate
  BY <1>2, QualByTemplate DEF Q!UpdateTemplate
<1>3. ASSUME NEW r \in Listeners, NEW how \in {"ai", "manual"}, Q!ReadsTemplate(r, how) PROVE QualInv'
  <2> DEFINE j == [Q!Idle EXCEPT !.op = how, !.pc = "judge", !.passing = passingScore]
  <2>1. IsGrade(j) /\ GradeOK(j) /\ j.of = 0 /\ j.op = how
    BY DEF IsGrade, GradeOK, Q!Idle
  <2>2. /\ grading' = [grading EXCEPT ![r] = j] /\ UNCHANGED <<evaluations, disputes, crossed>>
        /\ grading[r].of = 0
    BY <1>3 DEF Q!ReadsTemplate, Q!Idle
  <2> HIDE DEF j
  <2> QED BY <2>1, <2>2, QualByReading
<1>4. ASSUME NEW r \in Listeners, Q!ReadsPassingScore(r) PROVE QualInv'
  <2>1. IsGrade(grading[r]) /\ GradeOK(grading[r]) /\ grading[r].pc = "template" /\ DOMAIN grading = Listeners
    BY <1>4 DEF QualInv, Q!ReadsPassingScore
  <2>2. PICK j : j = [[grading[r] EXCEPT !.pc = "score"] EXCEPT !.passing = passingScore]
    OBVIOUS
  <2>3. IsGrade(j) /\ j.of = grading[r].of /\ j.op = grading[r].op /\ j.pc = "score"
    BY <2>1, <2>2 DEF IsGrade
  <2>4. GradeOK(j)
    BY <2>1, <2>3 DEF GradeOK, Q!Idle
  <2>5. grading' = [grading EXCEPT ![r] = j] /\ UNCHANGED <<evaluations, disputes, crossed>>
    BY <1>4, <2>1, <2>2 DEF Q!ReadsPassingScore
  <2> QED BY <2>3, <2>4, <2>5, QualByReading
<1>5. ASSUME NEW r \in Listeners, Q!MarksDisputed(r) \/ Q!WritesScore(r) \/ Q!WritesFinal(r) PROVE QualInv'
  <2>1. GradeOK(grading[r])
    BY DEF QualInv
  <2>2. PICK e \in 1 .. Len(evaluations) : e = grading[r].of
    BY <1>5, <2>1 DEF GradeOK, Q!Idle, Q!MarksDisputed, Q!WritesScore, Q!WritesFinal
  <2>3. IsEvaluation(evaluations[e]) /\ DOMAIN evaluations = 1 .. Len(evaluations)
    BY DEF QualInv, IsList
  <2>4. CASE Q!MarksDisputed(r)
    <3>1. PICK x : x = [evaluations[e] EXCEPT !.status = "disputed"]
      OBVIOUS
    <3>2. IsEvaluation(x) /\ x.status = "disputed"
      BY <2>3, <3>1 DEF IsEvaluation
    <3>3. grading[r].op = "raise" /\ grading' = [grading EXCEPT ![r] = Q!Idle]
          /\ evaluations' = [evaluations EXCEPT ![e] = x] /\ UNCHANGED <<disputes, crossed>>
      BY <2>2, <2>3, <2>4, <3>1 DEF Q!MarksDisputed, Q!Status
    <3>4. e \in crossed \/ (x.status = "disputed" <=> Q!OpenOf(e) # {})
      BY <2>2, <3>2, <3>3 DEF QualInv, GradeSees
    <3> QED BY <2>2, <3>2, <3>3, <3>4, QualByWriting
  <2>5. CASE Q!WritesScore(r)
    <3>1. PICK y : y = Q!Rescored(evaluations[e], grading[r].score, grading[r].passing)
      OBVIOUS
    <3>2. IsEvaluation(y) /\ y.status = "final"
      BY <2>3, <3>1 DEF IsEvaluation, Q!Rescored
    <3>3. grading[r].op = "resolve" /\ grading' = [grading EXCEPT ![r] = Q!Idle]
          /\ evaluations' = [evaluations EXCEPT ![e] = y] /\ UNCHANGED <<disputes, crossed>>
      BY <2>1, <2>2, <2>3, <2>5, <3>1 DEF Q!WritesScore, GradeOK, Q!Idle
    <3>4. e \in crossed \/ (y.status = "disputed" <=> Q!OpenOf(e) # {})
      BY <2>2, <3>2, <3>3 DEF QualInv, GradeSees
    <3> QED BY <2>2, <3>2, <3>3, <3>4, QualByWriting
  <2>6. CASE Q!WritesFinal(r)
    <3>1. PICK y : y = Q!Finalises(evaluations[e])
      OBVIOUS
    <3>2. IsEvaluation(y) /\ y.status = "final"
      BY <2>3, <3>1 DEF IsEvaluation, Q!Finalises
    <3>3. grading[r].op = "resolve" /\ grading' = [grading EXCEPT ![r] = Q!Idle]
          /\ evaluations' = [evaluations EXCEPT ![e] = y] /\ UNCHANGED <<disputes, crossed>>
      BY <2>1, <2>2, <2>3, <2>6, <3>1 DEF Q!WritesFinal, GradeOK, Q!Idle
    <3>4. e \in crossed \/ (y.status = "disputed" <=> Q!OpenOf(e) # {})
      BY <2>2, <3>2, <3>3 DEF QualInv, GradeSees
    <3> QED BY <2>2, <3>2, <3>3, <3>4, QualByWriting
  <2> QED BY <1>5, <2>4, <2>5, <2>6
<1> QED BY <1>1, <1>2, <1>3, <1>4, <1>5, QualByEvaluating, QualByDisputing, QualByResolving DEF Q!Next

\* For any number of requests, criteria, evaluations and disputes: an evaluation is
\* disputed as long as one of its disputes is open, unless requests about it crossed, and
\* no other score makes up for a failed critical criterion (quality.service.ts:330-460).
THEOREM ScoresAreSettledTheorem == AllSpec => []ScoresAreSettled
<1>1. AllInit => QualInv
  BY StartsEveryPart, QualInit
<1>2. QualInv /\ [AllNext]_AllVars => QualInv'
  BY StepsOnePart, QualNext
<1>3. QualInv => ScoresAreSettled
  BY DEF QualInv, ScoresAreSettled
<1> QED BY <1>1, <1>2, <1>3, PTL DEF AllSpec

-----------------------------------------------------------------------------
(* A ticket and its history.                                               *)

IsTicket(t) ==
  t \in [number : {t.number}, version : Nat, status : {t.status}, assignee : {t.assignee},
         custom : {t.custom}, responded : {t.responded}, resolved : {t.resolved},
         closed : {t.closed}, reopens : {t.reopens}]
IsEdit(j) ==
  j \in [pc : {"idle", "write", "history"}, before : {j.before}, patch : {j.patch}, seen : {j.seen},
         asked : {j.asked}, rows : {j.rows}]

\* An editor whom nobody overtook writes over what he read.
SeesTheRow(j) ==
  /\ j.seen = ticket.version
  /\ j.before.status = ticket.status /\ j.before.assignee = ticket.assignee
  /\ j.before.custom = ticket.custom
EditorsSee ==
  \A e \in Listeners : ticket # Nobody /\ edit[e].pc = "write" /\ e \notin moved => SeesTheRow(edit[e])

\* What the history says once who is writing it has written: one editor at most.
Leads(s, f) == IF s = {} THEN ticket[f] = T!Fresh(1)[f] ELSE s = {ticket[f]}
TrailWillLead ==
  ticket # Nobody /\ ~gaps =>
    /\ \A d, e \in Listeners : edit[d].pc = "history" /\ edit[e].pc = "history" => d = e
    /\ \A f \in T!Tracked :
         /\ \A e \in Listeners : edit[e].pc = "history" /\ edit[e].rows[f] # {} => Leads(edit[e].rows[f], f)
         /\ (\A e \in Listeners : edit[e].pc = "history" => edit[e].rows[f] = {}) => Leads(trail[f], f)

TickInv ==
  /\ ticket # Nobody => IsTicket(ticket)
  /\ edit \in [Listeners -> {edit[e] : e \in Listeners}]
  /\ \A e \in Listeners : IsEdit(edit[e])
  /\ numbers \in {1, 2}
  /\ numbers = 1 => ticket = Nobody /\ trail = T!NoTrail /\ \A e \in Listeners : edit[e].pc = "idle"
  /\ EditorsSee
  /\ TrailWillLead
  /\ T!OnlyOverlapsOverwrite

LEMMA NoEditIs == IsEdit(T!NoEdit) /\ T!NoEdit.pc = "idle"
  BY DEF IsEdit, T!NoEdit

LEMMA TickInit == T!Init => TickInv
<1> SUFFICES ASSUME T!Init PROVE TickInv
  OBVIOUS
<1>1. /\ ticket = Nobody /\ numbers = 1 /\ edit = [e \in Listeners |-> T!NoEdit] /\ trail = T!NoTrail
      /\ buried = {}
  BY DEF T!Init
<1>2. \A e \in Listeners : IsEdit(edit[e]) /\ edit[e].pc = "idle"
  BY <1>1, NoEditIs
<1> QED BY <1>1, <1>2 DEF TickInv, EditorsSee, TrailWillLead, T!OnlyOverlapsOverwrite

LEMMA AnEditMoves ==
  ASSUME TickInv, NEW e \in Listeners, NEW j, IsEdit(j), edit' = [edit EXCEPT ![e] = j]
  PROVE  /\ edit' \in [Listeners -> {edit'[d] : d \in Listeners}]
         /\ \A d \in Listeners : IsEdit(edit'[d]) /\ edit'[d] = IF d = e THEN j ELSE edit[d]
  BY DEF TickInv

LEMMA TickByCreating == ASSUME TickInv, NEW e \in Listeners, T!Creates(e) PROVE TickInv'
<1>1. /\ numbers = 1 /\ ticket' = T!Fresh(1) /\ numbers' = 2
      /\ UNCHANGED <<edit, trail, deaths, moved, gaps, buried>>
  BY DEF T!Creates
<1>2. IsTicket(ticket')
  BY <1>1 DEF IsTicket, T!Fresh
<1>3. \A d \in Listeners : edit'[d].pc = "idle"
  BY <1>1 DEF TickInv
<1>4. \A f \in T!Tracked : trail'[f] = {}
  BY <1>1 DEF TickInv, T!NoTrail
<1>5. EditorsSee'
  BY <1>3 DEF EditorsSee
<1>6. TrailWillLead'
  BY <1>1, <1>3, <1>4 DEF TrailWillLead, Leads
<1> QED BY <1>1, <1>2, <1>5, <1>6 DEF TickInv, T!OnlyOverlapsOverwrite

LEMMA TickByReading ==
  ASSUME TickInv, NEW e \in Listeners, NEW patch \in T!Patches, NEW v \in 0 .. MaxVersion,
         NEW matches \in BOOLEAN, T!Reads(e, patch, v, matches)
  PROVE  TickInv'
<1> DEFINE j == [T!NoEdit EXCEPT !.pc = "write", !.before = T!Reading, !.patch = patch, !.seen = v, !.asked = matches]
<1>1. /\ ticket # Nobody /\ v = ticket.version /\ edit' = [edit EXCEPT ![e] = j] /\ moved' = moved \ {e}
      /\ edit[e].pc = "idle" /\ UNCHANGED <<ticket, numbers, trail, deaths, gaps, buried>>
  BY DEF T!Reads, T!At, T!SameVersion
<1>2. /\ IsEdit(j) /\ j.pc = "write" /\ j.seen = v
      /\ j.before.status = ticket.status /\ j.before.assignee = ticket.assignee /\ j.before.custom = ticket.custom
  BY DEF IsEdit, T!NoEdit, T!Reading
<1> HIDE DEF j
<1>3. /\ edit' \in [Listeners -> {edit'[d] : d \in Listeners}]
      /\ \A d \in Listeners : IsEdit(edit'[d]) /\ edit'[d] = IF d = e THEN j ELSE edit[d]
  BY <1>1, <1>2, AnEditMoves
<1>4. EditorsSee'
  BY <1>1, <1>2, <1>3 DEF TickInv, EditorsSee, SeesTheRow
<1>5. \A d \in Listeners : edit'[d].pc = "history" <=> edit[d].pc = "history" /\ d # e
  BY <1>1, <1>2, <1>3
<1>6. TrailWillLead'
  BY <1>1, <1>3, <1>5 DEF TickInv, TrailWillLead, Leads
<1>7. numbers = 2
  BY <1>1 DEF TickInv
<1> QED BY <1>1, <1>3, <1>4, <1>6, <1>7 DEF TickInv, T!OnlyOverlapsOverwrite

LEMMA TickByWriting == ASSUME TickInv, NEW e \in Listeners, T!Writes(e) PROVE TickInv'
<1> DEFINE j == [T!NoEdit EXCEPT !.pc = "history", !.rows = T!Rows(e)]
           p == edit[e].patch
<1>1. /\ edit[e].pc = "write" /\ ticket # Nobody /\ ticket' = T!Patched(e) /\ edit' = [edit EXCEPT ![e] = j]
      /\ moved' = (moved \ {e}) \cup {f \in Listeners \ {e} : edit[f].pc = "write"}
      /\ gaps' = (gaps \/ e \in moved \/ \E f \in Listeners \ {e} : edit[f].pc = "history")
      /\ UNCHANGED <<numbers, trail, deaths>>
  BY DEF T!Writes, T!At
<1>2. IsEdit(j) /\ j.pc = "history" /\ j.rows = T!Rows(e)
  BY DEF IsEdit, T!NoEdit
<1> HIDE DEF j
<1>3. /\ edit' \in [Listeners -> {edit'[d] : d \in Listeners}]
      /\ \A d \in Listeners : IsEdit(edit'[d]) /\ edit'[d] = IF d = e THEN j ELSE edit[d]
  BY <1>1, <1>2, AnEditMoves
<1>4. IsTicket(ticket) /\ IsTicket(ticket') /\ ticket'.custom =
        IF p.keys = {} THEN ticket.custom ELSE edit[e].before.custom \cup p.keys
  <2>1. IsTicket(ticket)
    BY <1>1 DEF TickInv
  <2> DEFINE a == T!Named(p.status, ticket.status)
             b == T!Named(p.assignee, ticket.assignee)
             k == IF p.keys = {} THEN ticket.custom ELSE edit[e].before.custom \cup p.keys
             c == IF T!Is(e, "reopened") THEN FALSE ELSE ticket.resolved \/ T!Is(e, "resolved") \/ T!Is(e, "closed")
             d == IF T!Is(e, "reopened") THEN FALSE ELSE ticket.closed \/ T!Is(e, "closed")
             g == IF T!Is(e, "reopened") THEN ticket.reopens + 1 ELSE ticket.reopens
  <2>2. ticket' = [ticket EXCEPT !.version = ticket.version + 1, !.status = a, !.assignee = b,
                                 !.custom = k, !.resolved = c, !.closed = d, !.reopens = g]
    BY <1>1 DEF T!Patched
  <2> HIDE DEF a, b, k, c, d, g
  <2>3. ticket' = [number |-> ticket.number, version |-> ticket.version + 1, status |-> a, assignee |-> b,
                   custom |-> k, responded |-> ticket.responded, resolved |-> c, closed |-> d, reopens |-> g]
    BY <2>1, <2>2 DEF IsTicket
  <2>4. ticket.version + 1 \in Nat
    BY <2>1 DEF IsTicket
  <2>5. IsTicket(ticket') /\ ticket'.custom = k
    BY <2>3, <2>4 DEF IsTicket
  <2> QED BY <2>1, <2>5 DEF k
<1>5. e \notin moved => SeesTheRow(edit[e])
  BY <1>1 DEF TickInv, EditorsSee
<1>6. T!OnlyOverlapsOverwrite'
  <2>1. CASE e \in moved
    BY <2>1 DEF T!Writes, TickInv, T!OnlyOverlapsOverwrite
  <2>2. CASE e \notin moved
    <3>1. ~ edit[e].seen < ticket.version
      BY <1>4, <1>5, <2>2 DEF SeesTheRow, IsTicket
    <3>2. ticket.custom \ T!Patched(e).custom = {}
      BY <1>1, <1>4, <1>5, <2>2 DEF SeesTheRow
    <3> QED BY <3>1, <3>2 DEF T!Writes, TickInv, T!OnlyOverlapsOverwrite
  <2> QED BY <2>1, <2>2
<1>7. EditorsSee'
  BY <1>1, <1>2, <1>3 DEF EditorsSee
<1>8. TrailWillLead'
  <2> SUFFICES ASSUME ticket' # Nobody, ~gaps' PROVE TrailWillLead'
    BY DEF TrailWillLead
  <2>1. ~gaps /\ SeesTheRow(edit[e]) /\ \A d \in Listeners : edit'[d].pc = "history" <=> d = e
    BY <1>1, <1>2, <1>3, <1>5
  <2>2. ASSUME NEW f \in T!Tracked
        PROVE  /\ edit[e].before[f] = ticket[f]
               /\ j.rows[f] = IF ticket[f] # ticket'[f] THEN {ticket'[f]} ELSE {}
               /\ Leads(trail[f], f)
    <3>1. edit[e].before[f] = ticket[f]
      BY <2>1 DEF T!Tracked, SeesTheRow
    <3>2. j.rows[f] = IF edit[e].before[f] # T!Patched(e)[f] THEN {T!Patched(e)[f]} ELSE {}
      BY <1>2 DEF T!Rows, T!Recorded
    <3>3. \A d \in Listeners : edit[d].pc # "history"
      BY <1>1, <1>3
    <3> QED BY <1>1, <2>1, <3>1, <3>2, <3>3 DEF TickInv, TrailWillLead
  <2>3. \A d \in Listeners : edit'[d].pc = "history" => edit'[d] = j
    BY <1>3, <2>1
  <2>4. ASSUME NEW f \in T!Tracked
        PROVE  /\ \A d \in Listeners : edit'[d].pc = "history" /\ edit'[d].rows[f] # {} => (Leads(edit[d].rows[f], f))'
               /\ (\A d \in Listeners : edit'[d].pc = "history" => edit'[d].rows[f] = {}) => Leads(trail[f], f)'
    <3>1. j.rows[f] # {} => j.rows[f] = {ticket'[f]}
      BY <2>2
    <3>2. j.rows[f] = {} => ticket'[f] = ticket[f]
      BY <2>2
    <3> QED BY <1>1, <1>3, <2>1, <2>2, <2>3, <3>1, <3>2 DEF Leads
  <2> QED BY <2>1, <2>4 DEF TrailWillLead
<1>9. numbers' \in {1, 2} /\ numbers' = 2
  BY <1>1 DEF TickInv
<1> QED BY <1>3, <1>4, <1>6, <1>7, <1>8, <1>9 DEF TickInv

\* The ticket may be answered, and nothing else of it change.
LEMMA TickByCommenting == ASSUME TickInv, T!Comments PROVE TickInv'
<1>1. /\ IsTicket(ticket) /\ ticket' = [ticket EXCEPT !.responded = TRUE] /\ ticket # Nobody
      /\ UNCHANGED <<numbers, edit, trail, deaths, moved, gaps, buried>>
  BY DEF TickInv, T!Comments
<1>2. /\ IsTicket(ticket') /\ ticket'.version = ticket.version /\ ticket'.custom = ticket.custom
      /\ ticket'.status = ticket.status /\ ticket'.assignee = ticket.assignee
  BY <1>1 DEF IsTicket
<1>3. \A f \in T!Tracked : ticket'[f] = ticket[f]
  BY <1>2 DEF T!Tracked
<1>4. EditorsSee'
  BY <1>1, <1>2 DEF TickInv, EditorsSee, SeesTheRow
<1>5. TrailWillLead'
  <2>1. TrailWillLead
    BY DEF TickInv
  <2>2. \A s : \A f \in T!Tracked : Leads(s, f) => Leads(s, f)'
    BY <1>3 DEF Leads
  <2>3. ASSUME NEW f \in T!Tracked PROVE Leads(trail[f], f) => Leads(trail[f], f)'
    BY <1>1, <1>3 DEF Leads
  <2> QED BY <1>1, <2>1, <2>2, <2>3 DEF TrailWillLead
<1>6. numbers' \in {1, 2} /\ numbers' # 1
  BY <1>1 DEF TickInv
<1> QED BY <1>1, <1>2, <1>4, <1>5, <1>6 DEF TickInv, T!OnlyOverlapsOverwrite

LEMMA TickByRecording == ASSUME TickInv, NEW e \in Listeners, T!Records(e) PROVE TickInv'
<1>1. /\ edit[e].pc = "history" /\ edit' = [edit EXCEPT ![e] = T!NoEdit]
      /\ trail' = [f \in T!Tracked |-> IF edit[e].rows[f] # {} THEN edit[e].rows[f] ELSE trail[f]]
      /\ UNCHANGED <<ticket, numbers, deaths, moved, gaps, buried>>
  BY DEF T!Records, T!At, T!Over
<1>2. /\ edit' \in [Listeners -> {edit'[d] : d \in Listeners}]
      /\ \A d \in Listeners : IsEdit(edit'[d]) /\ edit'[d] = IF d = e THEN T!NoEdit ELSE edit[d]
  BY <1>1, NoEditIs, AnEditMoves
<1>3. EditorsSee'
  BY <1>1, <1>2, NoEditIs DEF TickInv, EditorsSee, SeesTheRow
<1>4. TrailWillLead'
  <2> SUFFICES ASSUME ticket # Nobody, ~gaps PROVE TrailWillLead'
    BY <1>1 DEF TrailWillLead
  <2>1. \A d \in Listeners : edit'[d].pc # "history"
    BY <1>1, <1>2, NoEditIs DEF TickInv, TrailWillLead
  <2>2. \A f \in T!Tracked : Leads(trail'[f], f)
    <3> TAKE f \in T!Tracked
    <3>1. trail'[f] = IF edit[e].rows[f] # {} THEN edit[e].rows[f] ELSE trail[f]
      BY <1>1
    <3>2. edit[e].rows[f] # {} => Leads(edit[e].rows[f], f)
      BY <1>1 DEF TickInv, TrailWillLead
    <3>3. edit[e].rows[f] = {} => Leads(trail[f], f)
      BY <1>1 DEF TickInv, TrailWillLead
    <3> QED BY <3>1, <3>2, <3>3
  <2> QED BY <1>1, <2>1, <2>2 DEF TrailWillLead, Leads
<1>5. numbers' \in {1, 2} /\ numbers' # 1
  BY <1>1 DEF TickInv
<1> QED BY <1>1, <1>2, <1>3, <1>4, <1>5 DEF TickInv, T!OnlyOverlapsOverwrite

LEMMA TickByLeaving ==
  ASSUME TickInv, NEW e \in Listeners, edit[e].pc # "idle", edit' = [edit EXCEPT ![e] = T!NoEdit],
         ticket = Nobody \/ gaps' \/ edit[e].pc # "history", gaps => gaps',
         UNCHANGED <<ticket, numbers, trail, moved, buried>>
  PROVE  TickInv'
<1>1. /\ edit' \in [Listeners -> {edit'[d] : d \in Listeners}]
      /\ \A d \in Listeners : IsEdit(edit'[d]) /\ edit'[d] = IF d = e THEN T!NoEdit ELSE edit[d]
  BY NoEditIs, AnEditMoves
<1>2. EditorsSee'
  BY <1>1, NoEditIs DEF TickInv, EditorsSee, SeesTheRow
<1>3. TrailWillLead'
  <2> SUFFICES ASSUME ticket # Nobody, ~gaps' PROVE TrailWillLead'
    BY DEF TrailWillLead
  <2>1. \A d \in Listeners : edit'[d].pc = "history" <=> edit[d].pc = "history"
    BY <1>1, NoEditIs
  <2>2. \A d \in Listeners : edit'[d].pc = "history" => edit'[d] = edit[d]
    BY <1>1, NoEditIs
  <2> QED BY <2>1, <2>2 DEF TickInv, TrailWillLead, Leads
<1>4. numbers' \in {1, 2} /\ numbers' # 1
  BY DEF TickInv
<1> QED BY <1>1, <1>2, <1>3, <1>4 DEF TickInv, T!OnlyOverlapsOverwrite

LEMMA TickNext == TickInv /\ (T!Next \/ UNCHANGED ticketVars) => TickInv'
<1> SUFFICES ASSUME TickInv, T!Next \/ UNCHANGED ticketVars PROVE TickInv'
  OBVIOUS
<1>1. CASE UNCHANGED ticketVars
  <2>1. EditorsSee' /\ TrailWillLead' /\ T!OnlyOverlapsOverwrite'
    BY <1>1 DEF ticketVars, TickInv, EditorsSee, SeesTheRow, TrailWillLead, Leads, T!OnlyOverlapsOverwrite
  <2> QED BY <1>1, <2>1 DEF ticketVars, TickInv
<1>2. CASE T!Deletes
  <2>1. ticket' = Nobody /\ UNCHANGED <<numbers, edit, trail, deaths, moved, buried>> /\ ticket # Nobody
    BY <1>2 DEF T!Deletes
  <2> QED BY <2>1 DEF TickInv, EditorsSee, TrailWillLead, T!OnlyOverlapsOverwrite
<1>3. ASSUME NEW e \in Listeners, T!Fails(e) \/ T!Stops(e) PROVE TickInv'
  <2>1. /\ edit[e].pc # "idle" /\ edit' = [edit EXCEPT ![e] = T!NoEdit]
        /\ ticket = Nobody \/ gaps' \/ edit[e].pc # "history"
        /\ gaps => gaps'
        /\ UNCHANGED <<ticket, numbers, trail, moved, buried>>
    <3>1. CASE T!Fails(e)
      BY <3>1 DEF T!Fails, T!Over
    <3>2. CASE T!Stops(e)
      BY <3>2, Zenon DEF T!Stops, T!At, T!Over
    <3> QED BY <1>3, <3>1, <3>2
  <2> QED BY <2>1, TickByLeaving
<1> QED BY <1>1, <1>2, <1>3, TickByCreating, TickByReading, TickByWriting, TickByCommenting, TickByRecording DEF T!Next

\* For any number of editors and updates: an update replaces nothing its client has not seen,
\* and the history leads to the state, but for overlaps (tickets.service.ts:241-281, 355-379).
THEOREM TicketsKeepChangesTheorem == AllSpec => []TicketsKeepChanges
<1>1. AllInit => TickInv
  BY StartsEveryPart, TickInit
<1>2. TickInv /\ [AllNext]_AllVars => TickInv'
  BY StepsOnePart, TickNext
<1>3. TickInv => TicketsKeepChanges
  <2>1. TickInv => T!TrailLeadsHere
    BY DEF TickInv, TrailWillLead, Leads, T!TrailLeadsHere
  <2> QED BY <2>1 DEF TickInv, TicketsKeepChanges
<1> QED BY <1>1, <1>2, <1>3, PTL DEF AllSpec

-----------------------------------------------------------------------------
(* The roster. What a planner has looked up still holds when it writes, or it    *)
(* was told since.                                                               *)

Entries == UNION {{t[k] : k \in DOMAIN t} : t \in Templates}
Shifts == [user : {e[1] : e \in Entries}, span : Spans, state : {"draft", "published", "cancelled"},
           twin : BOOLEAN, late : BOOLEAN]
Leaves == [user : People, span : Spans, status : {"requested", "approved", "declined"}]
IsPlan(j, known) ==
  /\ j \in [todo : Seq(Entries), step : {"none", "overlap", "leave", "insert", "decide", "cancel"},
            leave : {j.leave}, approve : BOOLEAN, twin : BOOLEAN, late : BOOLEAN]
  /\ j.step \in {"overlap", "leave", "insert"} => j.todo # <<>>
  /\ j.step \in {"decide", "cancel"} => j.leave \in known
RosterTyped ==
  /\ shifts \in Seq(Shifts) /\ leaves \in Seq(Leaves)
  /\ planning = [p \in Listeners |-> planning[p]] /\ \A p \in Listeners : IsPlan(planning[p], DOMAIN leaves)

\* Whom a request is about to roster, and when.
Whom(j) == Head(j.todo)[1]
When(j) == Head(j.todo)[2]
\* A clash that a request has looked for and does not know of, among these shifts, and these leaves.
TwinKnown(j) ==
  j.step \in {"leave", "insert"} =>
    \A i \in DOMAIN shifts :
      shifts[i].user = Whom(j) /\ R!Live(shifts[i]) /\ R!Overlap(shifts[i].span, When(j)) => j.twin
LateKnown(j) ==
  j.step = "insert" =>
    \A l \in DOMAIN leaves :
      leaves[l].user = Whom(j) /\ leaves[l].status = "approved" /\ R!Overlap(leaves[l].span, When(j)) => j.late
RosterInv ==
  /\ RosterTyped
  /\ \A p \in Listeners : TwinKnown(planning[p]) /\ LateKnown(planning[p])
  /\ R!NoDoubleBooking /\ R!LeaveIsKept

LEMMA OverlapSymmetric ==
  ASSUME NEW a \in Spans, NEW b \in Spans
  PROVE  R!Overlap(a, b) <=> R!Overlap(b, a)
<1>1. a[1] \in Nat /\ a[2] \in Nat /\ b[1] \in Nat /\ b[2] \in Nat
  BY SpansHaveTwoEnds
<1> QED BY <1>1 DEF R!Overlap

\* A step of one request: nothing is rostered and no leave is decided, though shifts may go.
Fades ==
  /\ shifts' \in Seq(Shifts) /\ DOMAIN shifts' = DOMAIN shifts
  /\ \A i \in DOMAIN shifts :
       /\ shifts'[i].user = shifts[i].user /\ shifts'[i].span = shifts[i].span
       /\ shifts'[i].twin = shifts[i].twin /\ shifts'[i].late = shifts[i].late
       /\ R!Live(shifts'[i]) => R!Live(shifts[i])
Turns(p, t) == planning' = [planning EXCEPT ![p] = t]

LEMMA FadesStay == ASSUME RosterTyped, UNCHANGED shifts PROVE Fades
BY DEF RosterTyped, Fades

LEMMA PlanTurns ==
  ASSUME RosterTyped, NEW p \in Listeners, NEW t, Turns(p, t)
  PROVE  /\ planning' = [q \in Listeners |-> planning'[q]] /\ planning'[p] = t
         /\ \A q \in Listeners \ {p} : planning'[q] = planning[q]
BY DEF RosterTyped, Turns

\* What is known of the shifts and leaves stays known when shifts go.
LEMMA KnownStays ==
  ASSUME Fades, UNCHANGED leaves, NEW j, TwinKnown(j), LateKnown(j)
  PROVE  /\ j.step \in {"leave", "insert"} =>
              \A i \in DOMAIN shifts' :
                shifts'[i].user = Whom(j) /\ R!Live(shifts'[i]) /\ R!Overlap(shifts'[i].span, When(j)) => j.twin
         /\ j.step = "insert" =>
              \A l \in DOMAIN leaves' :
                leaves'[l].user = Whom(j) /\ leaves'[l].status = "approved" /\ R!Overlap(leaves'[l].span, When(j)) => j.late
<1>1. ASSUME j.step \in {"leave", "insert"}, NEW i \in DOMAIN shifts',
             shifts'[i].user = Whom(j), R!Live(shifts'[i]), R!Overlap(shifts'[i].span, When(j))
      PROVE  j.twin
  <2>1. i \in DOMAIN shifts /\ shifts[i].user = Whom(j) /\ R!Live(shifts[i]) /\ R!Overlap(shifts[i].span, When(j))
    BY <1>1 DEF Fades
  <2> QED BY <1>1, <2>1 DEF TwinKnown
<1> QED BY <1>1 DEF LateKnown

LEMMA BookingFades ==
  ASSUME Fades, R!NoDoubleBooking
  PROVE  R!NoDoubleBooking'
<1> SUFFICES ASSUME NEW i \in DOMAIN shifts', NEW j \in DOMAIN shifts', i < j,
                    shifts'[i].user = shifts'[j].user, R!Live(shifts'[i]), R!Live(shifts'[j]),
                    R!Overlap(shifts'[i].span, shifts'[j].span)
             PROVE  shifts'[j].twin
  BY DEF R!NoDoubleBooking, R!Live, R!Overlap
<1>1. i \in DOMAIN shifts /\ j \in DOMAIN shifts
  BY DEF Fades
<1>2. /\ shifts[i].user = shifts[j].user /\ R!Live(shifts[i]) /\ R!Live(shifts[j])
      /\ R!Overlap(shifts[i].span, shifts[j].span)
  BY <1>1 DEF Fades
<1>3. shifts[j].twin
  BY <1>1, <1>2 DEF R!NoDoubleBooking
<1> QED BY <1>1, <1>3 DEF Fades

LEMMA TurnsKeep ==
  ASSUME RosterInv, NEW p \in Listeners, NEW t, Turns(p, t), IsPlan(t, DOMAIN leaves), Fades, UNCHANGED leaves,
         halfway \subseteq halfway', TwinKnown(t), LateKnown(t),
         planning[p].step = "cancel" =>
           \/ planning[p].leave \in halfway'
           \/ \A i \in DOMAIN shifts :
                shifts[i].user = leaves[planning[p].leave].user
                /\ R!Overlap(shifts[i].span, leaves[planning[p].leave].span) => ~R!Live(shifts'[i])
  PROVE  RosterInv'
<1>1. /\ planning' = [q \in Listeners |-> planning'[q]] /\ planning'[p] = t
      /\ \A q \in Listeners \ {p} : planning'[q] = planning[q]
  BY PlanTurns DEF RosterInv
<1>2. RosterTyped'
  <2>1. \A q \in Listeners : IsPlan(planning'[q], DOMAIN leaves)
    BY <1>1 DEF RosterInv, RosterTyped
  <2>2. \A q \in Listeners : IsPlan(planning[q], DOMAIN leaves)'
    <3> TAKE q \in Listeners
    <3>1. IsPlan(planning'[q], DOMAIN leaves) /\ DOMAIN leaves' = DOMAIN leaves
      BY <2>1
    <3> QED BY Zenon, <3>1 DEF IsPlan, Entries
  <2>3. shifts' \in Seq(Shifts) /\ leaves' \in Seq(Leaves)
    BY DEF Fades, RosterInv, RosterTyped
  <2> QED BY <1>1, <2>2, <2>3 DEF RosterTyped
<1>3. \A q \in Listeners : TwinKnown(planning[q])' /\ LateKnown(planning[q])'
  <2> TAKE q \in Listeners
  <2>1. TwinKnown(planning'[q]) /\ LateKnown(planning'[q])
    BY <1>1 DEF RosterInv
  <2> DEFINE j == planning'[q]
  <2>2. /\ j.step \in {"leave", "insert"} =>
             \A i \in DOMAIN shifts' :
               shifts'[i].user = Whom(j) /\ R!Live(shifts'[i]) /\ R!Overlap(shifts'[i].span, When(j)) => j.twin
        /\ j.step = "insert" =>
             \A l \in DOMAIN leaves' :
               leaves'[l].user = Whom(j) /\ leaves'[l].status = "approved" /\ R!Overlap(leaves'[l].span, When(j)) => j.late
    BY <2>1, KnownStays
  <2> QED BY <2>2, Zenon DEF TwinKnown, LateKnown, Whom, When, R!Live, R!Overlap
<1>4. R!NoDoubleBooking'
  BY BookingFades DEF RosterInv
<1>5. R!LeaveIsKept'
  <2> SUFFICES ASSUME NEW l \in DOMAIN leaves', NEW i \in DOMAIN shifts',
                      leaves'[l].status = "approved", shifts'[i].user = leaves'[l].user,
                      R!Live(shifts'[i]), R!Overlap(shifts'[i].span, leaves'[l].span)
               PROVE  \/ shifts'[i].late \/ l \in halfway'
                      \/ \E q \in Listeners : planning'[q].step = "cancel" /\ planning'[q].leave = l
    BY DEF R!LeaveIsKept, R!Live, R!Overlap
  <2>1. /\ i \in DOMAIN shifts /\ l \in DOMAIN leaves
        /\ leaves[l].status = "approved" /\ shifts[i].user = leaves[l].user
        /\ R!Live(shifts[i]) /\ R!Overlap(shifts[i].span, leaves[l].span)
    BY DEF Fades
  <2>2. \/ shifts[i].late \/ l \in halfway
        \/ \E q \in Listeners : planning[q].step = "cancel" /\ planning[q].leave = l
    BY <2>1 DEF RosterInv, R!LeaveIsKept
  <2>3. CASE shifts[i].late \/ l \in halfway
    BY <2>1, <2>3 DEF Fades
  <2>4. ASSUME NEW q \in Listeners, planning[q].step = "cancel", planning[q].leave = l
        PROVE  \/ shifts'[i].late \/ l \in halfway'
               \/ \E o \in Listeners : planning'[o].step = "cancel" /\ planning'[o].leave = l
    <3>1. CASE q # p
      BY <1>1, <2>4, <3>1
    <3>2. CASE q = p
      BY <2>1, <2>4, <3>2
    <3> QED BY <3>1, <3>2
  <2> QED BY <2>2, <2>3, <2>4
<1> QED BY <1>2, <1>3, <1>4, <1>5 DEF RosterInv

LEMMA IdlePlan ==
  ASSUME NEW known
  PROVE  IsPlan(R!Idle, known) /\ R!Idle.step = "none" /\ TwinKnown(R!Idle) /\ LateKnown(R!Idle)
BY EmptySeq DEF R!Idle, IsPlan, TwinKnown, LateKnown

\* A request that sets out.
PlanShape(n) ==
  n \in [todo : Seq(Entries), step : {"none", "overlap", "leave", "insert", "decide", "cancel"}, leave : {n.leave}, approve : BOOLEAN, twin : BOOLEAN, late : BOOLEAN]
WithTodo(n, x) == [n EXCEPT !.todo = x]
WithStep(n, x) == [n EXCEPT !.step = x]
WithLeave(n, x) == [n EXCEPT !.leave = x]
WithApprove(n, x) == [n EXCEPT !.approve = x]
LEMMA PlanWithTodo ==
  ASSUME NEW n, PlanShape(n), NEW x \in Seq(Entries)
  PROVE  PlanShape(WithTodo(n, x)) /\ WithTodo(n, x).todo = x /\ WithTodo(n, x).leave = n.leave
BY DEF PlanShape, WithTodo
LEMMA PlanWithStep ==
  ASSUME NEW n, PlanShape(n), NEW x \in {"none", "overlap", "leave", "insert", "decide", "cancel"}
  PROVE  /\ PlanShape(WithStep(n, x)) /\ WithStep(n, x).step = x
         /\ WithStep(n, x).todo = n.todo /\ WithStep(n, x).leave = n.leave
BY DEF PlanShape, WithStep
LEMMA PlanWithLeave ==
  ASSUME NEW n, PlanShape(n), NEW x
  PROVE  PlanShape(WithLeave(n, x)) /\ WithLeave(n, x).todo = n.todo /\ WithLeave(n, x).leave = x
BY DEF PlanShape, WithLeave
LEMMA PlanWithApprove ==
  ASSUME NEW n, PlanShape(n), NEW x \in BOOLEAN
  PROVE  PlanShape(WithApprove(n, x)) /\ WithApprove(n, x).todo = n.todo /\ WithApprove(n, x).leave = n.leave
BY DEF PlanShape, WithApprove

LEMMA SetsOut ==
  ASSUME NEW l \in Seq(Entries), l # <<>>, NEW known, NEW t, t = [R!Idle EXCEPT !.todo = l, !.step = "overlap"]
  PROVE  IsPlan(t, known) /\ t.step = "overlap"
<1>1. \A n : [n EXCEPT !.todo = l, !.step = "overlap"] = WithStep(WithTodo(n, l), "overlap")
  BY DEF WithTodo, WithStep
<1>2. t = WithStep(WithTodo(R!Idle, l), "overlap")
  BY Zenon, <1>1
<1>3. PlanShape(R!Idle)
  BY EmptySeq DEF R!Idle, PlanShape
<1>4. PlanShape(WithTodo(R!Idle, l)) /\ WithTodo(R!Idle, l).todo = l
  BY Zenon, <1>3, PlanWithTodo
<1>5. "overlap" \in {"none", "overlap", "leave", "insert", "decide", "cancel"}
  OBVIOUS
<1>6. PlanShape(t) /\ t.step = "overlap" /\ t.todo = l
  BY <1>2, <1>4, <1>5, PlanWithStep
<1> QED BY <1>6 DEF PlanShape, IsPlan

LEMMA SetsOutToDecide ==
  ASSUME NEW l, NEW yes \in BOOLEAN, NEW known, l \in known,
         NEW t, t = [R!Idle EXCEPT !.leave = l, !.approve = yes, !.step = "decide"]
  PROVE  IsPlan(t, known) /\ t.step = "decide"
<1>1. \A n : [n EXCEPT !.leave = l, !.approve = yes, !.step = "decide"]
             = WithStep(WithApprove(WithLeave(n, l), yes), "decide")
  BY DEF WithLeave, WithApprove, WithStep
<1>2. t = WithStep(WithApprove(WithLeave(R!Idle, l), yes), "decide")
  BY Zenon, <1>1
<1>3. PlanShape(R!Idle)
  BY EmptySeq DEF R!Idle, PlanShape
<1>4. PlanShape(WithLeave(R!Idle, l)) /\ WithLeave(R!Idle, l).leave = l
  BY Zenon, <1>3, PlanWithLeave
<1>5. /\ PlanShape(WithApprove(WithLeave(R!Idle, l), yes))
      /\ WithApprove(WithLeave(R!Idle, l), yes).leave = l
  BY Zenon, <1>4, PlanWithApprove
<1>6. "decide" \in {"none", "overlap", "leave", "insert", "decide", "cancel"}
  OBVIOUS
<1>7. PlanShape(t) /\ t.step = "decide" /\ t.leave = l
  BY <1>2, <1>5, <1>6, PlanWithStep
<1> QED BY <1>7 DEF PlanShape, IsPlan

LEMMA OnwardPlan ==
  ASSUME RosterInv, NEW p \in Listeners, planning[p].todo # <<>>, NEW known
  PROVE  /\ IsPlan(R!Onward(p), known) /\ R!Onward(p).step \in {"none", "overlap"}
         /\ TwinKnown(R!Onward(p)) /\ LateKnown(R!Onward(p))
<1> DEFINE todo == planning[p].todo
<1>1. todo \in Seq(Entries) /\ todo # <<>>
  BY DEF RosterInv, RosterTyped, IsPlan
<1>2. Len(todo) \in Nat \ {0} /\ Tail(todo) \in Seq(Entries) /\ Len(Tail(todo)) = Len(todo) - 1
  BY <1>1, EmptySeq, HeadTailProperties
<1> DEFINE t == [R!Idle EXCEPT !.todo = Tail(todo), !.step = "overlap"]
<1>4. CASE Len(todo) = 1
  <2>1. R!Onward(p) = R!Idle
    BY <1>4 DEF R!Onward
  <2> QED BY <2>1, IdlePlan
<1>5. CASE Len(todo) # 1
  <2>1. R!Onward(p) = t
    BY <1>5 DEF R!Onward
  <2>2. Tail(todo) # <<>>
    <3> SUFFICES ASSUME Tail(todo) = <<>> PROVE FALSE
      OBVIOUS
    <3> HIDE DEF todo
    <3>1. Len(Tail(todo)) = 0
      BY EmptySeq
    <3> QED BY <3>1, <1>2, <1>5
  <2>3. IsPlan(t, known) /\ t.step = "overlap"
    BY <1>2, <2>2, SetsOut
  <2> HIDE DEF t
  <2> QED BY <2>1, <2>3 DEF TwinKnown, LateKnown
<1> QED BY <1>4, <1>5

LEMMA StartsShiftsKeep ==
  ASSUME RosterInv, NEW p \in Listeners, R!StartsShifts(p)
  PROVE  RosterInv'
<1>1. PICK l \in Templates : planning' = [planning EXCEPT ![p] = [R!Idle EXCEPT !.todo = l, !.step = "overlap"]]
  BY DEF R!StartsShifts
<1> DEFINE t == [R!Idle EXCEPT !.todo = l, !.step = "overlap"]
<1>2. planning[p].step = "none" /\ UNCHANGED <<shifts, leaves, halfway>>
  BY DEF R!StartsShifts, R!Idle
<1>4. l \in Seq(Entries) /\ l # <<>>
  <2>1. l \in Seq({l[k] : k \in DOMAIN l}) /\ l # <<>>
    BY TemplatesAreLists
  <2>2. {l[k] : k \in DOMAIN l} \subseteq Entries
    BY DEF Entries
  <2> QED BY <2>1, <2>2, SeqMonotonic
<1>5. Turns(p, t)
  BY <1>1 DEF Turns
<1>6. IsPlan(t, DOMAIN leaves) /\ t.step = "overlap"
  BY <1>4, SetsOut
<1> HIDE DEF t
<1>8. TwinKnown(t) /\ LateKnown(t)
  BY <1>6 DEF TwinKnown, LateKnown
<1>7. Fades
  BY <1>2, FadesStay DEF RosterInv
<1> QED BY <1>2, <1>5, <1>6, <1>7, <1>8, TurnsKeep

LEMMA ChecksKeep ==
  ASSUME RosterInv, NEW p \in Listeners, R!ChecksOverlap(p) \/ R!ChecksLeave(p)
  PROVE  RosterInv'
<1> DEFINE j == planning[p]
<1>1. j.todo # <<>> /\ UNCHANGED <<shifts, leaves, halfway>>
  BY DEF R!ChecksOverlap, R!ChecksLeave, R!Checks
<1>2. IsPlan(j, DOMAIN leaves) /\ TwinKnown(j) /\ LateKnown(j)
  BY DEF RosterInv, RosterTyped
<1>3. Fades
  BY <1>1, FadesStay DEF RosterInv
<1>4. j.step \in {"overlap", "leave"}
  BY DEF R!ChecksOverlap, R!ChecksLeave, R!Checks
<1>5. CASE Turns(p, R!Onward(p))
  BY <1>1, <1>3, <1>4, <1>5, OnwardPlan, TurnsKeep
<1>6. CASE j.step = "overlap" /\ ~R!Rostered(R!User(p), R!Span(p)) /\ Turns(p, [j EXCEPT !.step = "leave"])
  <2> DEFINE t == [j EXCEPT !.step = "leave"]
  <2>1. IsPlan(t, DOMAIN leaves) /\ t.step = "leave" /\ t.todo = j.todo
    BY <1>1, <1>2 DEF IsPlan
  <2>2. R!User(p) = Whom(t) /\ R!Span(p) = When(t)
    BY <2>1 DEF R!User, R!Span, Whom, When
  <2> HIDE DEF t
  <2>3. TwinKnown(t) /\ LateKnown(t)
    BY <1>6, <2>1, <2>2 DEF TwinKnown, LateKnown, R!Rostered
  <2> QED BY <1>1, <1>3, <1>6, <2>1, <2>3, TurnsKeep DEF t
<1>7. CASE j.step = "leave" /\ ~R!Away(R!User(p), R!Span(p)) /\ Turns(p, [j EXCEPT !.step = "insert"])
  <2> DEFINE t == [j EXCEPT !.step = "insert"]
  <2>1. IsPlan(t, DOMAIN leaves) /\ t.step = "insert" /\ t.todo = j.todo /\ t.twin = j.twin
    BY <1>1, <1>2 DEF IsPlan
  <2>2. R!User(p) = Whom(t) /\ R!Span(p) = When(t) /\ Whom(t) = Whom(j) /\ When(t) = When(j)
    BY <2>1 DEF R!User, R!Span, Whom, When
  <2> HIDE DEF t
  <2>3. TwinKnown(t) /\ LateKnown(t)
    BY <1>2, <1>7, <2>1, <2>2 DEF TwinKnown, LateKnown, R!Away
  <2> QED BY <1>1, <1>3, <1>7, <2>1, <2>3, TurnsKeep DEF t
<1> QED BY <1>5, <1>6, <1>7 DEF R!ChecksOverlap, R!ChecksLeave, R!Checks, Turns

LEMMA ReadsRequestKeep ==
  ASSUME RosterInv, NEW p \in Listeners, R!ReadsRequest(p)
  PROVE  RosterInv'
<1>1. PICK l \in DOMAIN leaves, yes \in BOOLEAN :
        planning' = [planning EXCEPT ![p] = [R!Idle EXCEPT !.leave = l, !.approve = yes, !.step = "decide"]]
  BY DEF R!ReadsRequest
<1> DEFINE t == [R!Idle EXCEPT !.leave = l, !.approve = yes, !.step = "decide"]
<1>2. planning[p].step = "none" /\ UNCHANGED <<shifts, leaves, halfway>>
  BY DEF R!ReadsRequest, R!Idle
<1>3. Turns(p, t)
  BY <1>1 DEF Turns
<1>4. IsPlan(t, DOMAIN leaves) /\ t.step = "decide"
  BY SetsOutToDecide
<1> HIDE DEF t
<1>5. TwinKnown(t) /\ LateKnown(t)
  BY <1>4 DEF TwinKnown, LateKnown
<1>6. Fades
  BY <1>2, FadesStay DEF RosterInv
<1> QED BY <1>2, <1>3, <1>4, <1>5, <1>6, TurnsKeep

LEMMA PlannerStopsKeep ==
  ASSUME RosterInv, NEW p \in Listeners, R!Stops(p)
  PROVE  RosterInv'
<1>1. /\ UNCHANGED <<shifts, leaves>> /\ Turns(p, R!Idle)
      /\ halfway' = IF planning[p].step = "cancel" THEN halfway \cup {planning[p].leave} ELSE halfway
  BY DEF R!Stops, Turns
<1>2. halfway \subseteq halfway' /\ (planning[p].step = "cancel" => planning[p].leave \in halfway')
  BY <1>1
<1>3. Fades
  BY <1>1, FadesStay DEF RosterInv
<1> QED BY <1>1, <1>2, <1>3, IdlePlan, TurnsKeep

\* Whoever plans has an entry to roster, in one of the spans there are.
LEMMA PlanHasEntry ==
  ASSUME RosterInv, NEW q \in Listeners, planning[q].todo # <<>>
  PROVE  /\ Head(planning[q].todo) \in Entries
         /\ Whom(planning[q]) \in {e[1] : e \in Entries} /\ When(planning[q]) \in Spans
<1>1. planning[q].todo \in Seq(Entries)
  BY DEF RosterInv, RosterTyped, IsPlan
<1>2. Head(planning[q].todo) \in Entries
  BY <1>1, HeadTailProperties
<1>3. ASSUME NEW e \in Entries PROVE e[2] \in Spans
  <2>1. PICK t \in Templates : \E k \in DOMAIN t : e = t[k]
    BY DEF Entries
  <2>2. \A k \in DOMAIN t : t[k][2] \in Spans
    BY Zenon, TemplatesAreLists
  <2> QED BY <2>1, <2>2
<1> QED BY <1>2, <1>3 DEF Whom, When

LEMMA InsertsKeep ==
  ASSUME RosterInv, NEW p \in Listeners, R!Inserts(p)
  PROVE  RosterInv'
<1> DEFINE j == planning[p]
<1> DEFINE s == [user |-> R!User(p), span |-> R!Span(p), state |-> "draft", twin |-> j.twin, late |-> j.late]
<1> DEFINE Told(q) == planning[q].twin \/ (planning[q].step \in {"leave", "insert"}
                                          /\ R!Clashes(q, R!User(p), R!Span(p)))
<1>1. /\ j.step = "insert" /\ shifts' = Append(shifts, s) /\ UNCHANGED <<leaves, halfway>>
      /\ planning' = [q \in Listeners |-> IF q = p THEN R!Onward(p) ELSE [planning[q] EXCEPT !.twin = Told(q)]]
  BY DEF R!Inserts
<1>2. \A q \in Listeners : IsPlan(planning[q], DOMAIN leaves) /\ TwinKnown(planning[q]) /\ LateKnown(planning[q])
  BY DEF RosterInv, RosterTyped
<1>3. j.todo # <<>> /\ j.twin \in BOOLEAN /\ j.late \in BOOLEAN
  BY <1>1, <1>2 DEF IsPlan
<1>4. R!User(p) = Whom(j) /\ R!Span(p) = When(j)
  BY DEF R!User, R!Span, Whom, When
<1>5. s \in Shifts /\ s.user = Whom(j) /\ s.span = When(j) /\ s.twin = j.twin /\ s.late = j.late
  BY <1>3, <1>4, PlanHasEntry DEF Shifts
<1> HIDE DEF s
<1>6. shifts \in Seq(Shifts) /\ leaves \in Seq(Leaves)
  BY DEF RosterInv, RosterTyped
<1>7. /\ shifts' \in Seq(Shifts) /\ Len(shifts') = Len(shifts) + 1 /\ Len(shifts) \in Nat
      /\ DOMAIN shifts = 1..Len(shifts) /\ DOMAIN shifts' = 1..(Len(shifts) + 1)
      /\ shifts'[Len(shifts) + 1] = s /\ \A i \in DOMAIN shifts : shifts'[i] = shifts[i]
  BY <1>1, <1>5, <1>6
<1>8. ASSUME NEW q \in Listeners \ {p}
      PROVE  /\ planning'[q] = [planning[q] EXCEPT !.twin = Told(q)] /\ planning'[q].twin = Told(q)
             /\ planning'[q].todo = planning[q].todo /\ planning'[q].step = planning[q].step
             /\ planning'[q].leave = planning[q].leave /\ planning'[q].late = planning[q].late
             /\ IsPlan(planning'[q], DOMAIN leaves)
  <2>1. planning'[q] = [planning[q] EXCEPT !.twin = Told(q)]
    BY <1>1
  <2>2. Told(q) \in BOOLEAN
    BY <1>2 DEF IsPlan
  <2> HIDE DEF Told
  <2> QED BY <1>2, <2>1, <2>2 DEF IsPlan
<1> HIDE DEF Told
<1>9. planning'[p] = R!Onward(p)
  BY <1>1
<1>10. /\ IsPlan(planning'[p], DOMAIN leaves) /\ planning'[p].step \in {"none", "overlap"}
  BY <1>3, <1>9, OnwardPlan
<1>11. RosterTyped'
  <2>1. \A q \in Listeners : IsPlan(planning'[q], DOMAIN leaves)
    BY <1>8, <1>10
  <2>2. \A q \in Listeners : IsPlan(planning[q], DOMAIN leaves)'
    <3> TAKE q \in Listeners
    <3>1. IsPlan(planning'[q], DOMAIN leaves) /\ DOMAIN leaves' = DOMAIN leaves
      BY <1>1, <2>1
    <3> QED BY Zenon, <3>1 DEF IsPlan, Entries
  <2>3. planning' = [q \in Listeners |-> planning'[q]]
    BY <1>1
  <2> QED BY <1>1, <1>6, <1>7, <2>2, <2>3 DEF RosterTyped
<1>12. \A q \in Listeners : TwinKnown(planning[q])' /\ LateKnown(planning[q])'
  <2> SUFFICES ASSUME NEW q \in Listeners
               PROVE  /\ planning'[q].step \in {"leave", "insert"} =>
                           \A i \in DOMAIN shifts' :
                             shifts'[i].user = Whom(planning'[q]) /\ R!Live(shifts'[i])
                             /\ R!Overlap(shifts'[i].span, When(planning'[q])) => planning'[q].twin
                      /\ planning'[q].step = "insert" =>
                           \A l \in DOMAIN leaves :
                             leaves[l].user = Whom(planning'[q]) /\ leaves[l].status = "approved"
                             /\ R!Overlap(leaves[l].span, When(planning'[q])) => planning'[q].late
    BY <1>1, Zenon DEF TwinKnown, LateKnown, Whom, When, R!Live, R!Overlap
  <2>1. CASE q = p
    BY <1>10, <2>1
  <2>2. CASE q # p
    <3> DEFINE m == planning[q]
    <3> DEFINE n == planning'[q]
    <3>1. n.todo = m.todo /\ n.step = m.step /\ n.late = m.late /\ n.twin = Told(q)
      BY <1>8, <2>2
    <3>2. Whom(n) = Whom(m) /\ When(n) = When(m)
      BY <3>1 DEF Whom, When
    <3>3. TwinKnown(m) /\ LateKnown(m) /\ IsPlan(m, DOMAIN leaves)
      BY <1>2
    <3>4. ASSUME n.step \in {"leave", "insert"}, NEW i \in DOMAIN shifts', shifts'[i].user = Whom(n),
                 R!Live(shifts'[i]), R!Overlap(shifts'[i].span, When(n))
          PROVE  n.twin
      <4>1. CASE i \in DOMAIN shifts
        <5>1. m.twin
          BY <1>7, <3>1, <3>2, <3>3, <3>4, <4>1 DEF TwinKnown
        <5> QED BY <3>1, <5>1 DEF Told
      <4>2. CASE i = Len(shifts) + 1
        <5>1. s.user = Whom(m) /\ R!Overlap(s.span, When(m))
          BY <1>7, <3>2, <3>4, <4>2
        <5>2. m.todo # <<>>
          BY <3>1, <3>3, <3>4 DEF IsPlan
        <5>3. When(m) \in Spans /\ When(j) \in Spans
          BY <1>3, <5>2, PlanHasEntry
        <5>4. R!Overlap(When(m), R!Span(p)) /\ Whom(m) = R!User(p)
          BY <1>4, <1>5, <5>1, <5>3, OverlapSymmetric
        <5>5. R!Clashes(q, R!User(p), R!Span(p))
          BY <5>2, <5>4 DEF R!Clashes, R!User, R!Span, Whom, When
        <5> QED BY <3>1, <3>4, <5>5 DEF Told
      <4> QED BY <1>7, <3>4, <4>1, <4>2
    <3> QED BY <3>1, <3>2, <3>3, <3>4 DEF LateKnown
  <2> QED BY <2>1, <2>2
<1>13. R!NoDoubleBooking'
  <2> SUFFICES ASSUME NEW a \in DOMAIN shifts', NEW b \in DOMAIN shifts', a < b,
                      shifts'[a].user = shifts'[b].user, R!Live(shifts'[a]), R!Live(shifts'[b]),
                      R!Overlap(shifts'[a].span, shifts'[b].span)
               PROVE  shifts'[b].twin
    BY DEF R!NoDoubleBooking, R!Live, R!Overlap
  <2>1. a \in DOMAIN shifts
    BY <1>7
  <2>2. CASE b \in DOMAIN shifts
    BY <1>7, <2>1, <2>2 DEF RosterInv, R!NoDoubleBooking
  <2>3. CASE b = Len(shifts) + 1
    <3>1. shifts[a].user = Whom(j) /\ R!Live(shifts[a]) /\ R!Overlap(shifts[a].span, When(j))
      BY <1>5, <1>7, <2>1, <2>3
    <3>2. j.twin
      BY <1>1, <1>2, <2>1, <3>1 DEF TwinKnown
    <3> QED BY <1>5, <1>7, <2>3, <3>2
  <2> QED BY <1>7, <2>2, <2>3
<1>14. R!LeaveIsKept'
  <2> SUFFICES ASSUME NEW l \in DOMAIN leaves', NEW i \in DOMAIN shifts',
                      leaves'[l].status = "approved", shifts'[i].user = leaves'[l].user,
                      R!Live(shifts'[i]), R!Overlap(shifts'[i].span, leaves'[l].span)
               PROVE  \/ shifts'[i].late \/ l \in halfway'
                      \/ \E q \in Listeners : planning'[q].step = "cancel" /\ planning'[q].leave = l
    BY DEF R!LeaveIsKept, R!Live, R!Overlap
  <2>0. l \in DOMAIN leaves /\ leaves' = leaves /\ halfway' = halfway
    BY <1>1
  <2>1. CASE i \in DOMAIN shifts
    <3>1. \/ shifts[i].late \/ l \in halfway
          \/ \E q \in Listeners : planning[q].step = "cancel" /\ planning[q].leave = l
      BY <1>7, <2>0, <2>1 DEF RosterInv, R!LeaveIsKept
    <3>2. ASSUME NEW q \in Listeners, planning[q].step = "cancel", planning[q].leave = l
          PROVE  planning'[q].step = "cancel" /\ planning'[q].leave = l
      BY <1>1, <1>8, <3>2
    <3> QED BY <1>7, <2>0, <2>1, <3>1, <3>2
  <2>2. CASE i = Len(shifts) + 1
    <3>1. leaves[l].user = Whom(j) /\ leaves[l].status = "approved" /\ R!Overlap(When(j), leaves[l].span)
      BY <1>5, <1>7, <2>0, <2>2
    <3>2. When(j) \in Spans /\ leaves[l].span \in Spans
      <4>1. leaves[l] \in Leaves
        BY <1>6, <2>0
      <4> QED BY <1>3, <4>1, PlanHasEntry DEF Leaves
    <3>3. j.late
      BY <1>1, <1>2, <2>0, <3>1, <3>2, OverlapSymmetric DEF LateKnown
    <3> QED BY <1>5, <1>7, <2>2, <3>3
  <2> QED BY <1>7, <2>1, <2>2
<1> QED BY <1>11, <1>12, <1>13, <1>14 DEF RosterInv

\* A step of the roster that no request takes.
LEMMA FadesKeep ==
  ASSUME RosterInv, Fades, UNCHANGED <<leaves, planning, halfway>>
  PROVE  RosterInv'
<1>1. RosterTyped'
  <2>1. \A q \in Listeners : IsPlan(planning[q], DOMAIN leaves)'
    <3> TAKE q \in Listeners
    <3>1. IsPlan(planning[q], DOMAIN leaves) /\ DOMAIN leaves' = DOMAIN leaves /\ planning'[q] = planning[q]
      BY DEF RosterInv, RosterTyped
    <3> QED BY Zenon, <3>1 DEF IsPlan, Entries
  <2> QED BY <2>1 DEF RosterInv, RosterTyped, Fades
<1>2. \A q \in Listeners : TwinKnown(planning[q])' /\ LateKnown(planning[q])'
  <2> TAKE q \in Listeners
  <2> DEFINE j == planning[q]
  <2>1. TwinKnown(j) /\ LateKnown(j) /\ planning'[q] = j
    BY DEF RosterInv
  <2>2. /\ j.step \in {"leave", "insert"} =>
             \A i \in DOMAIN shifts' :
               shifts'[i].user = Whom(j) /\ R!Live(shifts'[i]) /\ R!Overlap(shifts'[i].span, When(j)) => j.twin
        /\ j.step = "insert" =>
             \A l \in DOMAIN leaves' :
               leaves'[l].user = Whom(j) /\ leaves'[l].status = "approved" /\ R!Overlap(leaves'[l].span, When(j)) => j.late
    BY <2>1, KnownStays
  <2> QED BY <2>1, <2>2, Zenon DEF TwinKnown, LateKnown, Whom, When, R!Live, R!Overlap
<1>3. R!NoDoubleBooking'
  BY BookingFades DEF RosterInv
<1>4. R!LeaveIsKept'
  <2> SUFFICES ASSUME NEW l \in DOMAIN leaves', NEW i \in DOMAIN shifts',
                      leaves'[l].status = "approved", shifts'[i].user = leaves'[l].user,
                      R!Live(shifts'[i]), R!Overlap(shifts'[i].span, leaves'[l].span)
               PROVE  \/ shifts'[i].late \/ l \in halfway'
                      \/ \E q \in Listeners : planning'[q].step = "cancel" /\ planning'[q].leave = l
    BY DEF R!LeaveIsKept, R!Live, R!Overlap
  <2>1. /\ i \in DOMAIN shifts /\ l \in DOMAIN leaves
        /\ leaves[l].status = "approved" /\ shifts[i].user = leaves[l].user
        /\ R!Live(shifts[i]) /\ R!Overlap(shifts[i].span, leaves[l].span)
    BY DEF Fades
  <2>2. \/ shifts[i].late \/ l \in halfway
        \/ \E q \in Listeners : planning[q].step = "cancel" /\ planning[q].leave = l
    BY <2>1 DEF RosterInv, R!LeaveIsKept
  <2> QED BY <2>1, <2>2 DEF Fades
<1> QED BY <1>1, <1>2, <1>3, <1>4 DEF RosterInv

LEMMA ShiftStates ==
  ASSUME NEW s \in Shifts, NEW v \in {"draft", "published", "cancelled"}
  PROVE  /\ [s EXCEPT !.state = v] \in Shifts /\ [s EXCEPT !.state = v].state = v
         /\ [s EXCEPT !.state = v].user = s.user /\ [s EXCEPT !.state = v].span = s.span
         /\ [s EXCEPT !.state = v].twin = s.twin /\ [s EXCEPT !.state = v].late = s.late
BY DEF Shifts

\* Shifts that change their state only, those that are not live staying so.
LEMMA StatesFade ==
  ASSUME RosterTyped, NEW f, f = [i \in DOMAIN shifts |-> f[i]], shifts' = f,
         \A i \in DOMAIN shifts :
           /\ f[i] \in Shifts
           /\ f[i].user = shifts[i].user /\ f[i].span = shifts[i].span
           /\ f[i].twin = shifts[i].twin /\ f[i].late = shifts[i].late
           /\ R!Live(f[i]) => R!Live(shifts[i])
  PROVE  Fades
<1>1. DOMAIN shifts = 1 .. Len(shifts) /\ Len(shifts) \in Nat
  BY DEF RosterTyped
<1>2. f \in [1 .. Len(shifts) -> Shifts]
  BY <1>1
<1>3. f \in Seq(Shifts)
  BY <1>1, <1>2, SeqDef
<1>4. DOMAIN f = DOMAIN shifts
  BY <1>1, <1>2
<1> QED BY <1>3, <1>4 DEF Fades

LEMMA PublishShiftsKeep ==
  ASSUME RosterInv, R!PublishShifts
  PROVE  RosterInv'
<1>1. PICK window \in Spans :
        shifts' = [i \in DOMAIN shifts |->
                     IF shifts[i].state = "draft" /\ R!Within(window, shifts[i].span)
                     THEN [shifts[i] EXCEPT !.state = "published"] ELSE shifts[i]]
  BY DEF R!PublishShifts
<1>2. UNCHANGED <<leaves, planning, halfway>>
  BY DEF R!PublishShifts
<1>3. \A i \in DOMAIN shifts : shifts[i] \in Shifts
  BY DEF RosterInv, RosterTyped
<1> DEFINE g(i) == [shifts[i] EXCEPT !.state = "published"]
<1>4. \A i \in DOMAIN shifts :
        /\ g(i) \in Shifts /\ g(i).user = shifts[i].user /\ g(i).span = shifts[i].span
        /\ g(i).twin = shifts[i].twin /\ g(i).late = shifts[i].late
  BY <1>3, ShiftStates
<1> HIDE DEF g
<1>5. shifts' = [i \in DOMAIN shifts |->
                   IF shifts[i].state = "draft" /\ R!Within(window, shifts[i].span) THEN g(i) ELSE shifts[i]]
  BY <1>1 DEF g
<1>6. Fades
  <2> DEFINE f == [i \in DOMAIN shifts |->
                     IF shifts[i].state = "draft" /\ R!Within(window, shifts[i].span) THEN g(i) ELSE shifts[i]]
  <2>1. \A i \in DOMAIN shifts :
          /\ f[i] \in Shifts
          /\ f[i].user = shifts[i].user /\ f[i].span = shifts[i].span
          /\ f[i].twin = shifts[i].twin /\ f[i].late = shifts[i].late
          /\ R!Live(f[i]) => R!Live(shifts[i])
    BY <1>3, <1>4 DEF R!Live
  <2>2. f = [i \in DOMAIN shifts |-> f[i]] /\ shifts' = f
    BY <1>5
  <2> HIDE DEF f
  <2> QED BY <2>1, <2>2, StatesFade DEF RosterInv
<1> QED BY <1>2, <1>6, FadesKeep

LEMMA CancelShiftKeeps ==
  ASSUME RosterInv, R!CancelShift
  PROVE  RosterInv'
<1>1. PICK k \in DOMAIN shifts : shifts' = [shifts EXCEPT ![k].state = "cancelled"]
  BY DEF R!CancelShift
<1>2. UNCHANGED <<leaves, planning, halfway>>
  BY DEF R!CancelShift
<1>3. \A i \in DOMAIN shifts : shifts[i] \in Shifts
  BY DEF RosterInv, RosterTyped
<1> DEFINE c == [shifts[k] EXCEPT !.state = "cancelled"]
<1> DEFINE f == [shifts EXCEPT ![k] = c]
<1>4. /\ c \in Shifts /\ c.user = shifts[k].user /\ c.span = shifts[k].span
      /\ c.twin = shifts[k].twin /\ c.late = shifts[k].late /\ c.state = "cancelled"
  BY <1>3, ShiftStates
<1>5. shifts' = f
  BY <1>1
<1> HIDE DEF c
<1>6. DOMAIN f = DOMAIN shifts /\ f[k] = c /\ \A i \in DOMAIN shifts \ {k} : f[i] = shifts[i]
  OBVIOUS
<1>7. f = [i \in DOMAIN shifts |-> f[i]]
  OBVIOUS
<1> HIDE DEF f
<1>8. Fades
  BY <1>3, <1>4, <1>5, <1>6, <1>7, StatesFade DEF RosterInv, R!Live
<1> QED BY <1>2, <1>8, FadesKeep

LEMMA CancelsShiftsKeep ==
  ASSUME RosterInv, NEW p \in Listeners, R!CancelsShifts(p)
  PROVE  RosterInv'
<1> DEFINE l == planning[p].leave
<1> DEFINE g(i) == [shifts[i] EXCEPT !.state = "cancelled"]
<1>1. /\ planning[p].step = "cancel" /\ UNCHANGED <<leaves, halfway>> /\ Turns(p, R!Idle)
      /\ shifts' = [i \in DOMAIN shifts |-> IF i \in R!Collide(l) THEN g(i) ELSE shifts[i]]
  BY DEF R!CancelsShifts, Turns
<1>2. \A i \in DOMAIN shifts : shifts[i] \in Shifts
  BY DEF RosterInv, RosterTyped
<1>3. \A i \in DOMAIN shifts :
        /\ g(i) \in Shifts /\ g(i).user = shifts[i].user /\ g(i).span = shifts[i].span
        /\ g(i).twin = shifts[i].twin /\ g(i).late = shifts[i].late /\ g(i).state = "cancelled"
  BY <1>2, ShiftStates
<1> HIDE DEF g
<1> DEFINE f == [i \in DOMAIN shifts |-> IF i \in R!Collide(l) THEN g(i) ELSE shifts[i]]
<1>4. \A i \in DOMAIN shifts :
        /\ f[i] \in Shifts
        /\ f[i].user = shifts[i].user /\ f[i].span = shifts[i].span
        /\ f[i].twin = shifts[i].twin /\ f[i].late = shifts[i].late
        /\ R!Live(f[i]) => R!Live(shifts[i])
        /\ i \in R!Collide(l) => ~R!Live(f[i])
  BY <1>2, <1>3 DEF R!Live
<1>5. f = [i \in DOMAIN shifts |-> f[i]] /\ shifts' = f
  BY <1>1
<1> HIDE DEF f
<1>6. Fades
  BY <1>4, <1>5, StatesFade DEF RosterInv
<1>7. \A i \in DOMAIN shifts :
        shifts[i].user = leaves[l].user /\ R!Overlap(shifts[i].span, leaves[l].span) => ~R!Live(shifts'[i])
  BY <1>4, <1>5 DEF R!Collide
<1> QED BY <1>1, <1>6, <1>7, IdlePlan, TurnsKeep

\* Leaves that change while nobody is rostered: what is known must cover the approved ones.
LEMMA LeavesChange ==
  ASSUME RosterInv, UNCHANGED <<shifts, halfway>>, leaves' \in Seq(Leaves), DOMAIN leaves \subseteq DOMAIN leaves',
         planning' = [q \in Listeners |-> planning'[q]],
         \A q \in Listeners : IsPlan(planning'[q], DOMAIN leaves'),
         \A q \in Listeners : /\ planning'[q].step \in {"leave", "insert"} => planning'[q].step = planning[q].step
                              /\ planning'[q].step \in {"leave", "insert"} => planning'[q].twin = planning[q].twin
                              /\ planning'[q].step \in {"leave", "insert"} => planning'[q].todo = planning[q].todo,
         \A q \in Listeners : planning[q].step = "cancel" =>
                                planning'[q].step = "cancel" /\ planning'[q].leave = planning[q].leave,
         \A q \in Listeners, l \in DOMAIN leaves' :
           /\ planning'[q].step = "insert" /\ leaves'[l].user = Whom(planning'[q])
           /\ leaves'[l].status = "approved" /\ R!Overlap(leaves'[l].span, When(planning'[q]))
           => planning'[q].late,
         \A l \in DOMAIN leaves' :
           leaves'[l].status = "approved" =>
             \/ l \in DOMAIN leaves /\ leaves[l] = leaves'[l]
             \/ \E p \in Listeners : planning'[p].step = "cancel" /\ planning'[p].leave = l
  PROVE  RosterInv'
<1>1. RosterTyped'
  <2>1. \A q \in Listeners : IsPlan(planning[q], DOMAIN leaves)'
    <3> TAKE q \in Listeners
    <3>1. IsPlan(planning'[q], DOMAIN leaves')
      OBVIOUS
    <3> QED BY Zenon, <3>1 DEF IsPlan, Entries
  <2> QED BY <2>1 DEF RosterInv, RosterTyped
<1>2. \A q \in Listeners : TwinKnown(planning[q])' /\ LateKnown(planning[q])'
  <2> TAKE q \in Listeners
  <2>1. TwinKnown(planning[q])
    BY DEF RosterInv
  <2>2. planning'[q].step \in {"leave", "insert"} =>
          \A i \in DOMAIN shifts' :
            shifts'[i].user = Whom(planning'[q]) /\ R!Live(shifts'[i])
            /\ R!Overlap(shifts'[i].span, When(planning'[q])) => planning'[q].twin
    BY <2>1 DEF TwinKnown, Whom, When
  <2> QED BY <2>2, Zenon DEF TwinKnown, LateKnown, Whom, When, R!Live, R!Overlap
<1>3. R!NoDoubleBooking'
  BY DEF RosterInv, R!NoDoubleBooking
<1>4. R!LeaveIsKept'
  <2> SUFFICES ASSUME NEW l \in DOMAIN leaves', NEW i \in DOMAIN shifts',
                      leaves'[l].status = "approved", shifts'[i].user = leaves'[l].user,
                      R!Live(shifts'[i]), R!Overlap(shifts'[i].span, leaves'[l].span)
               PROVE  \/ shifts'[i].late \/ l \in halfway'
                      \/ \E q \in Listeners : planning'[q].step = "cancel" /\ planning'[q].leave = l
    BY DEF R!LeaveIsKept, R!Live, R!Overlap
  <2>1. CASE l \in DOMAIN leaves /\ leaves[l] = leaves'[l]
    <3>1. \/ shifts[i].late \/ l \in halfway
          \/ \E q \in Listeners : planning[q].step = "cancel" /\ planning[q].leave = l
      BY <2>1 DEF RosterInv, R!LeaveIsKept
    <3> QED BY <3>1
  <2> QED BY <2>1
<1> QED BY <1>1, <1>2, <1>3, <1>4 DEF RosterInv

LEMMA RequestTimeOffKeeps ==
  ASSUME RosterInv, R!RequestTimeOff
  PROVE  RosterInv'
<1>1. PICK u \in People, s \in Spans :
        leaves' = Append(leaves, [user |-> u, span |-> s, status |-> "requested"])
  BY DEF R!RequestTimeOff
<1> DEFINE n == [user |-> u, span |-> s, status |-> "requested"]
<1>2. n \in Leaves /\ n.status # "approved"
  BY DEF Leaves
<1>3. UNCHANGED <<shifts, planning, halfway>> /\ leaves' = Append(leaves, n)
  BY <1>1 DEF R!RequestTimeOff
<1> HIDE DEF n
<1>4. leaves \in Seq(Leaves)
  BY DEF RosterInv, RosterTyped
<1>5. /\ leaves' \in Seq(Leaves) /\ DOMAIN leaves \subseteq DOMAIN leaves'
      /\ \A l \in DOMAIN leaves : leaves'[l] = leaves[l]
      /\ \A l \in DOMAIN leaves' : l \in DOMAIN leaves \/ leaves'[l] = n
  BY <1>2, <1>3, <1>4
<1>6. \A q \in Listeners : IsPlan(planning[q], DOMAIN leaves) /\ LateKnown(planning[q])
  BY DEF RosterInv, RosterTyped
<1>7. \A q \in Listeners : IsPlan(planning[q], DOMAIN leaves')
  BY <1>5, <1>6 DEF IsPlan
<1>8. \A l \in DOMAIN leaves' : leaves'[l].status = "approved" => l \in DOMAIN leaves /\ leaves[l] = leaves'[l]
  BY <1>2, <1>5
<1>9. \A q \in Listeners, l \in DOMAIN leaves' :
        /\ planning[q].step = "insert" /\ leaves'[l].user = Whom(planning[q])
        /\ leaves'[l].status = "approved" /\ R!Overlap(leaves'[l].span, When(planning[q]))
        => planning[q].late
  BY <1>6, <1>8 DEF LateKnown
<1>10. planning' = [q \in Listeners |-> planning'[q]]
  BY <1>3 DEF RosterInv, RosterTyped
<1> QED BY <1>3, <1>5, <1>7, <1>8, <1>9, <1>10, LeavesChange

LEMMA LeaveDecided ==
  ASSUME NEW n \in Leaves, NEW v \in {"approved", "declined"}
  PROVE  /\ [n EXCEPT !.status = v] \in Leaves /\ [n EXCEPT !.status = v].status = v
         /\ [n EXCEPT !.status = v].user = n.user /\ [n EXCEPT !.status = v].span = n.span
BY DEF Leaves

LEMMA DecidesKeep ==
  ASSUME RosterInv, NEW p \in Listeners, R!Decides(p)
  PROVE  RosterInv'
<1> DEFINE l == planning[p].leave
           yes == planning[p].approve
           v == IF yes THEN "approved" ELSE "declined"
           row == [leaves[l] EXCEPT !.status = v]
           mine == IF yes THEN [planning[p] EXCEPT !.step = "cancel"] ELSE R!Idle
           Told(q) == planning[q].late \/ (yes /\ planning[q].step = "insert"
                                             /\ R!Clashes(q, leaves[l].user, leaves[l].span))
<1>1. /\ planning[p].step = "decide" /\ UNCHANGED <<shifts, halfway>>
      /\ leaves' = [leaves EXCEPT ![l] = row]
      /\ planning' = [q \in Listeners |-> IF q = p THEN mine ELSE [planning[q] EXCEPT !.late = Told(q)]]
  BY DEF R!Decides
<1>2. \A q \in Listeners : IsPlan(planning[q], DOMAIN leaves) /\ LateKnown(planning[q])
  BY DEF RosterInv, RosterTyped
<1>3. l \in DOMAIN leaves /\ yes \in BOOLEAN
  BY <1>1, <1>2 DEF IsPlan
<1>4. leaves \in Seq(Leaves) /\ leaves[l] \in Leaves
  BY <1>3 DEF RosterInv, RosterTyped
<1>5. row \in Leaves /\ row.status = v /\ row.user = leaves[l].user /\ row.span = leaves[l].span
  BY <1>4, LeaveDecided
<1> HIDE DEF row
<1>6. /\ leaves' \in Seq(Leaves) /\ DOMAIN leaves' = DOMAIN leaves /\ leaves'[l] = row
      /\ \A m \in DOMAIN leaves \ {l} : leaves'[m] = leaves[m]
  BY <1>1, <1>3, <1>4, <1>5
<1>7. ASSUME NEW q \in Listeners \ {p}
      PROVE  /\ planning'[q].late = Told(q) /\ planning'[q].twin = planning[q].twin
             /\ planning'[q].todo = planning[q].todo /\ planning'[q].step = planning[q].step
             /\ planning'[q].leave = planning[q].leave
             /\ IsPlan(planning'[q], DOMAIN leaves)
  <2>1. planning'[q] = [planning[q] EXCEPT !.late = Told(q)]
    BY <1>1
  <2>2. Told(q) \in BOOLEAN
    BY <1>2 DEF IsPlan
  <2> HIDE DEF Told
  <2> QED BY <1>2, <2>1, <2>2 DEF IsPlan
<1> HIDE DEF Told
<1>8. /\ planning'[p] = mine /\ mine.step \in {"none", "cancel"} /\ IsPlan(mine, DOMAIN leaves)
      /\ yes => mine.step = "cancel" /\ mine.leave = l
  <2>1. planning'[p] = mine
    BY <1>1
  <2>2. CASE yes
    <3>1. mine = [planning[p] EXCEPT !.step = "cancel"]
      BY <2>2
    <3> HIDE DEF mine
    <3>2. mine.step = "cancel" /\ mine.leave = l /\ IsPlan(mine, DOMAIN leaves)
      BY <1>2, <1>3, <3>1 DEF IsPlan
    <3> QED BY <2>1, <3>2
  <2>3. CASE ~yes
    <3>1. mine = R!Idle
      BY <2>3
    <3> HIDE DEF mine
    <3> QED BY <2>1, <2>3, <3>1, IdlePlan
  <2> QED BY <2>2, <2>3
<1> HIDE DEF mine
<1>9. planning' = [q \in Listeners |-> planning'[q]]
  BY <1>1
<1>10. \A q \in Listeners : IsPlan(planning'[q], DOMAIN leaves')
  BY <1>6, <1>7, <1>8
<1>11. \A m \in DOMAIN leaves' :
         leaves'[m].status = "approved" =>
           \/ m \in DOMAIN leaves /\ leaves[m] = leaves'[m]
           \/ \E o \in Listeners : planning'[o].step = "cancel" /\ planning'[o].leave = m
  <2> SUFFICES ASSUME NEW m \in DOMAIN leaves', leaves'[m].status = "approved", m = l
               PROVE  \E o \in Listeners : planning'[o].step = "cancel" /\ planning'[o].leave = m
    BY <1>6
  <2>1. yes
    BY <1>3, <1>5, <1>6
  <2> QED BY <1>8, <2>1
<1>12. ASSUME NEW q \in Listeners, NEW m \in DOMAIN leaves', planning'[q].step = "insert",
              leaves'[m].user = Whom(planning'[q]), leaves'[m].status = "approved",
              R!Overlap(leaves'[m].span, When(planning'[q]))
       PROVE  planning'[q].late
  <2>1. q # p
    BY <1>8, <1>12
  <2>2. Whom(planning'[q]) = Whom(planning[q]) /\ When(planning'[q]) = When(planning[q])
        /\ planning[q].step = "insert"
    BY <1>7, <1>12, <2>1 DEF Whom, When
  <2>3. CASE m # l
    <3>1. planning[q].late
      BY <1>2, <1>6, <1>12, <2>2, <2>3 DEF LateKnown
    <3> QED BY <1>7, <2>1, <3>1 DEF Told
  <2>4. CASE m = l
    <3>1. yes
      BY <1>3, <1>5, <1>6, <1>12, <2>4
    <3>2. planning[q].todo # <<>>
      BY <1>2, <2>2 DEF IsPlan
    <3>3. When(planning[q]) \in Spans /\ leaves[l].span \in Spans
      BY <1>4, <3>2, PlanHasEntry DEF Leaves
    <3>4. R!Overlap(When(planning[q]), leaves[l].span) /\ Whom(planning[q]) = leaves[l].user
      BY <1>5, <1>6, <1>12, <2>2, <2>4, <3>3, OverlapSymmetric
    <3>5. R!Clashes(q, leaves[l].user, leaves[l].span)
      BY <3>2, <3>4 DEF R!Clashes, R!User, R!Span, Whom, When
    <3> QED BY <1>7, <2>1, <2>2, <3>1, <3>5 DEF Told
  <2> QED BY <2>3, <2>4
<1>13. \A q \in Listeners :
         /\ planning'[q].step \in {"leave", "insert"} => planning'[q].step = planning[q].step
         /\ planning'[q].step \in {"leave", "insert"} => planning'[q].twin = planning[q].twin
         /\ planning'[q].step \in {"leave", "insert"} => planning'[q].todo = planning[q].todo
  BY <1>7, <1>8
<1>14. \A q \in Listeners : planning[q].step = "cancel" =>
                              planning'[q].step = "cancel" /\ planning'[q].leave = planning[q].leave
  BY <1>1, <1>7
<1> QED BY <1>1, <1>6, <1>9, <1>10, <1>11, <1>12, <1>13, <1>14, LeavesChange

LEMMA RosterInit == ASSUME R!Init PROVE RosterInv
<1>1. shifts = <<>> /\ leaves = <<>> /\ planning = [p \in Listeners |-> R!Idle]
  BY DEF R!Init
<1>2. shifts \in Seq(Shifts) /\ leaves \in Seq(Leaves) /\ DOMAIN shifts = {} /\ DOMAIN leaves = {}
  BY <1>1, EmptySeq
<1>3. \A p \in Listeners : IsPlan(planning[p], DOMAIN leaves) /\ TwinKnown(planning[p]) /\ LateKnown(planning[p])
  BY <1>1, IdlePlan
<1> QED BY <1>1, <1>2, <1>3 DEF RosterInv, RosterTyped, R!NoDoubleBooking, R!LeaveIsKept

LEMMA RosterNext == ASSUME RosterInv, R!Next \/ UNCHANGED rosterVars PROVE RosterInv'
<1>1. CASE UNCHANGED rosterVars
  BY <1>1, FadesStay, FadesKeep DEF rosterVars, RosterInv
<1>2. CASE R!PublishShifts \/ R!CancelShift \/ R!RequestTimeOff
  BY <1>2, PublishShiftsKeep, CancelShiftKeeps, RequestTimeOffKeeps
<1>3. ASSUME NEW p \in Listeners,
             \/ R!StartsShifts(p) \/ R!ChecksOverlap(p) \/ R!ChecksLeave(p) \/ R!Inserts(p)
             \/ R!ReadsRequest(p) \/ R!Decides(p) \/ R!CancelsShifts(p) \/ R!Stops(p)
      PROVE  RosterInv'
  BY <1>3, StartsShiftsKeep, ChecksKeep, InsertsKeep, ReadsRequestKeep, DecidesKeep, CancelsShiftsKeep,
     PlannerStopsKeep
<1> QED BY <1>1, <1>2, <1>3 DEF R!Next

-----------------------------------------------------------------------------
(* The log of an agent's presence. The walk over it is a recursive function;    *)
(* that it exists, and what it has found after so many rows, is shown by        *)
(* induction. A change that was written and not heard is open, and until it is  *)
(* heard what the log says of its minutes may be wrong.                         *)

Changes == [state : Presences, at : 0 .. 2 * Day, n : 1 .. MaxWrites]
OpenChanges == pending \cup ({tab[t] : t \in Tabs} \ {Nobody})
Rows == [state : Presences, at : Nat]
\* What the first k rows say the presence was at the end of a minute.
Says(k, m, s) ==
  \/ s = "offline" /\ \A i \in 1 .. k : log[i].at > m
  \/ \E i \in 1 .. k : log[i].at <= m /\ log[i].state = s /\ \A j \in i + 1 .. k : log[j].at > m
DayTyped ==
  /\ day \in 0 .. 2 * Day /\ writes \in 0 .. MaxWrites /\ last \in 0 .. writes
  /\ tab = [t \in Tabs |-> tab[t]]
  /\ \A e \in OpenChanges : e \in Changes /\ e.at <= day /\ e.n <= writes
  /\ presence \in Presences \cup {"offline"}
  /\ truth \in Seq(Presences \cup {"offline"}) /\ Len(truth) = day
  /\ skewed \in BOOLEAN
RowsInOrder ==
  /\ log \in Seq(Rows)
  /\ \A i \in 1 .. Len(log) : log[i].at <= day
  /\ \A i, j \in 1 .. Len(log) : i <= j => log[i].at <= log[j].at
NewestIsThere == \A e \in OpenChanges : e.n = writes => e.state = presence
HeardSoFar ==
  ~skewed =>
    /\ writes > last => \E e \in OpenChanges : e.n = writes
    /\ OpenChanges = {} => presence = IF log = <<>> THEN "offline" ELSE log[Len(log)].state
    /\ \A m \in 0 .. day - 1 : (\E e \in OpenChanges : e.at <= m) \/ Says(Len(log), m, truth[m + 1])
DayInv ==
  /\ DayTyped /\ RowsInOrder /\ NewestIsThere /\ HeardSoFar
  /\ record # Nobody /\ record.faithful => day = 2 * Day
  /\ P!RecordTellsTheDay

LEMMA LessIsWellFounded ==
  \E less : IsWellFoundedOn(less, Nat) /\ \A i, j \in Nat : j < i => <<j, i>> \in less
<1> DEFINE Less == OpToRel(<, Nat)
<1>1. IsWellFoundedOn(Less, Nat)
  BY NatLessThanWellFounded
<1>2. \A i, j \in Nat : j < i => <<j, i>> \in Less
  BY DEF OpToRel
<1> HIDE DEF Less
<1> QED BY <1>1, <1>2

LEMMA LeastNatural ==
  \A S \in SUBSET Nat : S # {} => \E i \in S : \A j \in S : i <= j
<1>1. SUFFICES ASSUME NEW S \in SUBSET Nat, S # {} PROVE \E i \in S : \A j \in S : i <= j
  OBVIOUS
<1>2. PICK less : IsWellFoundedOn(less, Nat) /\ \A i, j \in Nat : j < i => <<j, i>> \in less
  BY LessIsWellFounded
<1>3. PICK i \in S : \A j \in S : ~ (<<j, i>> \in less)
  BY <1>1, <1>2, WFMin
<1>4. \A j \in S : i <= j
  <2> TAKE j \in S
  <2>1. i \in Nat /\ j \in Nat
    OBVIOUS
  <2>2. ~(j < i)
    BY <1>2, <1>3, <2>1
  <2> QED BY <2>1, <2>2
<1> QED BY <1>4

LEMMA SetInduction ==
  ASSUME NEW S, 0 \in S, \A k \in Nat : k \in S => k + 1 \in S
  PROVE  Nat \subseteq S
<1> SUFFICES ASSUME Nat \ S # {} PROVE FALSE
  OBVIOUS
<1>1. PICK i \in Nat \ S : \A j \in Nat \ S : i <= j
  BY LeastNatural
<1>2. i # 0 /\ i - 1 \in Nat /\ ~(i <= i - 1)
  BY <1>1
<1>3. i - 1 \in S
  BY <1>1, <1>2
<1> QED BY <1>1, <1>2, <1>3

LEMMA RowTimes ==
  ASSUME RowsInOrder
  PROVE  /\ Len(log) \in Nat /\ log \in Seq(Rows)
         /\ \A i \in 1 .. Len(log) : log[i] \in Rows /\ log[i].at \in Nat /\ log[i].state \in Presences
<1>1. log \in Seq(Rows) /\ Len(log) \in Nat
  BY DEF RowsInOrder
<1>2. \A i \in 1 .. Len(log) : log[i] \in Rows
  BY <1>1
<1> QED BY <1>1, <1>2 DEF Rows

LEMMA SaysOne ==
  ASSUME RowsInOrder, NEW k \in 0 .. Len(log), NEW m \in Nat, NEW s, NEW t, Says(k, m, s), Says(k, m, t)
  PROVE  s = t
<1>1. Len(log) \in Nat /\ \A i \in 1 .. Len(log) : log[i].at \in Nat
  BY RowTimes
<1>2. \A i \in 1 .. k : i \in 1 .. Len(log) /\ log[i].at \in Nat
  BY <1>1
<1>3. CASE s = "offline" /\ \A i \in 1 .. k : log[i].at > m
  BY <1>2, <1>3 DEF Says
<1>4. CASE t = "offline" /\ \A i \in 1 .. k : log[i].at > m
  BY <1>2, <1>4 DEF Says
<1>5. ASSUME NEW i \in 1 .. k, log[i].at <= m, log[i].state = s, \A h \in i + 1 .. k : log[h].at > m,
             NEW j \in 1 .. k, log[j].at <= m, log[j].state = t, \A h \in j + 1 .. k : log[h].at > m
      PROVE  s = t
  <2>1. ~(i < j) /\ ~(j < i)
    <3>1. ASSUME i < j PROVE FALSE
      <4>1. j \in i + 1 .. k
        BY <3>1
      <4> QED BY <1>2, <1>5, <4>1
    <3>2. ASSUME j < i PROVE FALSE
      <4>1. i \in j + 1 .. k
        BY <3>2
      <4> QED BY <1>2, <1>5, <4>1
    <3> QED BY <3>1, <3>2
  <2>2. i = j
    BY <2>1
  <2> QED BY <1>5, <2>2
<1> QED BY <1>3, <1>4, <1>5 DEF Says

\* A row of a later time says nothing of a minute; a row of an earlier one has the say.
LEMMA SaysNext ==
  ASSUME RowsInOrder, NEW k \in Nat, k + 1 \in 1 .. Len(log), NEW m \in Nat
  PROVE  /\ log[k + 1].at > m => \A s : Says(k + 1, m, s) <=> Says(k, m, s)
         /\ log[k + 1].at <= m => Says(k + 1, m, log[k + 1].state)
<1>0. Len(log) \in Nat /\ \A i \in 1 .. k + 1 : log[i].at \in Nat
  BY RowTimes
<1>1. ASSUME log[k + 1].at > m, NEW s
      PROVE  Says(k + 1, m, s) <=> Says(k, m, s)
  <2>1. (\A i \in 1 .. k + 1 : log[i].at > m) <=> (\A i \in 1 .. k : log[i].at > m)
    <3>1. \A i \in 1 .. k + 1 : i \in 1 .. k \/ i = k + 1
      OBVIOUS
    <3>2. \A i \in 1 .. k : i \in 1 .. k + 1
      OBVIOUS
    <3> QED BY <1>1, <3>1, <3>2
  <2>2. ASSUME NEW i \in 1 .. k
        PROVE  (\A j \in i + 1 .. k + 1 : log[j].at > m) <=> (\A j \in i + 1 .. k : log[j].at > m)
    <3>1. \A j \in i + 1 .. k + 1 : j \in i + 1 .. k \/ j = k + 1
      OBVIOUS
    <3>2. \A j \in i + 1 .. k : j \in i + 1 .. k + 1
      OBVIOUS
    <3> QED BY <1>1, <3>1, <3>2
  <2>3. ASSUME NEW i \in 1 .. k + 1, log[i].at <= m PROVE i \in 1 .. k
    <3>1. i # k + 1
      BY <1>0, <1>1, <2>3, k + 1 \in 1 .. k + 1
    <3> QED BY <3>1
  <2>4. \A i \in 1 .. k : i \in 1 .. k + 1
    OBVIOUS
  <2> QED BY <2>1, <2>2, <2>3, <2>4 DEF Says
<1>2. ASSUME log[k + 1].at <= m
      PROVE  Says(k + 1, m, log[k + 1].state)
  <2>1. k + 1 \in 1 .. k + 1 /\ (k + 1) + 1 .. k + 1 = {}
    OBVIOUS
  <2> QED BY <1>2, <2>1 DEF Says
<1> QED BY <1>1, <1>2

\* A walk over the first k rows.
IsWalk(f, k) ==
  f = [j \in 0 .. k |->
         IF j = 0 THEN [current |-> "offline", cursor |-> P!DayStart, mask |-> {}]
         ELSE IF log[j].at < P!DayEnd THEN P!Takes(f[j - 1], log[j]) ELSE f[j - 1]]

LEMMA WalksExist ==
  ASSUME Len(log) \in Nat
  PROVE  \E f : IsWalk(f, Len(log))
<1> DEFINE start == [current |-> "offline", cursor |-> P!DayStart, mask |-> {}]
           Onto(w, j) == IF log[j].at < P!DayEnd THEN P!Takes(w, log[j]) ELSE w
           S == {k \in Nat : \E f : f = [j \in 0 .. k |-> IF j = 0 THEN start ELSE Onto(f[j - 1], j)]}
<1> HIDE DEF start, Onto
<1>1. 0 \in S
  <2> DEFINE f == [j \in 0 .. 0 |-> start]
  <2>1. f = [j \in 0 .. 0 |-> IF j = 0 THEN start ELSE Onto(f[j - 1], j)]
    OBVIOUS
  <2> QED BY <2>1
<1>2. ASSUME NEW k \in Nat, k \in S PROVE k + 1 \in S
  <2>1. PICK f : f = [j \in 0 .. k |-> IF j = 0 THEN start ELSE Onto(f[j - 1], j)]
    BY <1>2
  <2> DEFINE g == [j \in 0 .. k + 1 |-> IF j = k + 1 THEN Onto(f[k], k + 1) ELSE f[j]]
  <2>2. \A j \in 0 .. k : f[j] = IF j = 0 THEN start ELSE Onto(f[j - 1], j)
    BY <2>1, Zenon
  <2>3. ASSUME NEW j \in 0 .. k + 1 PROVE g[j] = IF j = 0 THEN start ELSE Onto(g[j - 1], j)
    <3>1. CASE j = k + 1
      <4>1. j # 0 /\ j - 1 = k /\ k \in 0 .. k + 1 /\ k # k + 1
        BY <3>1
      <4> QED BY <3>1, <4>1
    <3>2. CASE j # k + 1 /\ j # 0
      <4>1. j \in 0 .. k /\ j - 1 \in 0 .. k + 1 /\ j - 1 # k + 1
        BY <3>2
      <4> QED BY <2>2, <3>2, <4>1
    <3>3. CASE j = 0
      <4>1. 0 # k + 1 /\ 0 \in 0 .. k
        OBVIOUS
      <4> QED BY <2>2, <3>3, <4>1
    <3> QED BY <3>1, <3>2, <3>3
  <2>4. g = [j \in 0 .. k + 1 |-> IF j = 0 THEN start ELSE Onto(g[j - 1], j)]
    <3> HIDE DEF g
    <3>1. g = [j \in 0 .. k + 1 |-> g[j]]
      BY DEF g
    <3> QED BY <2>3, <3>1
  <2>5. k + 1 \in Nat
    OBVIOUS
  <2> QED BY <2>4, <2>5
<1> HIDE DEF S
<1>3. Len(log) \in S
  BY <1>1, <1>2, SetInduction
<1> QED BY <1>3 DEF S, IsWalk, start, Onto

LEMMA WalkIsAWalk ==
  ASSUME Len(log) \in Nat
  PROVE  /\ P!Walk[0] = [current |-> "offline", cursor |-> P!DayStart, mask |-> {}]
         /\ \A k \in Nat : k + 1 \in 1 .. Len(log) =>
              P!Walk[k + 1] = IF log[k + 1].at < P!DayEnd THEN P!Takes(P!Walk[k], log[k + 1]) ELSE P!Walk[k]
<1> DEFINE w == CHOOSE f : IsWalk(f, Len(log))
<1>1. P!Walk = w
  BY DEF P!Walk, IsWalk
<1>2. IsWalk(w, Len(log))
  BY WalksExist
<1>3. \A j \in 0 .. Len(log) :
        w[j] = IF j = 0 THEN [current |-> "offline", cursor |-> P!DayStart, mask |-> {}]
               ELSE IF log[j].at < P!DayEnd THEN P!Takes(w[j - 1], log[j]) ELSE w[j - 1]
  <2> HIDE DEF w
  <2> QED BY <1>2, Zenon DEF IsWalk
<1> HIDE DEF w
<1>4. 0 \in 0 .. Len(log)
  OBVIOUS
<1>5. ASSUME NEW k \in Nat, k + 1 \in 1 .. Len(log)
      PROVE  w[k + 1] = IF log[k + 1].at < P!DayEnd THEN P!Takes(w[k], log[k + 1]) ELSE w[k]
  <2>1. k + 1 \in 0 .. Len(log) /\ k + 1 # 0 /\ (k + 1) - 1 = k
    BY <1>5
  <2> QED BY <1>3, <2>1
<1> QED BY <1>1, <1>3, <1>4, <1>5

\* What a walk has found after k rows: up to its cursor the minutes these rows make
\* available, and from there on the state they leave.
WalkTells(k, w) ==
  /\ w.cursor \in Nat /\ w.cursor >= P!DayStart
  /\ w.cursor = P!DayStart \/ \E i \in 1 .. k : log[i].at = w.cursor
  /\ \A m \in P!DayStart .. P!DayEnd - 1 : m >= w.cursor => Says(k, m, w.current)
  /\ \A m : m \in w.mask <=> /\ m \in P!DayStart .. P!DayEnd - 1 /\ m < w.cursor
                             /\ \E s \in Available : Says(k, m, s)

LEMMA WalkStarts == WalkTells(0, [current |-> "offline", cursor |-> P!DayStart, mask |-> {}])
<1>1. P!DayStart \in Nat /\ P!DayEnd \in Nat
  BY DayIsNatural DEF P!DayStart, P!DayEnd
<1>2. \A m : Says(0, m, "offline")
  BY DEF Says
<1>3. \A m \in P!DayStart .. P!DayEnd - 1 : ~(m < P!DayStart)
  BY <1>1
<1> QED BY <1>1, <1>2, <1>3 DEF WalkTells

LEMMA WalkSkips ==
  ASSUME RowsInOrder, NEW k \in Nat, k + 1 \in 1 .. Len(log), NEW w, WalkTells(k, w),
         ~(log[k + 1].at < P!DayEnd)
  PROVE  WalkTells(k + 1, w)
<1>1. P!DayStart \in Nat /\ P!DayEnd \in Nat
  BY DayIsNatural DEF P!DayStart, P!DayEnd
<1>2. \A m \in P!DayStart .. P!DayEnd - 1 : m \in Nat /\ log[k + 1].at > m
  BY <1>1, RowTimes
<1>3. \A m \in P!DayStart .. P!DayEnd - 1 : \A s : Says(k + 1, m, s) <=> Says(k, m, s)
  BY <1>2, SaysNext
<1>4. \A i \in 1 .. k : i \in 1 .. k + 1
  OBVIOUS
<1> QED BY <1>3, <1>4 DEF WalkTells

LEMMA WalkTakes ==
  ASSUME RowsInOrder, NEW k \in Nat, k + 1 \in 1 .. Len(log), NEW w, WalkTells(k, w),
         log[k + 1].at < P!DayEnd
  PROVE  WalkTells(k + 1, P!Takes(w, log[k + 1]))
<1> DEFINE e == log[k + 1]
           v == P!Takes(w, e)
           span == IF e.at >= P!DayStart /\ w.current \in Available THEN w.cursor .. e.at - 1 ELSE {}
<1>1. P!DayStart \in Nat /\ P!DayEnd \in Nat /\ e.at \in Nat
  BY RowTimes, DayIsNatural DEF P!DayStart, P!DayEnd
<1>2. /\ v.current = e.state /\ v.cursor = (IF e.at < P!DayStart THEN w.cursor ELSE e.at)
      /\ v.mask = w.mask \cup span
  BY DEF P!Takes
<1> HIDE DEF v, span
<1>3. \A i \in 1 .. k : log[i].at \in Nat /\ log[i].at <= e.at
  <2> TAKE i \in 1 .. k
  <2>1. i \in 1 .. Len(log) /\ i <= k + 1
    OBVIOUS
  <2> QED BY <2>1, RowTimes DEF RowsInOrder
<1>4. w.cursor \in Nat /\ w.cursor >= P!DayStart
  BY DEF WalkTells
<1>5. e.at >= P!DayStart => w.cursor <= e.at
  BY <1>1, <1>3, <1>4 DEF WalkTells
<1>6. e.at < P!DayStart => w.cursor = P!DayStart
  BY <1>1, <1>3, <1>4 DEF WalkTells
<1>7. \A m \in P!DayStart .. P!DayEnd - 1 : m \in Nat
  BY <1>1
<1>8. v.cursor \in Nat /\ v.cursor >= P!DayStart
  BY <1>1, <1>2, <1>4
<1>9. v.cursor = P!DayStart \/ \E i \in 1 .. k + 1 : log[i].at = v.cursor
  <2>1. k + 1 \in 1 .. k + 1
    OBVIOUS
  <2> QED BY <1>2, <1>6, <2>1
<1>10. ASSUME NEW m \in P!DayStart .. P!DayEnd - 1, m >= v.cursor PROVE Says(k + 1, m, v.current)
  <2>1. e.at <= m
    BY <1>1, <1>2, <1>7, <1>10
  <2> QED BY <1>2, <1>7, <2>1, SaysNext
<1>11. ASSUME NEW m
       PROVE  m \in v.mask <=> /\ m \in P!DayStart .. P!DayEnd - 1 /\ m < v.cursor
                               /\ \E s \in Available : Says(k + 1, m, s)
  <2>1. m \in w.mask <=> /\ m \in P!DayStart .. P!DayEnd - 1 /\ m < w.cursor
                         /\ \E s \in Available : Says(k, m, s)
    BY DEF WalkTells
  <2>2. CASE e.at < P!DayStart
    <3>1. span = {} /\ v.cursor = P!DayStart /\ w.cursor = P!DayStart
      BY <1>1, <1>2, <1>6, <2>2 DEF span
    <3>2. \A n \in P!DayStart .. P!DayEnd - 1 : ~(n < P!DayStart)
      BY <1>1
    <3> QED BY <1>2, <2>1, <3>1, <3>2
  <2>3. CASE ~(e.at < P!DayStart)
    <3>0. v.cursor = e.at /\ w.cursor <= e.at
      BY <1>1, <1>2, <1>5, <2>3
    <3>1. m \in span <=> /\ m \in P!DayStart .. P!DayEnd - 1 /\ m < v.cursor /\ ~(m < w.cursor)
                         /\ w.current \in Available
      BY <1>1, <1>4, <2>3, <3>0 DEF span
    <3>2. CASE ~(m \in P!DayStart .. P!DayEnd - 1 /\ m < v.cursor)
      <4>1. m \notin span
        BY <3>1, <3>2
      <4>2. m \notin w.mask
        BY <1>1, <1>4, <2>1, <3>0, <3>2
      <4> QED BY <1>2, <3>2, <4>1, <4>2
    <3>3. CASE m \in P!DayStart .. P!DayEnd - 1 /\ m < v.cursor
      <4>0. m \in Nat /\ e.at > m
        BY <1>1, <1>7, <3>0, <3>3
      <4>1. \A s : Says(k + 1, m, s) <=> Says(k, m, s)
        BY <4>0, SaysNext
      <4>2. CASE m < w.cursor
        BY <1>2, <2>1, <3>1, <3>3, <4>1, <4>2
      <4>3. CASE ~(m < w.cursor)
        <5>1. m >= w.cursor
          BY <1>4, <4>0, <4>3
        <5>2. Says(k, m, w.current)
          BY <3>3, <5>1 DEF WalkTells
        <5>3. k \in 0 .. Len(log)
          BY RowTimes
        <5>4. \A s : Says(k, m, s) => s = w.current
          BY <4>0, <5>2, <5>3, SaysOne
        <5>5. m \in span <=> w.current \in Available
          BY <3>1, <3>3, <4>3
        <5>6. (\E s \in Available : Says(k + 1, m, s)) <=> w.current \in Available
          BY <4>1, <5>2, <5>4
        <5> QED BY <1>2, <2>1, <3>3, <4>3, <5>5, <5>6
      <4> QED BY <4>2, <4>3
    <3> QED BY <3>2, <3>3
  <2> QED BY <2>2, <2>3
<1>12. WalkTells(k + 1, v)
  BY <1>8, <1>9, <1>10, <1>11 DEF WalkTells
<1> QED BY <1>12 DEF v

LEMMA WalkTellsAll ==
  ASSUME RowsInOrder
  PROVE  WalkTells(Len(log), P!Walk[Len(log)])
<1>0. Len(log) \in Nat
  BY RowTimes
<1> DEFINE S == {k \in Nat : k <= Len(log) => WalkTells(k, P!Walk[k])}
<1>1. 0 \in S
  BY <1>0, WalkIsAWalk, WalkStarts
<1>2. ASSUME NEW k \in Nat, k \in S PROVE k + 1 \in S
  <2> SUFFICES ASSUME k + 1 <= Len(log) PROVE WalkTells(k + 1, P!Walk[k + 1])
    OBVIOUS
  <2>1. k + 1 \in 1 .. Len(log) /\ k <= Len(log)
    BY <1>0
  <2>2. WalkTells(k, P!Walk[k])
    BY <1>2, <2>1
  <2>3. P!Walk[k + 1] = IF log[k + 1].at < P!DayEnd THEN P!Takes(P!Walk[k], log[k + 1]) ELSE P!Walk[k]
    BY <1>0, <2>1, WalkIsAWalk
  <2>4. CASE log[k + 1].at < P!DayEnd
    <3>1. WalkTells(k + 1, P!Takes(P!Walk[k], log[k + 1]))
      BY <2>1, <2>2, <2>4, WalkTakes
    <3> QED BY <2>3, <2>4, <3>1
  <2>5. CASE ~(log[k + 1].at < P!DayEnd)
    <3>1. WalkTells(k + 1, P!Walk[k])
      BY <2>1, <2>2, <2>5, WalkSkips
    <3> QED BY <2>3, <2>5, <3>1
  <2> QED BY <2>4, <2>5
<1> HIDE DEF S
<1>3. Len(log) \in S
  BY <1>0, <1>1, <1>2, SetInduction
<1> QED BY <1>0, <1>3 DEF S

\* The mask of a day is the minutes that the log says were available.
LEMMA MaskTells ==
  ASSUME RowsInOrder
  PROVE  P!AvailabilityMask = {m \in P!DayStart .. P!DayEnd - 1 : \E s \in Available : Says(Len(log), m, s)}
<1> DEFINE w == P!Walk[Len(log)]
           rest == IF w.current \in Available THEN w.cursor .. P!DayEnd - 1 ELSE {}
<1>0. P!DayStart \in Nat /\ P!DayEnd \in Nat /\ Len(log) \in Nat /\ Len(log) \in 0 .. Len(log)
  BY DayIsNatural, RowTimes DEF P!DayStart, P!DayEnd
<1>1. P!AvailabilityMask = w.mask \cup rest
  BY DEF P!AvailabilityMask
<1>2. WalkTells(Len(log), w)
  BY WalkTellsAll
<1> HIDE DEF w
<1>3. w.cursor \in Nat /\ w.cursor >= P!DayStart
  BY <1>2 DEF WalkTells
<1>4. ASSUME NEW m
      PROVE  m \in w.mask \cup rest <=>
               m \in P!DayStart .. P!DayEnd - 1 /\ \E s \in Available : Says(Len(log), m, s)
  <2>1. m \in w.mask <=> /\ m \in P!DayStart .. P!DayEnd - 1 /\ m < w.cursor
                         /\ \E s \in Available : Says(Len(log), m, s)
    BY <1>2 DEF WalkTells
  <2>2. m \in rest <=> /\ m \in P!DayStart .. P!DayEnd - 1 /\ ~(m < w.cursor) /\ w.current \in Available
    BY <1>0, <1>3
  <2>3. CASE m \in P!DayStart .. P!DayEnd - 1 /\ ~(m < w.cursor)
    <3>1. m \in Nat /\ m >= w.cursor
      BY <1>0, <1>3, <2>3
    <3>2. Says(Len(log), m, w.current)
      BY <1>2, <2>3, <3>1 DEF WalkTells
    <3>3. \A s : Says(Len(log), m, s) => s = w.current
      BY <1>0, <3>1, <3>2, SaysOne
    <3> QED BY <2>1, <2>2, <2>3, <3>2, <3>3
  <2>4. CASE ~(m \in P!DayStart .. P!DayEnd - 1 /\ ~(m < w.cursor))
    BY <2>1, <2>2, <2>4
  <2> QED BY <2>3, <2>4
<1> QED BY <1>1, <1>4

\* Once a day is over and every change of it was heard in time, its mask is the truth.
LEMMA MaskIsTrue ==
  ASSUME DayInv, ~skewed, OpenChanges = {}, day = 2 * Day
  PROVE  P!AvailabilityMask = {m \in P!DayStart .. P!DayEnd - 1 : truth[m + 1] \in Available}
<1>0. P!DayStart \in Nat /\ P!DayEnd = day /\ day \in Nat
  BY DayIsNatural DEF P!DayStart, P!DayEnd
<1>1. RowsInOrder /\ Len(log) \in 0 .. Len(log)
  BY RowTimes DEF DayInv
<1>2. ASSUME NEW m \in P!DayStart .. P!DayEnd - 1
      PROVE  (\E s \in Available : Says(Len(log), m, s)) <=> truth[m + 1] \in Available
  <2>1. m \in 0 .. day - 1 /\ m \in Nat
    BY <1>0
  <2>2. Says(Len(log), m, truth[m + 1])
    BY <2>1 DEF DayInv, HeardSoFar
  <2>3. \A s : Says(Len(log), m, s) => s = truth[m + 1]
    BY <1>1, <2>1, <2>2, SaysOne
  <2> QED BY <2>2, <2>3
<1> QED BY <1>1, <1>2, MaskTells

\* What a record says stays true when no more is written of the day.
LEMMA RecordStays ==
  ASSUME DayInv, UNCHANGED <<record, truth, day>>
  PROVE  /\ record' # Nobody /\ record'.faithful => day' = 2 * Day
         /\ P!RecordTellsTheDay'
BY DEF DayInv, P!RecordTellsTheDay, P!MinuteMask, P!Clipped, P!DayStart, P!DayEnd

LEMMA SaysStays ==
  ASSUME UNCHANGED log
  PROVE  \A k, m, s : Says(k, m, s)' <=> Says(k, m, s)
BY DEF Says

LEMMA SetsColumnKeeps ==
  ASSUME DayInv, NEW t \in Tabs, NEW s \in Presences, P!SetsColumn(t, s)
  PROVE  DayInv'
<1> DEFINE e == [state |-> s, at |-> day, n |-> writes + 1]
<1>1. /\ tab[t] = Nobody /\ writes < MaxWrites /\ writes' = writes + 1 /\ presence' = s
      /\ tab' = [tab EXCEPT ![t] = e]
      /\ UNCHANGED <<day, pending, log, rostered, record, lost, truth, last, skewed>>
  BY DEF P!SetsColumn
<1>2. DayTyped /\ writes \in Nat /\ MaxWrites \in Nat /\ day \in 0 .. 2 * Day
  BY DayIsNatural DEF DayInv, DayTyped
<1>3. e \in Changes /\ e.at = day /\ e.n = writes' /\ e.state = s
  <2>1. writes + 1 \in 1 .. MaxWrites
    BY <1>1, <1>2
  <2> QED BY <1>1, <1>2, <2>1 DEF Changes
<1>4. e # Nobody
  BY <1>3, NobodyIsNoChange DEF Changes
<1> HIDE DEF e
<1>5. OpenChanges' = OpenChanges \cup {e}
  <2>1. tab' = [q \in Tabs |-> tab'[q]] /\ tab'[t] = e /\ \A q \in Tabs \ {t} : tab'[q] = tab[q]
    BY <1>1, <1>2 DEF DayTyped
  <2> QED BY <1>1, <1>4, <2>1 DEF OpenChanges
<1>6. \A c \in OpenChanges : c \in Changes /\ c.at <= day /\ c.n <= writes /\ c.n \in Nat
  BY <1>2 DEF DayTyped, Changes
<1>7. DayTyped'
  <2>1. \A c \in OpenChanges' : c \in Changes /\ c.at <= day' /\ c.n <= writes'
    BY <1>1, <1>2, <1>3, <1>5, <1>6
  <2>2. writes' \in 0 .. MaxWrites /\ last' \in 0 .. writes'
    BY <1>1, <1>2 DEF DayTyped
  <2>3. tab' = [q \in Tabs |-> tab'[q]]
    BY <1>1, <1>2 DEF DayTyped
  <2> QED BY <1>1, <1>2, <2>1, <2>2, <2>3 DEF DayTyped, Changes
<1>8. RowsInOrder' /\ NewestIsThere'
  <2>1. \A c \in OpenChanges' : c.n = writes' => c.state = presence'
    BY <1>1, <1>2, <1>3, <1>5, <1>6
  <2> QED BY <1>1, <2>1 DEF DayInv, RowsInOrder, Rows, NewestIsThere
<1>9. HeardSoFar'
  <2> SUFFICES ASSUME ~skewed'
               PROVE  /\ \E c \in OpenChanges' : c.n = writes'
                      /\ OpenChanges' # {}
                      /\ \A m \in 0 .. day' - 1 :
                           (\E c \in OpenChanges' : c.at <= m) \/ Says(Len(log), m, truth[m + 1])'
    BY DEF HeardSoFar
  <2>1. \A m \in 0 .. day - 1 : (\E c \in OpenChanges : c.at <= m) \/ Says(Len(log), m, truth[m + 1])
    BY <1>1 DEF DayInv, HeardSoFar
  <2>2. \A m \in 0 .. day - 1 : Says(Len(log), m, truth[m + 1])' <=> Says(Len(log), m, truth[m + 1])
    BY <1>1 DEF Says
  <2> QED BY <1>1, <1>3, <1>5, <2>1, <2>2
<1>10. /\ record' # Nobody /\ record'.faithful => day' = 2 * Day
       /\ P!RecordTellsTheDay'
  BY <1>1, RecordStays
<1> QED BY <1>7, <1>8, <1>9, <1>10 DEF DayInv

\* A step that leaves the day and the log as they are, and loses no change that is open.
LEMMA DayRests ==
  ASSUME DayInv, UNCHANGED <<day, presence, log, writes, truth, last, skewed, OpenChanges>>,
         tab' = [t \in Tabs |-> tab'[t]]
  PROVE  DayTyped' /\ RowsInOrder' /\ NewestIsThere' /\ HeardSoFar'
<1>1. DayTyped'
  BY DEF DayInv, DayTyped, Changes
<1>2. RowsInOrder' /\ NewestIsThere'
  BY DEF DayInv, RowsInOrder, Rows, NewestIsThere
<1>3. HeardSoFar'
  <2>1. \A m \in 0 .. day - 1 : Says(Len(log), m, truth[m + 1])' <=> Says(Len(log), m, truth[m + 1])
    BY DEF Says
  <2> QED BY <2>1 DEF DayInv, HeardSoFar
<1> QED BY <1>1, <1>2, <1>3

LEMMA PublishesKeeps ==
  ASSUME DayInv, NEW t \in Tabs, P!Publishes(t)
  PROVE  DayInv'
<1>1. /\ tab[t] # Nobody /\ pending' = pending \cup {tab[t]} /\ tab' = [tab EXCEPT ![t] = Nobody]
      /\ UNCHANGED <<day, presence, log, rostered, record, writes, lost, truth, last, skewed>>
  BY DEF P!Publishes
<1>2. tab' = [q \in Tabs |-> tab'[q]] /\ tab'[t] = Nobody /\ \A q \in Tabs \ {t} : tab'[q] = tab[q]
  BY <1>1 DEF DayInv, DayTyped
<1>3. OpenChanges' = OpenChanges
  BY <1>1, <1>2 DEF OpenChanges
<1> QED BY <1>1, <1>2, <1>3, DayRests, RecordStays DEF DayInv

LEMMA IsLostKeeps ==
  ASSUME DayInv, NEW t \in Tabs, P!IsLost(t)
  PROVE  DayInv'
<1>1. /\ tab' = [tab EXCEPT ![t] = Nobody] /\ skewed' = TRUE
      /\ UNCHANGED <<day, presence, pending, log, rostered, record, writes, truth, last>>
  BY DEF P!IsLost
<1>2. tab' = [q \in Tabs |-> tab'[q]] /\ tab'[t] = Nobody /\ \A q \in Tabs \ {t} : tab'[q] = tab[q]
  BY <1>1 DEF DayInv, DayTyped
<1>3. OpenChanges' \subseteq OpenChanges
  BY <1>1, <1>2 DEF OpenChanges
<1>4. DayTyped'
  BY <1>1, <1>2, <1>3 DEF DayInv, DayTyped, Changes
<1>5. RowsInOrder' /\ NewestIsThere' /\ HeardSoFar'
  BY <1>1, <1>3 DEF DayInv, RowsInOrder, Rows, NewestIsThere, HeardSoFar
<1> QED BY <1>1, <1>4, <1>5, RecordStays DEF DayInv

LEMMA CancelsTheShiftKeeps ==
  ASSUME DayInv, P!CancelsShift \/ UNCHANGED presenceVars
  PROVE  DayInv'
<1>1. UNCHANGED <<day, presence, tab, pending, log, record, writes, truth, last, skewed>>
  BY DEF P!CancelsShift, presenceVars
<1>2. OpenChanges' = OpenChanges /\ tab' = [t \in Tabs |-> tab'[t]]
  BY <1>1 DEF OpenChanges, DayInv, DayTyped
<1> QED BY <1>1, <1>2, DayRests, RecordStays DEF DayInv

LEMMA ComputeAdherenceKeeps ==
  ASSUME DayInv, P!ComputeAdherence
  PROVE  DayInv'
<1> DEFINE done == day >= P!DayEnd /\ ~skewed /\ pending = {} /\ \A t \in Tabs : tab[t] = Nobody
           k == P!Cardinality(P!MinuteMask \cap P!AvailabilityMask)
           l == P!Cardinality(P!AvailabilityMask \ P!MinuteMask)
           was == {m \in P!DayStart .. P!DayEnd - 1 : truth[m + 1] \in Available}
<1>1. /\ record' = [adherent |-> k, unscheduled |-> l, faithful |-> done]
      /\ UNCHANGED <<day, presence, tab, pending, log, rostered, writes, lost, truth, last, skewed>>
  BY DEF P!ComputeAdherence
<1>2. OpenChanges' = OpenChanges /\ tab' = [t \in Tabs |-> tab'[t]]
  BY <1>1 DEF OpenChanges, DayInv, DayTyped
<1>3. ASSUME done
      PROVE  /\ day = 2 * Day
             /\ k = P!Cardinality(P!MinuteMask \cap was) /\ l = P!Cardinality(was \ P!MinuteMask)
  <2>1. OpenChanges = {}
    BY <1>3 DEF OpenChanges
  <2>2. day = 2 * Day
    <3>1. day \in 0 .. 2 * Day
      BY DEF DayInv, DayTyped
    <3>2. Day \in Nat /\ day >= 2 * Day
      BY <1>3, DayIsNatural DEF P!DayEnd
    <3> QED BY <3>1, <3>2
  <2>3. P!AvailabilityMask = was
    BY <1>3, <2>1, <2>2, MaskIsTrue
  <2> QED BY <2>2, <2>3
<1>4. record'.adherent = k /\ record'.unscheduled = l /\ record'.faithful = done
  BY <1>1
<1>5. was' = was /\ P!MinuteMask' = P!MinuteMask
  BY <1>1 DEF P!MinuteMask, P!Clipped, P!DayStart, P!DayEnd
<1> HIDE DEF k, l, done, was
<1>6. record'.faithful =>
        /\ day' = 2 * Day
        /\ record'.adherent = P!Cardinality(P!MinuteMask \cap was)
        /\ record'.unscheduled = P!Cardinality(was \ P!MinuteMask)
  BY <1>1, <1>3, <1>4
<1>7. P!RecordTellsTheDay'
  BY <1>5, <1>6 DEF P!RecordTellsTheDay, was
<1> QED BY <1>1, <1>2, <1>6, <1>7, DayRests DEF DayInv

LEMMA TickKeeps ==
  ASSUME DayInv, P!Tick
  PROVE  DayInv'
<1>1. /\ day < 2 * Day /\ day' = day + 1 /\ truth' = Append(truth, presence)
      /\ UNCHANGED <<presence, tab, pending, log, rostered, record, writes, lost, last, skewed>>
  BY DEF P!Tick
<1>2. DayTyped /\ RowsInOrder /\ day \in Nat /\ day' \in 0 .. 2 * Day /\ Day \in Nat
  BY <1>1, DayIsNatural DEF DayInv, DayTyped
<1>3. OpenChanges' = OpenChanges
  BY <1>1 DEF OpenChanges
<1>4. /\ truth' \in Seq(Presences \cup {"offline"}) /\ Len(truth') = day'
      /\ truth'[day + 1] = presence /\ \A m \in 0 .. day - 1 : truth'[m + 1] = truth[m + 1]
  <2>1. truth \in Seq(Presences \cup {"offline"}) /\ Len(truth) = day /\ presence \in Presences \cup {"offline"}
    BY <1>2 DEF DayTyped
  <2>2. /\ truth' \in Seq(Presences \cup {"offline"}) /\ Len(truth') = day + 1 /\ truth'[day + 1] = presence
        /\ \A i \in 1 .. day : truth'[i] = truth[i]
    BY <1>1, <2>1
  <2>3. \A m \in 0 .. day - 1 : m + 1 \in 1 .. day
    BY <1>2
  <2> QED BY <1>1, <2>2, <2>3
<1>5. DayTyped'
  <2>1. \A e \in OpenChanges' : e \in Changes /\ e.at <= day' /\ e.n <= writes'
    BY <1>1, <1>2, <1>3 DEF DayTyped, Changes
  <2> QED BY <1>1, <1>2, <1>4, <2>1 DEF DayTyped, Changes
<1>6. RowsInOrder' /\ NewestIsThere'
  <2>1. \A i \in 1 .. Len(log) : log[i].at <= day'
    BY <1>1, <1>2, RowTimes DEF RowsInOrder
  <2> QED BY <1>1, <1>2, <1>3, <2>1 DEF DayInv, RowsInOrder, Rows, NewestIsThere
<1>7. HeardSoFar'
  <2> SUFFICES ASSUME ~skewed
               PROVE  /\ writes > last => \E e \in OpenChanges : e.n = writes
                      /\ OpenChanges = {} => presence = IF log = <<>> THEN "offline" ELSE log[Len(log)].state
                      /\ \A m \in 0 .. day : (\E e \in OpenChanges : e.at <= m) \/ Says(Len(log), m, truth'[m + 1])
    <3>1. \A m \in 0 .. day : Says(Len(log), m, truth'[m + 1]) <=> Says(Len(log), m, truth[m + 1])'
      BY <1>1 DEF Says
    <3>2. \A m \in 0 .. day' - 1 : m \in 0 .. day
      BY <1>1, <1>2
    <3> QED BY <1>1, <1>3, <3>1, <3>2 DEF HeardSoFar
  <2>1. /\ writes > last => \E e \in OpenChanges : e.n = writes
        /\ OpenChanges = {} => presence = IF log = <<>> THEN "offline" ELSE log[Len(log)].state
        /\ \A m \in 0 .. day - 1 : (\E e \in OpenChanges : e.at <= m) \/ Says(Len(log), m, truth[m + 1])
    BY DEF DayInv, HeardSoFar
  <2>2. ASSUME NEW m \in 0 .. day
        PROVE  (\E e \in OpenChanges : e.at <= m) \/ Says(Len(log), m, truth'[m + 1])
    <3>1. CASE m # day
      <4>1. m \in 0 .. day - 1
        BY <1>2, <3>1
      <4> QED BY <1>4, <2>1, <4>1
    <3>2. CASE m = day /\ OpenChanges # {}
      BY <1>2, <3>2 DEF DayTyped
    <3>3. CASE m = day /\ OpenChanges = {} /\ log = <<>>
      <4>1. presence = "offline" /\ truth'[m + 1] = presence
        BY <1>4, <2>1, <3>3
      <4>2. 1 .. Len(log) = {}
        BY <3>3
      <4> QED BY <4>1, <4>2 DEF Says
    <3>4. CASE m = day /\ OpenChanges = {} /\ log # <<>>
      <4>1. presence = log[Len(log)].state /\ truth'[m + 1] = presence
        BY <1>4, <2>1, <3>4
      <4>2. Len(log) \in 1 .. Len(log) /\ Len(log) + 1 .. Len(log) = {}
        BY <3>4, RowTimes, <1>2, EmptySeq
      <4>3. log[Len(log)].at <= m
        BY <1>2, <3>4, <4>2 DEF RowsInOrder
      <4> QED BY <4>1, <4>2, <4>3 DEF Says
    <3> QED BY <3>1, <3>2, <3>3, <3>4
  <2> QED BY <2>1, <2>2
<1>8. /\ record' # Nobody /\ record'.faithful => day' = 2 * Day
      /\ P!RecordTellsTheDay'
  <2>1. ~(record # Nobody /\ record.faithful)
    BY <1>1, <1>2 DEF DayInv
  <2> QED BY <1>1, <2>1 DEF P!RecordTellsTheDay
<1> QED BY <1>5, <1>6, <1>7, <1>8 DEF DayInv

LEMMA RecordStateChangeKeeps ==
  ASSUME DayInv, NEW e \in pending, P!RecordStateChange(e)
  PROVE  DayInv'
<1> DEFINE row == [state |-> e.state, at |-> day]
<1>1. /\ log' = Append(log, row) /\ pending' \in {pending, pending \ {e}}
      /\ last' = (IF e.n > last THEN e.n ELSE last)
      /\ skewed' = (skewed \/ e.at # day \/ e.n < last)
      /\ UNCHANGED <<day, presence, tab, rostered, record, writes, lost, truth>>
  BY DEF P!RecordStateChange
<1>2. DayTyped /\ RowsInOrder /\ day \in Nat /\ Len(log) \in Nat /\ writes \in Nat /\ last \in 0 .. writes
  BY RowTimes, DayIsNatural DEF DayInv, DayTyped
<1>3. e \in OpenChanges /\ e \in Changes /\ e.at <= day /\ e.n <= writes /\ e.n \in Nat /\ e.state \in Presences
  <2>1. e \in OpenChanges
    BY DEF OpenChanges
  <2> QED BY <1>2, <2>1 DEF DayTyped, Changes
<1>4. row \in Rows /\ row.at = day /\ row.state = e.state
  BY <1>2, <1>3 DEF Rows
<1> HIDE DEF row
<1>5. /\ log' \in Seq(Rows) /\ Len(log') = Len(log) + 1 /\ log'[Len(log) + 1] = row
      /\ \A i \in 1 .. Len(log) : log'[i] = log[i]
  <2>1. log \in Seq(Rows)
    BY <1>2 DEF RowsInOrder
  <2> QED BY <1>1, <1>4, <2>1
<1>6. OpenChanges' \subseteq OpenChanges /\ OpenChanges \ {e} \subseteq OpenChanges'
  BY <1>1 DEF OpenChanges
<1>7. DayTyped'
  <2>1. last' \in 0 .. writes'
    BY <1>1, <1>2, <1>3
  <2>2. skewed' \in BOOLEAN
    BY <1>1, <1>2, <1>3 DEF DayTyped
  <2>3. \A c \in OpenChanges' : c \in Changes /\ c.at <= day' /\ c.n <= writes'
    BY <1>1, <1>2, <1>6 DEF DayTyped
  <2> QED BY <1>1, <1>2, <2>1, <2>2, <2>3 DEF DayTyped, Changes
<1>8. RowsInOrder'
  <2>1. \A i \in 1 .. Len(log) : log[i].at <= day /\ log[i].at \in Nat
    BY <1>2, RowTimes DEF RowsInOrder
  <2>2. \A i \in 1 .. Len(log') : i \in 1 .. Len(log) \/ i = Len(log) + 1
    BY <1>2, <1>5
  <2>3. \A i \in 1 .. Len(log') : log'[i].at <= day'
    BY <1>1, <1>2, <1>4, <1>5, <2>1, <2>2
  <2>4. ASSUME NEW i \in 1 .. Len(log'), NEW j \in 1 .. Len(log'), i <= j
        PROVE  log'[i].at <= log'[j].at
    <3>1. CASE j = Len(log) + 1
      BY <1>1, <1>4, <1>5, <2>3, <3>1
    <3>2. CASE j # Len(log) + 1
      <4>1. i \in 1 .. Len(log) /\ j \in 1 .. Len(log)
        BY <1>2, <2>2, <2>4, <3>2
      <4> QED BY <1>2, <1>5, <2>4, <4>1 DEF RowsInOrder
    <3> QED BY <3>1, <3>2
  <2> QED BY <1>5, <2>3, <2>4 DEF RowsInOrder, Rows
<1>9. NewestIsThere'
  BY <1>1, <1>6 DEF DayInv, NewestIsThere
<1>10. HeardSoFar'
  <2> SUFFICES ASSUME ~skewed'
               PROVE  /\ writes > last' => \E c \in OpenChanges' : c.n = writes
                      /\ OpenChanges' = {} => presence = e.state
                      /\ \A m \in 0 .. day - 1 :
                           (\E c \in OpenChanges' : c.at <= m) \/ Says(Len(log), m, truth[m + 1])'
    <3>1. log' # <<>> /\ log'[Len(log')].state = e.state
      BY <1>2, <1>4, <1>5
    <3> QED BY <1>1, <3>1 DEF HeardSoFar
  <2>1. ~skewed /\ e.at = day /\ ~(e.n < last)
    BY <1>1
  <2>2. /\ writes > last => \E c \in OpenChanges : c.n = writes
        /\ \A m \in 0 .. day - 1 : (\E c \in OpenChanges : c.at <= m) \/ Says(Len(log), m, truth[m + 1])
    BY <2>1 DEF DayInv, HeardSoFar
  <2>3. last' = e.n
    BY <1>1, <1>2, <1>3, <2>1
  <2>4. writes > last' => \E c \in OpenChanges' : c.n = writes
    <3> SUFFICES ASSUME writes > last' PROVE \E c \in OpenChanges' : c.n = writes
      OBVIOUS
    <3>1. writes > last /\ e.n # writes
      BY <1>2, <1>3, <2>1, <2>3
    <3> QED BY <1>6, <2>2, <3>1
  <2>5. OpenChanges' = {} => presence = e.state
    <3> SUFFICES ASSUME OpenChanges' = {} PROVE presence = e.state
      OBVIOUS
    <3>1. e.n = writes
      BY <1>2, <1>3, <2>3, <2>4
    <3> QED BY <1>3, <3>1 DEF DayInv, NewestIsThere
  <2>6. ASSUME NEW m \in 0 .. day - 1
        PROVE  (\E c \in OpenChanges' : c.at <= m) \/ Says(Len(log), m, truth[m + 1])'
    <3>1. m \in Nat /\ m < day
      BY <1>2
    <3>2. CASE \E c \in OpenChanges : c.at <= m
      <4>1. PICK c \in OpenChanges : c.at <= m
        BY <3>2
      <4>2. c # e
        BY <1>2, <2>1, <3>1, <4>1
      <4> QED BY <1>6, <4>1, <4>2
    <3>3. CASE Says(Len(log), m, truth[m + 1])
      <4>1. \A i \in 1 .. Len(log') : i \in 1 .. Len(log) \/ i = Len(log) + 1
        BY <1>2, <1>5
      <4>2. log'[Len(log) + 1].at > m
        BY <1>2, <1>4, <1>5, <3>1
      <4>3. CASE truth[m + 1] = "offline" /\ \A i \in 1 .. Len(log) : log[i].at > m
        <5>1. \A i \in 1 .. Len(log') : log'[i].at > m
          BY <1>5, <4>1, <4>2, <4>3
        <5> QED BY <1>1, <4>3, <5>1 DEF Says
      <4>4. ASSUME NEW i \in 1 .. Len(log), log[i].at <= m, log[i].state = truth[m + 1],
                   \A j \in i + 1 .. Len(log) : log[j].at > m
            PROVE  Says(Len(log), m, truth[m + 1])'
        <5>1. i \in 1 .. Len(log') /\ log'[i].at <= m /\ log'[i].state = truth'[m + 1]
          BY <1>1, <1>2, <1>5, <4>4
        <5>2. \A j \in i + 1 .. Len(log') : log'[j].at > m
          <6>1. \A j \in i + 1 .. Len(log') : j \in i + 1 .. Len(log) \/ j = Len(log) + 1
            BY <1>2, <1>5
          <6>2. \A j \in i + 1 .. Len(log) : j \in 1 .. Len(log)
            BY <1>2
          <6> QED BY <1>5, <4>2, <4>4, <6>1, <6>2
        <5> QED BY <5>1, <5>2 DEF Says
      <4> QED BY <3>3, <4>3, <4>4 DEF Says
    <3> QED BY <2>2, <3>2, <3>3
  <2> QED BY <2>4, <2>5, <2>6
<1>11. /\ record' # Nobody /\ record'.faithful => day' = 2 * Day
       /\ P!RecordTellsTheDay'
  BY <1>1, RecordStays
<1> QED BY <1>7, <1>8, <1>9, <1>10, <1>11 DEF DayInv

LEMMA DayInit == ASSUME P!Init PROVE DayInv
<1>1. /\ day = 0 /\ presence = "offline" /\ log = <<>> /\ truth = <<>> /\ pending = {}
      /\ tab = [t \in Tabs |-> Nobody] /\ record = Nobody /\ writes = 0 /\ last = 0 /\ skewed = FALSE
  BY DEF P!Init
<1>2. OpenChanges = {}
  BY <1>1 DEF OpenChanges
<1>3. DayTyped
  <2>1. 0 \in 0 .. 2 * Day /\ 0 \in 0 .. MaxWrites /\ 0 \in 0 .. 0
    BY DayIsNatural
  <2> QED BY <1>1, <1>2, <2>1, EmptySeq DEF DayTyped
<1>4. log \in Seq(Rows) /\ Len(log) = 0 /\ 1 .. 0 = {} /\ 0 .. 0 - 1 = {}
  BY <1>1, EmptySeq
<1>5. RowsInOrder /\ NewestIsThere /\ HeardSoFar
  BY <1>1, <1>2, <1>4 DEF RowsInOrder, NewestIsThere, HeardSoFar
<1> QED BY <1>1, <1>3, <1>5 DEF DayInv, P!RecordTellsTheDay

LEMMA DayNext == ASSUME DayInv, P!Next \/ UNCHANGED presenceVars PROVE DayInv'
<1>1. CASE P!CancelsShift \/ UNCHANGED presenceVars
  BY <1>1, CancelsTheShiftKeeps
<1>2. CASE P!Tick \/ P!ComputeAdherence
  BY <1>2, TickKeeps, ComputeAdherenceKeeps
<1>3. ASSUME NEW t \in Tabs, P!Publishes(t) \/ P!IsLost(t) \/ \E s \in Presences : P!SetsColumn(t, s)
      PROVE  DayInv'
  BY <1>3, PublishesKeeps, IsLostKeeps, SetsColumnKeeps
<1>4. ASSUME NEW e \in pending, P!RecordStateChange(e)
      PROVE  DayInv'
  BY <1>4, RecordStateChangeKeeps
<1> QED BY <1>1, <1>2, <1>3, <1>4 DEF P!Next

\* For any number of planners, people, shifts and requests, and any number of changes and
\* days: nobody is rostered twice or over approved leave, and what is recorded of a day is
\* what happened in it, but for the overlaps and the delays each names
\* (wfm.service.ts:371-576, 581-667, 743-795).
THEOREM WorkdaysAreTrueTheorem == AllSpec => []WorkdaysAreTrue
<1>1. AllInit => RosterInv /\ DayInv
  BY StartsEveryPart, RosterInit, DayInit
<1>2. RosterInv /\ DayInv /\ [AllNext]_AllVars => (RosterInv /\ DayInv)'
  <2> SUFFICES ASSUME RosterInv, DayInv, [AllNext]_AllVars PROVE RosterInv' /\ DayInv'
    OBVIOUS
  <2>1. (R!Next \/ UNCHANGED rosterVars) /\ (P!Next \/ UNCHANGED presenceVars)
    BY StepsOnePart
  <2> QED BY <2>1, RosterNext, DayNext
<1>3. RosterInv /\ DayInv => WorkdaysAreTrue
  BY DEF RosterInv, DayInv, WorkdaysAreTrue
<1> QED BY <1>1, <1>2, <1>3, PTL DEF AllSpec
=============================================================================
