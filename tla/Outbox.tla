------------------------------- MODULE Outbox -------------------------------
(***************************************************************************)
(* Publication of a domain event: EventBus.publish on the request path and *)
(* OutboxRelay.drain on the worker tier, meeting in the outbox table and   *)
(* in the Redis lock that guards the relay.                                *)
(*                                                                         *)
(* Every await of the source is a step of its own, so a drain can read the *)
(* table while a request sits between two statements of publish.  A drain  *)
(* is one invocation of the cron handler, not one process: the scheduler   *)
(* starts a new one every ten seconds whether or not the last has ended.   *)
(*                                                                         *)
(* The payload of an event, the listeners' own work and the wording of     *)
(* lastError are left out.  Crashes and failed statements share a budget.  *)
(***************************************************************************)
EXTENDS Naturals, FiniteSets

CONSTANTS
  Events,       \* the events callers publish
  TxEvents,     \* those published with options.tx, inside the caller's transaction
  Drains,       \* concurrent invocations of OutboxRelay.drain
  NoDrain,      \* the lock's value when nobody holds it
  NoEvent,      \* the loop variable of a drain between two events
  BatchSize,    \* BATCH_SIZE
  MaxAttempts,  \* MAX_ATTEMPTS
  MaxFaults     \* bound: processes that die between two statements and
                \* statements the database refuses, together

ASSUME OutboxAssumption ==
  /\ TxEvents \subseteq Events
  /\ IsFiniteSet(Events)
  /\ IsFiniteSet(Drains)
  /\ NoDrain \notin Drains
  /\ NoEvent \notin Events
  /\ BatchSize \in Nat \ {0}
  /\ MaxAttempts \in Nat \ {0}
  /\ MaxFaults \in Nat

VARIABLES
  changed,    \* events whose producing state change is committed
  publisher,  \* where the caller of publish stands, per event
  row,        \* the outbox_events row of each event
  emitted,    \* how often each event reached the in-process listeners
  lock,       \* the drain whose token is in atr:global:outbox-relay
  drain,      \* the local state of each drain
  crashes, dbErrors,  \* the budgets spent so far
  overrun     \* some drain has outlived the 30 s lease of its lock

busVars   == <<changed, publisher>>
faultVars == <<crashes, dbErrors, overrun>>
vars == <<changed, publisher, row, emitted, lock, drain, crashes, dbErrors, overrun>>

PublisherState ==
  {"idle", "changed", "inTx", "inserted", "emitted", "done", "threw", "crashed"}
RowState   == {"absent", "pending", "published", "failed"}
DrainState == {"idle", "scan", "emit", "mark", "record", "release"}

Row   == [status : RowState, attempts : Nat, at : Nat]
Drain == [pc : DrainState, batch : SUBSET Events,
          event : Events \cup {NoEvent}, seen : [Events -> Nat]]

NoRow  == [status |-> "absent", attempts |-> 0, at |-> 0]
Asleep == [pc |-> "idle", batch |-> {}, event |-> NoEvent, seen |-> [e \in Events |-> 0]]

TypeOK ==
  /\ changed \subseteq Events
  /\ publisher \in [Events -> PublisherState]
  /\ row \in [Events -> Row]
  /\ emitted \in [Events -> Nat]
  /\ lock \in Drains \cup {NoDrain}
  /\ drain \in [Drains -> Drain]
  /\ crashes \in Nat
  /\ dbErrors \in Nat
  /\ overrun \in BOOLEAN

Init ==
  /\ changed = {}
  /\ publisher = [e \in Events |-> "idle"]
  /\ row = [e \in Events |-> NoRow]
  /\ emitted = [e \in Events |-> 0]
  /\ lock = NoDrain
  /\ drain = [d \in Drains |-> Asleep]
  /\ crashes = 0
  /\ dbErrors = 0
  /\ overrun = FALSE

-----------------------------------------------------------------------------
(* Rows and what a drain may select.                                       *)

Recorded == {e \in Events : row[e].status # "absent"}

\* A new row is younger than every row already there.
FreshRow == [status |-> "pending", attempts |-> 0, at |-> Cardinality(Recorded) + 1]

\* Mutant: the relay also selects rows already delivered.
DueWhateverStatus ==
  {e \in Events : row[e].status # "absent" /\ row[e].attempts < MaxAttempts}

Due == {e \in Events : row[e].status = "pending" /\ row[e].attempts < MaxAttempts}

\* The oldest BatchSize due rows: orderBy occurredAt asc, take BATCH_SIZE.
IsBatch(B) ==
  /\ B \subseteq Due
  /\ \A e \in B, f \in Due \ B : row[e].at <= row[f].at
  /\ Cardinality(B) <= BatchSize
  /\ Cardinality(B) < BatchSize => B = Due

Oldest(B) == {e \in B : \A f \in B : row[e].at <= row[f].at}

SpendDbError ==
  /\ crashes + dbErrors < MaxFaults
  /\ dbErrors' = dbErrors + 1
  /\ UNCHANGED <<crashes, overrun>>

SpendCrash ==
  /\ crashes + dbErrors < MaxFaults
  /\ crashes' = crashes + 1
  /\ UNCHANGED <<dbErrors, overrun>>

-----------------------------------------------------------------------------
(* EventBus.publish, called after the state change it reports.  No caller  *)
(* passes its transaction today; TxEvents models the branch that exists.   *)

\* The caller's own statement commits; publish comes next.
CommitChange(e) ==
  /\ publisher[e] = "idle" /\ e \notin TxEvents
  /\ changed' = changed \cup {e}
  /\ publisher' = [publisher EXCEPT ![e] = "changed"]
  /\ UNCHANGED <<row, emitted, lock, drain, faultVars>>

InsertRow(e) ==
  /\ publisher[e] = "changed"
  /\ row' = [row EXCEPT ![e] = FreshRow]
  /\ publisher' = [publisher EXCEPT ![e] = "inserted"]
  /\ UNCHANGED <<changed, emitted, lock, drain, faultVars>>

\* Mutant: a refused insert does not stop the in-process delivery.
EmitThoughRefused(e) ==
  /\ publisher[e] = "changed"
  /\ SpendDbError
  /\ emitted' = [emitted EXCEPT ![e] = @ + 1]
  /\ publisher' = [publisher EXCEPT ![e] = "threw"]
  /\ UNCHANGED <<changed, row, lock, drain>>

\* The insert is refused: publish rejects, the change stays.
InsertRefused(e) ==
  /\ publisher[e] = "changed"
  /\ SpendDbError
  /\ publisher' = [publisher EXCEPT ![e] = "threw"]
  /\ UNCHANGED <<changed, row, emitted, lock, drain>>

\* Deliver in-process immediately.
EmitNow(e) ==
  /\ publisher[e] = "inserted"
  /\ emitted' = [emitted EXCEPT ![e] = @ + 1]
  /\ publisher' = [publisher EXCEPT ![e] = "emitted"]
  /\ UNCHANGED <<changed, row, lock, drain, faultVars>>

\* Mark the row so that the relay leaves it alone.
MarkDelivered(e) ==
  /\ publisher[e] = "emitted"
  /\ row' = [row EXCEPT ![e] = [@ EXCEPT !.status = "published", !.attempts = 1]]
  /\ publisher' = [publisher EXCEPT ![e] = "done"]
  /\ UNCHANGED <<changed, emitted, lock, drain, faultVars>>

\* The mark is refused: logged, never propagated.
MarkRefused(e) ==
  /\ publisher[e] = "emitted"
  /\ SpendDbError
  /\ publisher' = [publisher EXCEPT ![e] = "done"]
  /\ UNCHANGED <<changed, row, emitted, lock, drain>>

\* Mutant: the early return for transactions comes after the delivery.
EmitInTx(e) ==
  /\ publisher[e] = "idle" /\ e \in TxEvents
  /\ emitted' = [emitted EXCEPT ![e] = @ + 1]
  /\ publisher' = [publisher EXCEPT ![e] = "inTx"]
  /\ UNCHANGED <<changed, row, lock, drain, faultVars>>

\* With options.tx the insert joins the caller's transaction and publish
\* returns without emitting: the row is invisible until the commit.
InsertInTx(e) ==
  /\ publisher[e] = "idle" /\ e \in TxEvents
  /\ publisher' = [publisher EXCEPT ![e] = "inTx"]
  /\ UNCHANGED <<changed, row, emitted, lock, drain, faultVars>>

\* Mutant: the row is marked delivered for transactional callers too.
CommitTxMarked(e) ==
  /\ publisher[e] = "inTx"
  /\ changed' = changed \cup {e}
  /\ row' = [row EXCEPT ![e] = [FreshRow EXCEPT !.status = "published"]]
  /\ publisher' = [publisher EXCEPT ![e] = "done"]
  /\ UNCHANGED <<emitted, lock, drain, faultVars>>

CommitTx(e) ==
  /\ publisher[e] = "inTx"
  /\ changed' = changed \cup {e}
  /\ row' = [row EXCEPT ![e] = FreshRow]
  /\ publisher' = [publisher EXCEPT ![e] = "done"]
  /\ UNCHANGED <<emitted, lock, drain, faultVars>>

RollbackTx(e) ==
  /\ publisher[e] = "inTx"
  /\ publisher' = [publisher EXCEPT ![e] = "threw"]
  /\ UNCHANGED <<changed, row, emitted, lock, drain, faultVars>>

CrashPublisher(e) ==
  /\ publisher[e] \in {"changed", "inTx", "inserted", "emitted"}
  /\ SpendCrash
  /\ publisher' = [publisher EXCEPT ![e] = "crashed"]
  /\ UNCHANGED <<changed, row, emitted, lock, drain>>

-----------------------------------------------------------------------------
(* OutboxRelay.drain and RedisService.acquireLock.                         *)

\* Mutant: SET without NX.
AcquireAnyway(d) ==
  /\ drain[d].pc = "idle"
  /\ lock' = d
  /\ drain' = [drain EXCEPT ![d].pc = "scan"]
  /\ UNCHANGED <<busVars, row, emitted, faultVars>>

\* SET NX PX 30000; a drain that does not get the lock returns 0.
Acquire(d) ==
  /\ drain[d].pc = "idle" /\ lock = NoDrain
  /\ lock' = d
  /\ drain' = [drain EXCEPT ![d].pc = "scan"]
  /\ UNCHANGED <<busVars, row, emitted, faultVars>>

\* Mutant: the scan claims its rows by counting the attempt in advance.
ScanAndClaim(d) ==
  /\ drain[d].pc = "scan"
  /\ \E B \in SUBSET Due :
       /\ IsBatch(B)
       /\ row' = [e \in Events |->
            IF e \in B THEN [row[e] EXCEPT !.attempts = @ + 1] ELSE row[e]]
       /\ drain' = [drain EXCEPT ![d] =
            [pc    |-> IF B = {} THEN "release" ELSE "emit",
             batch |-> B,
             event |-> NoEvent,
             seen  |-> [e \in Events |-> row[e].attempts]]]
  /\ UNCHANGED <<busVars, emitted, lock, faultVars>>

\* findMany: the batch and its attempts are copied and used from here on.
Scan(d) ==
  /\ drain[d].pc = "scan"
  /\ \E B \in SUBSET Due :
       /\ IsBatch(B)
       /\ drain' = [drain EXCEPT ![d] =
            [pc    |-> IF B = {} THEN "release" ELSE "emit",
             batch |-> B,
             event |-> NoEvent,
             seen  |-> [e \in Events |-> row[e].attempts]]]
  /\ UNCHANGED <<busVars, row, emitted, lock, faultVars>>

RelayEmit(d) ==
  /\ drain[d].pc = "emit"
  /\ \E e \in Oldest(drain[d].batch) :
       /\ emitted' = [emitted EXCEPT ![e] = @ + 1]
       /\ drain' = [drain EXCEPT ![d] = [@ EXCEPT !.pc = "mark", !.event = e]]
  /\ UNCHANGED <<busVars, row, lock, faultVars>>

\* Drop the event just handled and go on with the batch.
Advance(d) ==
  LET rest == drain[d].batch \ {drain[d].event} IN
  drain' = [drain EXCEPT ![d] = [@ EXCEPT
    !.batch = rest,
    !.event = NoEvent,
    !.pc    = IF rest = {} THEN "release" ELSE "emit"]]

RelayMark(d) ==
  /\ drain[d].pc = "mark"
  /\ LET e == drain[d].event IN
     row' = [row EXCEPT ![e] =
       [@ EXCEPT !.status = "published", !.attempts = row[e].attempts + 1]]
  /\ Advance(d)
  /\ UNCHANGED <<busVars, emitted, lock, faultVars>>

RelayMarkRefused(d) ==
  /\ drain[d].pc = "mark"
  /\ SpendDbError
  /\ drain' = [drain EXCEPT ![d].pc = "record"]
  /\ UNCHANGED <<busVars, row, emitted, lock>>

\* Mutant: the catch block gives the attempt back.
RecordBackwards(d) ==
  /\ drain[d].pc = "record"
  /\ row' = [row EXCEPT ![drain[d].event] =
       [@ EXCEPT !.status = "pending", !.attempts = drain[d].seen[drain[d].event] - 1]]
  /\ Advance(d)
  /\ UNCHANGED <<busVars, emitted, lock, faultVars>>

\* The catch block counts from the attempts it read, and writes the status back.
RelayRecord(d) ==
  /\ drain[d].pc = "record"
  /\ LET e        == drain[d].event
         attempts == drain[d].seen[e] + 1
     IN row' = [row EXCEPT ![e] = [@ EXCEPT
          !.attempts = attempts,
          !.status   = IF attempts >= MaxAttempts THEN "failed" ELSE "pending"]]
  /\ Advance(d)
  /\ UNCHANGED <<busVars, emitted, lock, faultVars>>

\* A second refusal leaves drain through its finally block.
RelayRecordRefused(d) ==
  /\ drain[d].pc = "record"
  /\ SpendDbError
  /\ drain' = [drain EXCEPT ![d].pc = "release"]
  /\ UNCHANGED <<busVars, row, emitted, lock>>

\* The compare-and-delete script frees only the drain's own token.
Release(d) ==
  /\ drain[d].pc = "release"
  /\ lock' = IF lock = d THEN NoDrain ELSE lock
  /\ drain' = [drain EXCEPT ![d] = Asleep]
  /\ UNCHANGED <<busVars, row, emitted, faultVars>>

CrashDrain(d) ==
  /\ drain[d].pc # "idle"
  /\ SpendCrash
  /\ drain' = [drain EXCEPT ![d] = Asleep]
  /\ UNCHANGED <<busVars, row, emitted, lock>>

\* Redis drops the key after 30 s, whether its holder died or is only slow.
LeaseExpires ==
  /\ lock # NoDrain
  /\ lock' = NoDrain
  /\ overrun' = (overrun \/ drain[lock].pc # "idle")
  /\ UNCHANGED <<busVars, row, emitted, drain, crashes, dbErrors>>

-----------------------------------------------------------------------------
PublishStep(e) ==
  \/ CommitChange(e) \/ InsertRow(e) \/ InsertRefused(e) \/ EmitNow(e)
  \/ MarkDelivered(e) \/ MarkRefused(e)
  \/ InsertInTx(e) \/ CommitTx(e) \/ RollbackTx(e) \/ CrashPublisher(e)

RelayStep(d) ==
  \/ Acquire(d) \/ Scan(d) \/ RelayEmit(d) \/ RelayMark(d) \/ RelayMarkRefused(d)
  \/ RelayRecord(d) \/ RelayRecordRefused(d) \/ Release(d) \/ CrashDrain(d)

Next ==
  \/ \E e \in Events : PublishStep(e)
  \/ \E d \in Drains : RelayStep(d)
  \/ LeaseExpires

\* A drain's own statements, without the crash.
RelayProgress(d) ==
  \/ Scan(d) \/ RelayEmit(d) \/ RelayMark(d) \/ RelayMarkRefused(d)
  \/ RelayRecord(d) \/ RelayRecordRefused(d) \/ Release(d)

(***************************************************************************)
(* The cron handler fires for ever and Redis expires keys on its own.  A   *)
(* drain that started runs on; request handlers are given no fairness, for *)
(* a process may die between any two of their statements.                  *)
(***************************************************************************)
Fairness ==
  /\ WF_vars(\E d \in Drains : Acquire(d))
  /\ WF_vars(LeaseExpires)
  /\ \A d \in Drains : WF_vars(RelayProgress(d))

Spec == Init /\ [][Next]_vars /\ Fairness

-----------------------------------------------------------------------------
(* Properties.                                                             *)

Working(d) == drain[d].pc # "idle"

\* An event nobody committed is never announced: inside a transaction publish
\* leaves the delivery to the relay, and the relay reads committed rows only.
NoPhantom == \A e \in Events : emitted[e] > 0 => e \in changed

\* A row leaves the relay's reach (published, or failed for good) only after
\* the listeners were called: the mark always follows the emit it records.
SettledWasDelivered ==
  \A e \in Events : row[e].status \in {"published", "failed"} => emitted[e] > 0

\* The attempts column never counts a delivery that did not happen, though the
\* publisher assigns it, the relay increments it, and the relay's catch block
\* writes it from a value it read before.
AttemptsAreDeliveries == \A e \in Events : row[e].attempts <= emitted[e]

\* Two drains are at work only if one outlived its lease.
OneDrainer ==
  ~overrun => \A c, d \in Drains : Working(c) /\ Working(d) => c = d

\* Until a drain outlives its lease an event is handed over twice at most (by its
\* publisher, once by a drain that had read the row before it was marked), and
\* once more for every crash and every refused statement.
DuplicatesArePaidFor ==
  ~overrun => \A e \in Events : emitted[e] <= 2 + crashes + dbErrors

\* Every row that was ever recorded is delivered, whatever crashed meanwhile.
RecordedIsDelivered ==
  \A e \in Events : (e \in Recorded) ~> (emitted[e] > 0)

\* The bus as its listeners see it.
Bus == INSTANCE AtLeastOnceBus WITH committed <- Recorded, delivered <- emitted

\* The outbox implements that bus, its liveness included.
ImplementsBus == Bus!Spec
=============================================================================
