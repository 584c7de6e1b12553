---------------------------- MODULE OutboxProofs ----------------------------
(***************************************************************************)
(* Proofs about Outbox, for any set of events and drains, any batch size,  *)
(* any retry limit and any number of crashes and refused statements.       *)
(***************************************************************************)
EXTENDS Outbox, FiniteSetTheorems, TLAPS

(***************************************************************************)
(* Causality: what is under way, recorded or announced was committed, and  *)
(* a publisher before its insert has no row yet.                           *)
(***************************************************************************)
EventCausality ==
  \A e \in Events :
    /\ publisher[e] \in {"changed", "inserted", "emitted"} => e \in changed
    /\ publisher[e] \in {"inserted", "emitted"} => e \in Recorded
    /\ publisher[e] \in {"idle", "changed", "inTx"} => e \notin Recorded
    /\ e \in Recorded => e \in changed
    /\ emitted[e] > 0 => e \in Recorded

DrainCausality ==
  \A d \in Drains :
    /\ drain[d].batch \subseteq Recorded
    /\ drain[d].pc \in {"mark", "record"} => drain[d].event \in drain[d].batch

Causality == EventCausality /\ DrainCausality

\* Deliveries of e already made and not yet counted in its row.
Owing(e) == {d \in Drains : drain[d].pc \in {"mark", "record"} /\ drain[d].event = e}
Owed(e)  == IF publisher[e] = "emitted" THEN 1 ELSE 0

(***************************************************************************)
(* Accounting: a row's attempts, and the attempts any drain remembers of   *)
(* it, leave room for every delivery that is still to be counted.          *)
(***************************************************************************)
Accounting ==
  \A e \in Events :
    /\ row[e].attempts + Cardinality(Owing(e)) + Owed(e) <= emitted[e]
    /\ \A d \in Drains :
         drain[d].seen[e] + Cardinality(Owing(e)) + Owed(e) <= emitted[e]
    /\ row[e].status \in {"published", "failed"} => row[e].attempts > 0

\* Until a drain outlives its lease, whoever is at work holds the lock.
Exclusion == ~overrun => \A d \in Drains : Working(d) => lock = d

\* Whether the publisher of e can no longer deliver it, and whether its row or
\* a drain about to mark it stands for a delivery of its own.
Announced(e) == IF publisher[e] \in {"idle", "changed", "inTx", "inserted"} THEN 0 ELSE 1
Settled(e) ==
  IF \/ row[e].status \in {"published", "failed"}
     \/ \E d \in Drains : drain[d].pc = "mark" /\ drain[d].event = e
  THEN 1 ELSE 0

(***************************************************************************)
(* Deliveries of e are covered by its publisher's, the faults so far and   *)
(* one by the relay; while a drain still has e to deliver, or is about to  *)
(* put it back, the one by the relay is not yet spent.                     *)
(***************************************************************************)
Covered ==
  \A e \in Events :
    /\ emitted[e] <= Announced(e) + crashes + dbErrors + Settled(e)
    /\ \A d \in Drains :
         /\ e \in drain[d].batch
         /\ \/ drain[d].pc \in {"emit", "record"}
            \/ drain[d].pc = "mark" /\ drain[d].event # e
         => emitted[e] <= Announced(e) + crashes + dbErrors

CoveredTillOverrun == ~overrun => Covered

-----------------------------------------------------------------------------
USE OutboxAssumption DEF Recorded

\* Every variable keeps its type, whatever fails.
THEOREM TypeCorrect == Spec => []TypeOK
<1>1. Init => TypeOK
  <2> SUFFICES ASSUME Init PROVE TypeOK
    OBVIOUS
  <2>1. overrun \in BOOLEAN
    BY Zenon DEF Init
  <2>2. crashes \in Nat /\ dbErrors \in Nat
    BY DEF Init
  <2>3. NoRow \in Row /\ Asleep \in Drain
    BY DEF NoRow, Asleep, Row, Drain, RowState, DrainState
  <2>4. /\ changed \subseteq Events /\ publisher \in [Events -> PublisherState]
        /\ row \in [Events -> Row] /\ emitted \in [Events -> Nat]
        /\ lock \in Drains \cup {NoDrain} /\ drain \in [Drains -> Drain]
    BY <2>3 DEF Init, PublisherState
  <2> QED BY <2>1, <2>2, <2>4 DEF TypeOK
<1>2. TypeOK /\ [Next]_vars => TypeOK'
  <2> SUFFICES ASSUME TypeOK, [Next]_vars PROVE TypeOK'
    OBVIOUS
  <2> USE DEF TypeOK, busVars, faultVars
  <2>1. Cardinality(Recorded) \in Nat
    BY FS_Subset, FS_CardinalityType, Recorded \subseteq Events
  <2>2. FreshRow \in Row
    BY <2>1 DEF FreshRow, Row, RowState
  <2>3. Asleep \in Drain
    BY DEF Asleep, Drain, DrainState
  <2>4. ASSUME NEW d \in Drains, NEW s \in DrainState
        PROVE  [drain[d] EXCEPT !.pc = s] \in Drain
    BY DEF Drain
  <2>5. ASSUME NEW d \in Drains, Advance(d) PROVE drain' \in [Drains -> Drain]
    <3> DEFINE rest == drain[d].batch \ {drain[d].event}
               next == [drain[d] EXCEPT !.batch = rest, !.event = NoEvent,
                          !.pc = IF rest = {} THEN "release" ELSE "emit"]
    <3>1. next \in Drain
      BY DEF Drain, DrainState
    <3> QED BY <2>5, <3>1 DEF Advance
  <2>6. ASSUME NEW e \in Events, PublishStep(e) PROVE TypeOK'
    <3> USE DEF PublisherState
    <3>1. CASE CommitChange(e)  BY <3>1 DEF CommitChange
    <3>2. CASE InsertRow(e)     BY <2>2, <3>2 DEF InsertRow
    <3>3. CASE InsertRefused(e) BY <3>3 DEF InsertRefused, SpendDbError
    <3>4. CASE EmitNow(e)       BY <3>4 DEF EmitNow
    <3>5. CASE MarkDelivered(e)
      <4>0. row[e] \in Row
        OBVIOUS
      <4>1. [row[e] EXCEPT !.status = "published", !.attempts = 1] \in Row
        BY <4>0 DEF Row, RowState
      <4>2. row' \in [Events -> Row] /\ publisher' \in [Events -> PublisherState]
        BY <3>5, <4>1 DEF MarkDelivered
      <4> QED BY <3>5, <4>2 DEF MarkDelivered
    <3>6. CASE MarkRefused(e)   BY <3>6 DEF MarkRefused, SpendDbError
    <3>7. CASE InsertInTx(e)    BY <3>7 DEF InsertInTx
    <3>8. CASE CommitTx(e)      BY <2>2, <3>8 DEF CommitTx
    <3>9. CASE RollbackTx(e)    BY <3>9 DEF RollbackTx
    <3>10. CASE CrashPublisher(e) BY <3>10 DEF CrashPublisher, SpendCrash
    <3> QED BY <2>6, <3>1, <3>2, <3>3, <3>4, <3>5, <3>6, <3>7, <3>8, <3>9, <3>10
              DEF PublishStep
  <2>7. ASSUME NEW d \in Drains, RelayStep(d) PROVE TypeOK'
    <3> USE DEF DrainState
    <3>1. CASE Acquire(d)  BY <2>4, <3>1 DEF Acquire
    <3>2. CASE Scan(d)
      <4>1. PICK B \in SUBSET Due :
              drain' = [drain EXCEPT ![d] =
                [pc    |-> IF B = {} THEN "release" ELSE "emit",
                 batch |-> B,
                 event |-> NoEvent,
                 seen  |-> [e \in Events |-> row[e].attempts]]]
        BY <3>2 DEF Scan
      <4>2. \A e \in Events : row[e].attempts \in Nat
        BY DEF Row
      <4>3. drain' \in [Drains -> Drain]
        BY <4>1, <4>2 DEF Drain, Due
      <4> QED BY <3>2, <4>3 DEF Scan
    <3>3. CASE RelayEmit(d)
      <4>1. PICK e \in Oldest(drain[d].batch) :
              /\ emitted' = [emitted EXCEPT ![e] = @ + 1]
              /\ drain' = [drain EXCEPT ![d] = [@ EXCEPT !.pc = "mark", !.event = e]]
        BY <3>3 DEF RelayEmit
      <4>2. e \in Events
        BY DEF Oldest, Drain
      <4>3. [drain[d] EXCEPT !.pc = "mark", !.event = e] \in Drain
        BY <4>2 DEF Drain
      <4> QED BY <3>3, <4>1, <4>2, <4>3 DEF RelayEmit
    <3>4. CASE RelayMark(d)
      <4> DEFINE e        == drain[d].event
                 attempts == row[e].attempts + 1
                 marked   == [row[e] EXCEPT !.status = "published", !.attempts = attempts]
      <4>1. ASSUME e \in Events PROVE marked \in Row
        <5>1. row[e] \in Row /\ attempts \in Nat
          BY <4>1 DEF Row
        <5> QED BY <5>1 DEF Row, RowState
      <4>2. row' = [row EXCEPT ![e] = marked]
        BY <3>4 DEF RelayMark
      <4> HIDE DEF marked, e
      <4>3. row' \in [Events -> Row]
        BY <4>1, <4>2
      <4> QED BY <2>5, <3>4, <4>3 DEF RelayMark
    <3>5. CASE RelayMarkRefused(d)
      <4>1. drain' = [drain EXCEPT ![d] = [drain[d] EXCEPT !.pc = "record"]]
        BY <3>5 DEF RelayMarkRefused
      <4>2. drain' \in [Drains -> Drain]
        BY <2>4, <4>1
      <4> QED BY <3>5, <4>2 DEF RelayMarkRefused, SpendDbError
    <3>6. CASE RelayRecord(d)
      <4> DEFINE e        == drain[d].event
                 attempts == drain[d].seen[e] + 1
                 status   == IF attempts >= MaxAttempts THEN "failed" ELSE "pending"
      <4>1. ASSUME e \in Events
            PROVE  [row[e] EXCEPT !.attempts = attempts, !.status = status] \in Row
        <5>1. row[e] \in Row /\ attempts \in Nat
          BY <4>1 DEF Row, Drain
        <5>2. status \in RowState
          BY DEF RowState
        <5> HIDE DEF attempts, status
        <5> QED BY <5>1, <5>2 DEF Row
      <4>2. row' \in [Events -> Row]
        BY <3>6, <4>1 DEF RelayRecord
      <4> QED BY <2>5, <3>6, <4>2 DEF RelayRecord
    <3>7. CASE RelayRecordRefused(d)
      <4>1. drain' = [drain EXCEPT ![d] = [drain[d] EXCEPT !.pc = "release"]]
        BY <3>7 DEF RelayRecordRefused
      <4>2. drain' \in [Drains -> Drain]
        BY <2>4, <4>1
      <4> QED BY <3>7, <4>2 DEF RelayRecordRefused, SpendDbError
    <3>8. CASE Release(d)    BY <2>3, <3>8 DEF Release
    <3>9. CASE CrashDrain(d) BY <2>3, <3>9 DEF CrashDrain, SpendCrash
    <3> QED BY <2>7, <3>1, <3>2, <3>3, <3>4, <3>5, <3>6, <3>7, <3>8, <3>9
              DEF RelayStep
  <2>8. CASE LeaseExpires BY <2>8 DEF LeaseExpires
  <2>9. CASE UNCHANGED vars BY <2>9 DEF vars
  <2> QED BY <2>6, <2>7, <2>8, <2>9 DEF Next
<1> QED BY <1>1, <1>2, PTL DEF Spec

(***************************************************************************)
(* What a step does to a row: nothing, write one where there was none, or  *)
(* change one that was there.                                              *)
(***************************************************************************)
LEMMA RecordedGrows ==
  ASSUME TypeOK, Causality, [Next]_vars
  PROVE  Recorded \subseteq Recorded'
<1> USE DEF TypeOK, busVars, faultVars
<1>1. ASSUME NEW e \in Events, PublishStep(e) PROVE Recorded \subseteq Recorded'
  <2>1. CASE row' = row BY <2>1
  <2>2. CASE InsertRow(e) BY <2>2 DEF InsertRow, FreshRow
  <2>3. CASE MarkDelivered(e) BY <2>3 DEF MarkDelivered, Row
  <2>4. CASE CommitTx(e) BY <2>4 DEF CommitTx, FreshRow
  <2> QED BY <1>1, <2>1, <2>2, <2>3, <2>4 DEF PublishStep, CommitChange, InsertRefused,
            EmitNow, MarkRefused, InsertInTx, RollbackTx, CrashPublisher
<1>2. ASSUME NEW d \in Drains, RelayStep(d) PROVE Recorded \subseteq Recorded'
  <2>1. CASE row' = row BY <2>1
  <2>2. CASE RelayMark(d) BY <2>2 DEF RelayMark, Row
  <2>3. CASE RelayRecord(d) BY <2>3 DEF RelayRecord, Row
  <2> QED BY <1>2, <2>1, <2>2, <2>3 DEF RelayStep, Acquire, Scan, RelayEmit,
            RelayMarkRefused, RelayRecordRefused, Release, CrashDrain
<1>3. CASE LeaseExpires BY <1>3 DEF LeaseExpires
<1>4. CASE UNCHANGED vars BY <1>4 DEF vars
<1> QED BY <1>1, <1>2, <1>3, <1>4 DEF Next

LEMMA CausalityInductive ==
  ASSUME TypeOK, Causality, [Next]_vars
  PROVE  Causality'
<1> USE DEF TypeOK, busVars, faultVars
<1>1. ASSUME NEW e \in Events, PublishStep(e) PROVE Causality'
  <2>1. drain' = drain
    BY <1>1 DEF PublishStep, CommitChange, InsertRow, InsertRefused, EmitNow, MarkDelivered,
       MarkRefused, InsertInTx, CommitTx, RollbackTx, CrashPublisher
  <2>2. DrainCausality'
    BY <2>1, RecordedGrows DEF Causality, DrainCausality
  <2>3. EventCausality'
    <3> USE DEF Causality, EventCausality
    <3>1. CASE CommitChange(e)  BY <3>1 DEF CommitChange
    <3>2. CASE InsertRow(e)     BY <3>2 DEF InsertRow, FreshRow
    <3>3. CASE InsertRefused(e) BY <3>3 DEF InsertRefused, SpendDbError
    <3>4. CASE EmitNow(e)       BY <3>4 DEF EmitNow
    <3>5. CASE MarkDelivered(e) BY <3>5 DEF MarkDelivered, Row
    <3>6. CASE MarkRefused(e)   BY <3>6 DEF MarkRefused, SpendDbError
    <3>7. CASE InsertInTx(e)    BY <3>7 DEF InsertInTx
    <3>8. CASE CommitTx(e)      BY <3>8 DEF CommitTx, FreshRow
    <3>9. CASE RollbackTx(e)    BY <3>9 DEF RollbackTx
    <3>10. CASE CrashPublisher(e) BY <3>10 DEF CrashPublisher, SpendCrash
    <3> QED BY <1>1, <3>1, <3>2, <3>3, <3>4, <3>5, <3>6, <3>7, <3>8, <3>9, <3>10
              DEF PublishStep
  <2> QED BY <2>2, <2>3 DEF Causality
<1>2. ASSUME NEW d \in Drains, RelayStep(d) PROVE Causality'
  <2> USE DEF Causality, EventCausality, DrainCausality
  <2>1. CASE Acquire(d) BY <2>1 DEF Acquire, Drain
  <2>2. CASE Scan(d)
    <3>1. PICK B \in SUBSET Due :
            drain' = [drain EXCEPT ![d] =
              [pc    |-> IF B = {} THEN "release" ELSE "emit",
               batch |-> B,
               event |-> NoEvent,
               seen  |-> [e \in Events |-> row[e].attempts]]]
      BY <2>2 DEF Scan
    <3>2. B \subseteq Recorded
      BY DEF Due
    <3> QED BY <2>2, <3>1, <3>2 DEF Scan
  <2>3. CASE RelayEmit(d)
    <3>1. PICK e \in Oldest(drain[d].batch) :
            /\ emitted' = [emitted EXCEPT ![e] = @ + 1]
            /\ drain' = [drain EXCEPT ![d] = [@ EXCEPT !.pc = "mark", !.event = e]]
      BY <2>3 DEF RelayEmit
    <3>2. e \in drain[d].batch
      BY DEF Oldest
    <3> QED BY <2>3, <3>1, <3>2 DEF RelayEmit, Drain
  <2>4. CASE RelayMark(d)
    <3>1. EventCausality' BY <2>4 DEF RelayMark, Row
    <3>2. DrainCausality' BY <2>4, RecordedGrows DEF RelayMark, Advance, Drain
    <3> QED BY <3>1, <3>2
  <2>5. CASE RelayMarkRefused(d) BY <2>5 DEF RelayMarkRefused, Drain
  <2>6. CASE RelayRecord(d)
    <3>1. EventCausality' BY <2>6 DEF RelayRecord, Row
    <3>2. DrainCausality' BY <2>6, RecordedGrows DEF RelayRecord, Advance, Drain
    <3> QED BY <3>1, <3>2
  <2>7. CASE RelayRecordRefused(d) BY <2>7 DEF RelayRecordRefused, Drain
  <2>8. CASE Release(d)    BY <2>8 DEF Release, Asleep
  <2>9. CASE CrashDrain(d) BY <2>9 DEF CrashDrain, Asleep
  <2> QED BY <1>2, <2>1, <2>2, <2>3, <2>4, <2>5, <2>6, <2>7, <2>8, <2>9 DEF RelayStep
<1>3. CASE LeaseExpires
  BY <1>3 DEF LeaseExpires, Causality, EventCausality, DrainCausality
<1>4. CASE UNCHANGED vars
  BY <1>4 DEF vars, Causality, EventCausality, DrainCausality
<1> QED BY <1>1, <1>2, <1>3, <1>4 DEF Next

LEMMA CausalityHolds == Spec => []Causality
<1>1. Init => Causality
  BY DEF Init, Causality, EventCausality, DrainCausality, NoRow, Asleep
<1> QED BY <1>1, TypeCorrect, CausalityInductive, PTL DEF Spec

(***************************************************************************)
(* No event is announced that no caller committed.                         *)
(***************************************************************************)
THEOREM NoPhantomHolds == Spec => []NoPhantom
<1>1. Causality => NoPhantom
  BY DEF Causality, EventCausality, NoPhantom
<1> QED BY <1>1, CausalityHolds, PTL

\* A lease that was outlived stays so.
LEMMA OverrunStays == ASSUME overrun, [Next]_vars PROVE overrun'
BY DEF Next, PublishStep, RelayStep, SpendDbError, SpendCrash, vars, faultVars,
   CommitChange, InsertRow, InsertRefused, EmitNow, MarkDelivered,
   MarkRefused, InsertInTx, CommitTx, RollbackTx, CrashPublisher,
   Acquire, Scan, RelayEmit, RelayMark, RelayMarkRefused,
   RelayRecord, RelayRecordRefused, Release, CrashDrain, LeaseExpires

LEMMA ExclusionInductive ==
  ASSUME TypeOK, Exclusion, [Next]_vars
  PROVE  Exclusion'
<1> USE DEF TypeOK, Exclusion, Working, busVars, faultVars
<1>1. CASE overrun BY <1>1, OverrunStays
<1>2. ASSUME ~overrun, NEW d \in Drains, RelayStep(d) PROVE Exclusion'
  <2>1. CASE Acquire(d) BY <1>2, <2>1 DEF Acquire
  <2>2. CASE Release(d) BY <1>2, <2>2 DEF Release, Asleep
  <2>3. CASE CrashDrain(d) BY <1>2, <2>3 DEF CrashDrain, Asleep
  <2>4. CASE Scan(d) BY <1>2, <2>4 DEF Scan
  <2>5. CASE RelayEmit(d) BY <1>2, <2>5 DEF RelayEmit
  <2>6. CASE RelayMark(d) BY <1>2, <2>6 DEF RelayMark, Advance
  <2>7. CASE RelayMarkRefused(d) BY <1>2, <2>7 DEF RelayMarkRefused
  <2>8. CASE RelayRecord(d) BY <1>2, <2>8 DEF RelayRecord, Advance
  <2>9. CASE RelayRecordRefused(d) BY <1>2, <2>9 DEF RelayRecordRefused
  <2> QED BY <1>2, <2>1, <2>2, <2>3, <2>4, <2>5, <2>6, <2>7, <2>8, <2>9 DEF RelayStep
<1>3. ASSUME ~overrun, NEW e \in Events, PublishStep(e) PROVE Exclusion'
  <2>1. drain' = drain /\ lock' = lock
    BY <1>3 DEF PublishStep, CommitChange, InsertRow, InsertRefused, EmitNow, MarkDelivered,
       MarkRefused, InsertInTx, CommitTx, RollbackTx, CrashPublisher
  <2> QED BY <1>3, <2>1
<1>4. CASE LeaseExpires BY <1>4 DEF LeaseExpires
<1>5. CASE UNCHANGED vars BY <1>5 DEF vars
<1> QED BY <1>1, <1>2, <1>3, <1>4, <1>5 DEF Next

LEMMA ExclusionHolds == Spec => []Exclusion
<1>1. Init => Exclusion
  BY DEF Init, Exclusion, Working, Asleep
<1> QED BY <1>1, TypeCorrect, ExclusionInductive, PTL DEF Spec

(***************************************************************************)
(* One drain works at a time, provided none outlives its lease.            *)
(***************************************************************************)
THEOREM OneDrainerHolds == Spec => []OneDrainer
<1>1. Exclusion => OneDrainer
  BY DEF Exclusion, OneDrainer
<1> QED BY <1>1, ExclusionHolds, PTL

(***************************************************************************)
(* Every step of the outbox is a step of the at-least-once bus, or none.   *)
(***************************************************************************)
THEOREM OutboxRefinesBus == Spec => Bus!Init /\ [][Bus!Next]_Bus!busVars
<1>1. Init => Bus!Init
  BY DEF Init, Bus!Init, NoRow
<1>2. ASSUME TypeOK, Causality, [Next]_vars
      PROVE  [Bus!Next]_Bus!busVars
  <2> USE <1>2 DEF TypeOK, busVars, faultVars
  <2> DEFINE Quiet == Recorded' = Recorded /\ emitted' = emitted
  <2>1. Quiet => UNCHANGED Bus!busVars
    BY DEF Bus!busVars
  <2>2. ASSUME NEW e \in Events, PublishStep(e) PROVE [Bus!Next]_Bus!busVars
    <3>1. CASE row' = row /\ emitted' = emitted
      BY <2>1, <3>1
    <3>2. CASE InsertRow(e) \/ CommitTx(e)
      <4>1. e \notin Recorded
        BY <3>2 DEF Causality, EventCausality, InsertRow, CommitTx
      <4>2. Recorded' = Recorded \cup {e} /\ emitted' = emitted
        BY <3>2 DEF InsertRow, CommitTx, FreshRow
      <4> QED BY <4>1, <4>2 DEF Bus!Next, Bus!Commit
    <3>3. CASE EmitNow(e)
      <4>1. e \in Recorded
        BY <3>3 DEF Causality, EventCausality, EmitNow
      <4> QED BY <3>3, <4>1 DEF EmitNow, Bus!Next, Bus!Deliver
    <3>4. CASE MarkDelivered(e)
      <4>1. e \in Recorded
        BY <3>4 DEF Causality, EventCausality, MarkDelivered
      <4>2. Quiet
        BY <3>4, <4>1 DEF MarkDelivered, Row
      <4> QED BY <2>1, <4>2
    <3> QED BY <2>2, <3>1, <3>2, <3>3, <3>4 DEF PublishStep, CommitChange, InsertRefused,
              MarkRefused, InsertInTx, RollbackTx, CrashPublisher
  <2>3. ASSUME NEW d \in Drains, RelayStep(d) PROVE [Bus!Next]_Bus!busVars
    <3>1. CASE row' = row /\ emitted' = emitted
      BY <2>1, <3>1
    <3>2. CASE RelayEmit(d)
      <4>1. PICK e \in Oldest(drain[d].batch) : emitted' = [emitted EXCEPT ![e] = @ + 1]
        BY <3>2 DEF RelayEmit
      <4>2. e \in Recorded
        BY DEF Oldest, Causality, DrainCausality
      <4> QED BY <3>2, <4>1, <4>2 DEF RelayEmit, Bus!Next, Bus!Deliver
    <3>3. CASE RelayMark(d) \/ RelayRecord(d)
      <4> DEFINE e == drain[d].event
      <4>1. e \in Recorded
        BY <3>3 DEF Causality, DrainCausality, RelayMark, RelayRecord
      <4>2. ASSUME RelayMark(d) PROVE Quiet
        BY <4>1, <4>2 DEF RelayMark, Row
      <4>3. ASSUME RelayRecord(d) PROVE Quiet
        BY <4>1, <4>3 DEF RelayRecord, Row
      <4> QED BY <2>1, <3>3, <4>2, <4>3
    <3> QED BY <2>3, <3>1, <3>2, <3>3 DEF RelayStep, Acquire, Scan, RelayMarkRefused,
              RelayRecordRefused, Release, CrashDrain
  <2>4. CASE LeaseExpires BY <2>1, <2>4 DEF LeaseExpires
  <2>5. CASE UNCHANGED vars BY <2>1, <2>5 DEF vars
  <2> QED BY <2>2, <2>3, <2>4, <2>5 DEF Next
<1> QED BY <1>1, <1>2, TypeCorrect, CausalityHolds, PTL DEF Spec

LEMMA OwingFinite ==
  ASSUME NEW e \in Events
  PROVE  IsFiniteSet(Owing(e)) /\ Cardinality(Owing(e)) \in Nat
BY FS_Subset, FS_CardinalityType, Owing(e) \subseteq Drains DEF Owing

LEMMA OwingFinitePrime ==
  ASSUME NEW e \in Events
  PROVE  IsFiniteSet(Owing(e)') /\ Cardinality(Owing(e)') \in Nat
BY FS_Subset, FS_CardinalityType, Owing(e)' \subseteq Drains DEF Owing

\* Whether a drain in local state x owes e a mark.
Owes(x, e) == x.pc \in {"mark", "record"} /\ x.event = e

\* How a drain's step moves the count of the deliveries still owed to a row.
LEMMA OwingMoves ==
  ASSUME NEW d \in Drains, NEW x \in Drain, TypeOK, drain' = [drain EXCEPT ![d] = x],
         NEW e \in Events
  PROVE  Cardinality(Owing(e)') = Cardinality(Owing(e))
           + (IF Owes(x, e) THEN 1 ELSE 0) - (IF Owes(drain[d], e) THEN 1 ELSE 0)
<1> DEFINE others == Owing(e) \ {d}
<1>1. IsFiniteSet(others) /\ Cardinality(others) \in Nat /\ d \notin others
  BY OwingFinite, FS_Subset, FS_CardinalityType, others \subseteq Owing(e)
<1>2. Owing(e) = IF Owes(drain[d], e) THEN others \cup {d} ELSE others
  BY DEF Owing, Owes
<1>3. Owing(e)' = IF Owes(x, e) THEN others \cup {d} ELSE others
  BY DEF Owing, Owes, TypeOK
<1> HIDE DEF others
<1>4. Cardinality(others \cup {d}) = Cardinality(others) + 1
  BY <1>1, FS_AddElement
<1> QED BY <1>1, <1>2, <1>3, <1>4

\* A drain whose program counter moves keeps the rest of its state.
LEMMA PcMoves ==
  ASSUME NEW d \in Drains, NEW s \in DrainState, TypeOK,
         drain' = [drain EXCEPT ![d] = [drain[d] EXCEPT !.pc = s]]
  PROVE  \E x \in Drain : /\ drain' = [drain EXCEPT ![d] = x]
                          /\ x.pc = s /\ x.seen = drain[d].seen
                          /\ x.event = drain[d].event /\ x.batch = drain[d].batch
<1> DEFINE x == [drain[d] EXCEPT !.pc = s]
<1>1. drain[d] \in Drain
  BY DEF TypeOK
<1>2. /\ x \in Drain /\ x.pc = s /\ x.seen = drain[d].seen
      /\ x.event = drain[d].event /\ x.batch = drain[d].batch
  BY <1>1 DEF Drain
<1> QED BY <1>2

\* A drain that advances keeps what it remembers and no longer owes a mark.
LEMMA AdvanceMoves ==
  ASSUME NEW d \in Drains, TypeOK, Advance(d)
  PROVE  \E x \in Drain : /\ drain' = [drain EXCEPT ![d] = x]
                          /\ x.pc \in {"release", "emit"}
                          /\ x.seen = drain[d].seen
                          /\ x.batch = drain[d].batch \ {drain[d].event}
<1> DEFINE rest == drain[d].batch \ {drain[d].event}
           x    == [drain[d] EXCEPT !.batch = rest, !.event = NoEvent,
                      !.pc = IF rest = {} THEN "release" ELSE "emit"]
<1>1. drain[d] \in Drain
  BY DEF TypeOK
<1>2. x \in Drain
  BY <1>1 DEF Drain, DrainState
<1>3. x.pc \in {"release", "emit"} /\ x.seen = drain[d].seen /\ x.batch = rest
  BY <1>1 DEF Drain
<1>4. drain' = [drain EXCEPT ![d] = x]
  BY DEF Advance
<1> QED BY <1>2, <1>3, <1>4

LEMMA AccountingInductive ==
  ASSUME TypeOK, Causality, Accounting, [Next]_vars
  PROVE  Accounting'
<1> USE DEF TypeOK, busVars, faultVars
<1>1. \A e \in Events :
        /\ row[e].attempts \in Nat /\ emitted[e] \in Nat
        /\ Cardinality(Owing(e)) \in Nat
        /\ \A d \in Drains : drain[d].seen[e] \in Nat
  BY OwingFinite DEF Row, Drain
<1>2. ASSUME NEW e \in Events, PublishStep(e) PROVE Accounting'
  <2>1. drain' = drain
    BY <1>2 DEF PublishStep, CommitChange, InsertRow, InsertRefused, EmitNow, MarkDelivered,
       MarkRefused, InsertInTx, CommitTx, RollbackTx, CrashPublisher
  <2>2. \A f \in Events : Cardinality(Owing(f)') = Cardinality(Owing(f))
    BY <2>1 DEF Owing
  <2> USE <1>1, <2>1, <2>2 DEF Accounting, Owed
  <2>3. CASE CommitChange(e)  BY <2>3 DEF CommitChange
  <2>4. CASE InsertRow(e)     BY <2>4 DEF InsertRow, FreshRow
  <2>5. CASE InsertRefused(e) BY <2>5 DEF InsertRefused
  <2>6. CASE EmitNow(e)       BY <2>6 DEF EmitNow
  <2>7. CASE MarkDelivered(e) BY <2>7 DEF MarkDelivered, Row
  <2>8. CASE MarkRefused(e)   BY <2>8 DEF MarkRefused
  <2>9. CASE InsertInTx(e)    BY <2>9 DEF InsertInTx
  <2>10. CASE CommitTx(e)     BY <2>10 DEF CommitTx, FreshRow
  <2>11. CASE RollbackTx(e)   BY <2>11 DEF RollbackTx
  <2>12. CASE CrashPublisher(e) BY <2>12 DEF CrashPublisher
  <2> QED BY <1>2, <2>3, <2>4, <2>5, <2>6, <2>7, <2>8, <2>9, <2>10, <2>11, <2>12
            DEF PublishStep
<1>3. ASSUME NEW d \in Drains, RelayStep(d) PROVE Accounting'
  <2> DEFINE event == drain[d].event
  <2> USE <1>1 DEF Accounting, Owed
  <2>1. CASE Acquire(d)
    <3>1. drain' = [drain EXCEPT ![d] = [drain[d] EXCEPT !.pc = "scan"]]
      BY <2>1 DEF Acquire
    <3>2. PICK x \in Drain : /\ drain' = [drain EXCEPT ![d] = x]
                             /\ x.pc = "scan" /\ x.seen = drain[d].seen
      BY <3>1, PcMoves DEF DrainState
    <3>3. \A e \in Events : ~Owes(x, e) /\ ~Owes(drain[d], e)
      BY <2>1, <3>2 DEF Owes, Acquire
    <3>4. \A e \in Events : Cardinality(Owing(e)') = Cardinality(Owing(e))
      <4> TAKE e \in Events
      <4>1. Cardinality(Owing(e)') = Cardinality(Owing(e))
                 + (IF Owes(x, e) THEN 1 ELSE 0) - (IF Owes(drain[d], e) THEN 1 ELSE 0)
        BY <3>2, OwingMoves
      <4> QED BY <3>3, <4>1
    <3> QED BY <2>1, <3>2, <3>4 DEF Acquire
  <2>2. CASE Scan(d)
    <3>1. PICK x \in Drain : /\ drain' = [drain EXCEPT ![d] = x]
                             /\ x.pc \in {"release", "emit"}
                             /\ x.seen = [e \in Events |-> row[e].attempts]
      <4>1. PICK B \in SUBSET Due :
              drain' = [drain EXCEPT ![d] =
                [pc    |-> IF B = {} THEN "release" ELSE "emit",
                 batch |-> B,
                 event |-> NoEvent,
                 seen  |-> [e \in Events |-> row[e].attempts]]]
        BY <2>2 DEF Scan
      <4>2. drain'[d] \in Drain
        BY <4>1 DEF Drain, DrainState, Due
      <4> QED BY <4>1, <4>2
    <3>2. \A e \in Events : ~Owes(x, e) /\ ~Owes(drain[d], e)
      BY <2>2, <3>1 DEF Owes, Scan
    <3>3. \A e \in Events : Cardinality(Owing(e)') = Cardinality(Owing(e))
      <4> TAKE e \in Events
      <4>1. Cardinality(Owing(e)') = Cardinality(Owing(e))
                 + (IF Owes(x, e) THEN 1 ELSE 0) - (IF Owes(drain[d], e) THEN 1 ELSE 0)
        BY <3>1, OwingMoves
      <4> QED BY <3>2, <4>1
    <3> QED BY <2>2, <3>1, <3>3 DEF Scan
  <2>3. CASE RelayEmit(d)
    <3>1. PICK f \in Events :
            /\ emitted' = [emitted EXCEPT ![f] = @ + 1]
            /\ drain' = [drain EXCEPT ![d] = [@ EXCEPT !.pc = "mark", !.event = f]]
      BY <2>3 DEF RelayEmit, Oldest, Drain
    <3> DEFINE x == [drain[d] EXCEPT !.pc = "mark", !.event = f]
    <3>2. /\ x \in Drain /\ x.pc = "mark" /\ x.event = f /\ x.seen = drain[d].seen
          /\ drain' = [drain EXCEPT ![d] = x]
      BY <3>1 DEF Drain, DrainState
    <3> HIDE DEF x
    <3>3. \A e \in Events : (Owes(x, e) <=> e = f) /\ ~Owes(drain[d], e)
      BY <2>3, <3>2 DEF Owes, RelayEmit
    <3>4. \A e \in Events : Cardinality(Owing(e)') = Cardinality(Owing(e)) + (IF e = f THEN 1 ELSE 0)
      <4> TAKE e \in Events
      <4>1. Cardinality(Owing(e)') = Cardinality(Owing(e))
                 + (IF Owes(x, e) THEN 1 ELSE 0) - (IF Owes(drain[d], e) THEN 1 ELSE 0)
        BY <3>2, OwingMoves
      <4> QED BY <3>3, <4>1
    <3> QED BY <2>3, <3>1, <3>2, <3>4 DEF RelayEmit
  <2>4. ASSUME drain[d].pc \in {"mark", "record"}, Advance(d)
        PROVE  /\ \A e \in Events : Cardinality(Owing(e)') = Cardinality(Owing(e)) - (IF e = event THEN 1 ELSE 0)
               /\ \A b \in Drains : drain'[b].seen = drain[b].seen
    <3>1. PICK x \in Drain : /\ drain' = [drain EXCEPT ![d] = x]
                             /\ x.pc \in {"release", "emit"} /\ x.seen = drain[d].seen
      BY <2>4, AdvanceMoves
    <3>2. \A e \in Events : ~Owes(x, e) /\ (Owes(drain[d], e) <=> e = event)
      BY <2>4, <3>1 DEF Owes
    <3>3. \A e \in Events : Cardinality(Owing(e)') = Cardinality(Owing(e)) - (IF e = event THEN 1 ELSE 0)
      <4> TAKE e \in Events
      <4>1. Cardinality(Owing(e)') = Cardinality(Owing(e))
                 + (IF Owes(x, e) THEN 1 ELSE 0) - (IF Owes(drain[d], e) THEN 1 ELSE 0)
        BY <3>1, OwingMoves
      <4> QED BY <3>2, <4>1
    <3> QED BY <3>1, <3>3
  <2>5. CASE RelayMark(d)
    <3>1. event \in Events
      BY <2>5 DEF RelayMark, Causality, DrainCausality
    <3>2. /\ row'[event].attempts = row[event].attempts + 1
          /\ \A e \in Events : e # event => row'[e] = row[e]
          /\ row'[event].status = "published"
      BY <2>5, <3>1 DEF RelayMark, Row
    <3>3. /\ \A e \in Events : Cardinality(Owing(e)') = Cardinality(Owing(e)) - (IF e = event THEN 1 ELSE 0)
          /\ \A b \in Drains : drain'[b].seen = drain[b].seen
      BY <2>4, <2>5 DEF RelayMark
    <3> HIDE DEF event
    <3> QED BY <2>5, <3>1, <3>2, <3>3 DEF RelayMark
  <2>6. CASE RelayMarkRefused(d)
    <3>1. drain' = [drain EXCEPT ![d] = [drain[d] EXCEPT !.pc = "record"]]
      BY <2>6 DEF RelayMarkRefused
    <3>2. PICK x \in Drain : /\ drain' = [drain EXCEPT ![d] = x] /\ x.pc = "record"
                             /\ x.event = event /\ x.seen = drain[d].seen
      BY <3>1, PcMoves DEF DrainState
    <3>3. \A e \in Events : Owes(x, e) <=> Owes(drain[d], e)
      BY <2>6, <3>2 DEF Owes, RelayMarkRefused
    <3>4. \A e \in Events : Cardinality(Owing(e)') = Cardinality(Owing(e))
      <4> TAKE e \in Events
      <4>1. Cardinality(Owing(e)') = Cardinality(Owing(e))
                 + (IF Owes(x, e) THEN 1 ELSE 0) - (IF Owes(drain[d], e) THEN 1 ELSE 0)
        BY <3>2, OwingMoves
      <4> QED BY <3>3, <4>1
    <3> QED BY <2>6, <3>2, <3>4 DEF RelayMarkRefused
  <2>7. CASE RelayRecord(d)
    <3>1. event \in Events
      BY <2>7 DEF RelayRecord, Causality, DrainCausality
    <3>2. /\ row'[event].attempts = drain[d].seen[event] + 1
          /\ \A e \in Events : e # event => row'[e] = row[e]
      BY <2>7, <3>1 DEF RelayRecord, Row
    <3>3. /\ \A e \in Events : Cardinality(Owing(e)') = Cardinality(Owing(e)) - (IF e = event THEN 1 ELSE 0)
          /\ \A b \in Drains : drain'[b].seen = drain[b].seen
      BY <2>4, <2>7 DEF RelayRecord
    <3>4. emitted' = emitted /\ publisher' = publisher
      BY <2>7 DEF RelayRecord
    <3>5. drain[d].seen[event] \in Nat
      BY <3>1
    <3> HIDE DEF event
    <3> SUFFICES ASSUME NEW e \in Events
                 PROVE  /\ row'[e].attempts + Cardinality(Owing(e)') + Owed(e) <= emitted[e]
                        /\ \A b \in Drains :
                             drain[b].seen[e] + Cardinality(Owing(e)') + Owed(e) <= emitted[e]
                        /\ row'[e].status \in {"published", "failed"} => row'[e].attempts > 0
      BY <3>3, <3>4
    <3>6. CASE e = event
      BY <3>2, <3>3, <3>5, <3>6
    <3>7. CASE e # event
      BY <3>2, <3>3, <3>7
    <3> QED BY <3>6, <3>7
  <2>8. CASE RelayRecordRefused(d)
    <3>1. drain' = [drain EXCEPT ![d] = [drain[d] EXCEPT !.pc = "release"]]
      BY <2>8 DEF RelayRecordRefused
    <3>2. PICK x \in Drain : /\ drain' = [drain EXCEPT ![d] = x] /\ x.pc = "release"
                             /\ x.seen = drain[d].seen
      BY <3>1, PcMoves DEF DrainState
    <3>3. \A e \in Events : ~Owes(x, e)
      BY <3>2 DEF Owes
    <3>4. \A e \in Events : Cardinality(Owing(e)') \in Nat /\ Cardinality(Owing(e)') <= Cardinality(Owing(e))
      <4> TAKE e \in Events
      <4>1. Cardinality(Owing(e)') = Cardinality(Owing(e))
                 + (IF Owes(x, e) THEN 1 ELSE 0) - (IF Owes(drain[d], e) THEN 1 ELSE 0)
        BY <3>2, OwingMoves
      <4> QED BY <3>3, <4>1, OwingFinitePrime
    <3> QED BY <2>8, <3>2, <3>4 DEF RelayRecordRefused
  <2>9. CASE Release(d) \/ CrashDrain(d)
    <3>1. /\ Asleep \in Drain /\ Asleep.pc = "idle"
          /\ Asleep.seen = [e \in Events |-> 0]
      BY DEF Asleep, Drain, DrainState
    <3>2. drain' = [drain EXCEPT ![d] = Asleep]
      BY <2>9 DEF Release, CrashDrain
    <3>3. \A e \in Events : ~Owes(Asleep, e)
      BY <3>1 DEF Owes
    <3>4. \A e \in Events : Cardinality(Owing(e)') \in Nat /\ Cardinality(Owing(e)') <= Cardinality(Owing(e))
      <4> TAKE e \in Events
      <4>1. Cardinality(Owing(e)') = Cardinality(Owing(e))
                 + (IF Owes(Asleep, e) THEN 1 ELSE 0) - (IF Owes(drain[d], e) THEN 1 ELSE 0)
        BY <3>1, <3>2, OwingMoves
      <4> QED BY <3>3, <4>1, OwingFinitePrime
    <3> QED BY <2>9, <3>1, <3>2, <3>4 DEF Release, CrashDrain
  <2> QED BY <1>3, <2>1, <2>2, <2>3, <2>5, <2>6, <2>7, <2>8, <2>9 DEF RelayStep
<1>4. CASE LeaseExpires
  BY <1>4 DEF LeaseExpires, Accounting, Owed, Owing
<1>5. CASE UNCHANGED vars
  BY <1>5 DEF vars, Accounting, Owed, Owing
<1> QED BY <1>2, <1>3, <1>4, <1>5 DEF Next

LEMMA AccountingHolds == Spec => []Accounting
<1>1. Init => Accounting
  <2> SUFFICES ASSUME Init PROVE Accounting
    OBVIOUS
  <2>1. \A e \in Events : Owing(e) = {}
    BY DEF Owing, Init, Asleep
  <2>2. \A e \in Events : Cardinality(Owing(e)) = 0
    BY <2>1, FS_EmptySet
  <2> QED BY <2>2 DEF Init, Accounting, Owed, NoRow, Asleep
<1> QED BY <1>1, TypeCorrect, CausalityHolds, AccountingInductive, PTL DEF Spec

(***************************************************************************)
(* The attempts column counts no delivery that was not made, and a row is  *)
(* settled only after a delivery, however drains overlap and fail.         *)
(***************************************************************************)
THEOREM AttemptsAreDeliveriesHolds == Spec => [](AttemptsAreDeliveries /\ SettledWasDelivered)
<1>1. TypeOK /\ Accounting => AttemptsAreDeliveries /\ SettledWasDelivered
  <2> SUFFICES ASSUME TypeOK, Accounting, NEW e \in Events
               PROVE  /\ row[e].attempts <= emitted[e]
                      /\ row[e].status \in {"published", "failed"} => emitted[e] > 0
    BY DEF AttemptsAreDeliveries, SettledWasDelivered
  <2>1. /\ row[e].attempts \in Nat /\ emitted[e] \in Nat
        /\ Cardinality(Owing(e)) \in Nat /\ Owed(e) \in Nat
    BY OwingFinite DEF TypeOK, Row, Owed
  <2>2. /\ row[e].attempts + Cardinality(Owing(e)) + Owed(e) <= emitted[e]
        /\ row[e].status \in {"published", "failed"} => row[e].attempts > 0
    BY DEF Accounting
  <2> QED BY <2>1, <2>2
<1> QED BY <1>1, TypeCorrect, AccountingHolds, PTL

\* Covered, of one event and one drain: its local state is x, the row's status st,
\* the deliveries n, and paid the share of the publisher and of the faults.
CoveredBy(x, f, st, n, paid) ==
  /\ n <= paid + (IF st \in {"published", "failed"} \/ (x.pc = "mark" /\ x.event = f)
                  THEN 1 ELSE 0)
  /\ /\ f \in x.batch
     /\ x.pc \in {"emit", "record"} \/ (x.pc = "mark" /\ x.event # f)
     => n <= paid

Paid(f) == Announced(f) + crashes + dbErrors

\* While a single drain is awake, Covered is about that drain only.
LEMMA CoveredAlone ==
  ASSUME NEW d \in Drains, \A c \in Drains \ {d} : drain[c].pc = "idle"
  PROVE  Covered <=> \A f \in Events : CoveredBy(drain[d], f, row[f].status, emitted[f], Paid(f))
BY DEF Covered, CoveredBy, Paid, Settled

LEMMA CoveredAlonePrime ==
  ASSUME NEW d \in Drains, \A c \in Drains \ {d} : drain'[c].pc = "idle",
         \A f \in Events : CoveredBy(drain'[d], f, row'[f].status, emitted'[f], Paid(f)')
  PROVE  Covered'
BY DEF Covered, CoveredBy, Paid, Settled

LEMMA CoveredInductive ==
  ASSUME TypeOK, Causality, Exclusion, Covered, ~overrun, [Next]_vars
  PROVE  Covered'
<1> USE DEF TypeOK, busVars, faultVars
<1>1. \A e \in Events : /\ emitted[e] \in Nat
                        /\ Announced(e) \in {0, 1} /\ Settled(e) \in {0, 1}
  BY DEF Announced, Settled
<1>2. ASSUME NEW e \in Events, PublishStep(e) PROVE Covered'
  <2>1. drain' = drain
    BY <1>2 DEF PublishStep, CommitChange, InsertRow, InsertRefused, EmitNow, MarkDelivered,
       MarkRefused, InsertInTx, CommitTx, RollbackTx, CrashPublisher
  <2>2. \A f \in Events : Settled(f)' >= Settled(f)
    <3>1. CASE row' = row BY <2>1, <3>1 DEF Settled
    <3>2. CASE InsertRow(e) \/ CommitTx(e)
      <4>1. row[e].status = "absent"
        BY <3>2 DEF Causality, EventCausality, InsertRow, CommitTx
      <4> QED BY <2>1, <3>2, <4>1 DEF InsertRow, CommitTx, Settled
    <3>3. CASE MarkDelivered(e)
      BY <2>1, <3>3 DEF MarkDelivered, Settled, Row
    <3> QED BY <1>2, <3>1, <3>2, <3>3 DEF PublishStep, CommitChange, InsertRefused,
              EmitNow, MarkRefused, InsertInTx, RollbackTx, CrashPublisher
  <2>3. \A f \in Events : Settled(f)' \in {0, 1}
    BY DEF Settled
  <2>4. /\ \A f \in Events : emitted'[f] - Announced(f)' <= emitted[f] - Announced(f)
        /\ crashes' >= crashes /\ dbErrors' >= dbErrors
        /\ crashes' \in Nat /\ dbErrors' \in Nat
    BY <1>2 DEF PublishStep, CommitChange, InsertRow, InsertRefused, EmitNow, MarkDelivered,
       MarkRefused, InsertInTx, CommitTx, RollbackTx, CrashPublisher, Announced,
       SpendDbError, SpendCrash
  <2>5. \A f \in Events : emitted'[f] \in Nat /\ Announced(f)' \in {0, 1}
    BY <1>2 DEF PublishStep, CommitChange, InsertRow, InsertRefused, EmitNow, MarkDelivered,
       MarkRefused, InsertInTx, CommitTx, RollbackTx, CrashPublisher, Announced
  <2> SUFFICES ASSUME NEW f \in Events
               PROVE  /\ emitted'[f] <= Announced(f)' + crashes' + dbErrors' + Settled(f)'
                      /\ \A d \in Drains :
                           /\ f \in drain[d].batch
                           /\ \/ drain[d].pc \in {"emit", "record"}
                              \/ drain[d].pc = "mark" /\ drain[d].event # f
                           => emitted'[f] <= Announced(f)' + crashes' + dbErrors'
    BY <2>1 DEF Covered
  <2> QED BY <1>1, <2>2, <2>3, <2>4, <2>5 DEF Covered
<1>3. ASSUME NEW d \in Drains, RelayStep(d) PROVE Covered'
  <2>1. \A c \in Drains \ {d} : drain[c].pc = "idle"
    <3>1. lock = d \/ (lock = NoDrain /\ drain[d].pc = "idle") \/ drain[d].pc = "idle"
      BY DEF Exclusion, Working
    <3>2. drain[d].pc = "idle" => lock = NoDrain
      BY <1>3 DEF RelayStep, Acquire, Scan, RelayEmit, RelayMark, RelayMarkRefused,
         RelayRecord, RelayRecordRefused, Release, CrashDrain
    <3> QED BY <3>1, <3>2 DEF Exclusion, Working
  <2>2. \A f \in Events : CoveredBy(drain[d], f, row[f].status, emitted[f], Paid(f))
    BY <2>1, CoveredAlone
  <2>3. publisher' = publisher
    BY <1>3 DEF RelayStep, Acquire, Scan, RelayEmit, RelayMark, RelayMarkRefused,
       RelayRecord, RelayRecordRefused, Release, CrashDrain
  <2>4. \A c \in Drains \ {d} : drain'[c].pc = "idle"
    BY <1>3, <2>1 DEF RelayStep, Acquire, Scan, RelayEmit, RelayMark, RelayMarkRefused,
       RelayRecord, RelayRecordRefused, Release, CrashDrain, Advance
  <2>5. \A f \in Events : Paid(f) \in Nat /\ Announced(f)' = Announced(f)
    BY <2>3 DEF Paid, Announced
  <2> SUFFICES ASSUME NEW f \in Events
               PROVE  CoveredBy(drain'[d], f, row'[f].status, emitted'[f], Paid(f)')
    BY <2>4, CoveredAlonePrime
  <2>6. CoveredBy(drain[d], f, row[f].status, emitted[f], Paid(f))
    BY <2>2
  <2> USE <1>1, <2>5, <2>6 DEF CoveredBy
  <2>7. CASE Acquire(d)
    BY <2>7 DEF Acquire, Drain, Paid
  <2>8. CASE Scan(d)
    <3>1. PICK B \in SUBSET Due :
            drain' = [drain EXCEPT ![d] =
              [pc    |-> IF B = {} THEN "release" ELSE "emit",
               batch |-> B,
               event |-> NoEvent,
               seen  |-> [e \in Events |-> row[e].attempts]]]
      BY <2>8 DEF Scan
    <3>2. f \in B => row[f].status = "pending"
      BY DEF Due
    <3>3. Paid(f)' = Paid(f) /\ row' = row /\ emitted' = emitted
      BY <2>8 DEF Scan, Paid
    <3>4. drain[d].pc = "scan"
      BY <2>8 DEF Scan
    <3> QED BY <3>1, <3>2, <3>3, <3>4
  <2>9. CASE RelayEmit(d)
    <3>1. PICK e \in Oldest(drain[d].batch) :
            /\ emitted' = [emitted EXCEPT ![e] = @ + 1]
            /\ drain' = [drain EXCEPT ![d] = [@ EXCEPT !.pc = "mark", !.event = e]]
      BY <2>9 DEF RelayEmit
    <3>2. /\ drain'[d].pc = "mark" /\ drain'[d].event = e
          /\ drain'[d].batch = drain[d].batch
      BY <3>1 DEF Drain
    <3>3. Paid(f)' = Paid(f) /\ row' = row /\ drain[d].pc = "emit"
      BY <2>9 DEF RelayEmit, Paid
    <3>4. e \in drain[d].batch /\ e \in Events
      BY DEF Oldest, Drain
    <3>5. CASE f = e
      BY <3>1, <3>2, <3>3, <3>4, <3>5
    <3>6. CASE f # e
      BY <3>1, <3>2, <3>3, <3>4, <3>6
    <3> QED BY <3>5, <3>6
  <2>10. ASSUME Advance(d)
         PROVE  /\ drain'[d].pc \in {"release", "emit"}
                /\ drain'[d].batch = drain[d].batch \ {drain[d].event}
    BY <2>10, AdvanceMoves
  <2>11. CASE RelayMark(d)
    <3> DEFINE e == drain[d].event
    <3>1. e \in Events
      BY <2>11 DEF RelayMark, Causality, DrainCausality
    <3>2. /\ row'[e].status = "published"
          /\ f # e => row'[f] = row[f]
      BY <2>11, <3>1 DEF RelayMark, Row
    <3>3. /\ Paid(f)' = Paid(f) /\ emitted' = emitted /\ drain[d].pc = "mark"
          /\ drain'[d].pc \in {"release", "emit"}
          /\ drain'[d].batch = drain[d].batch \ {e}
      BY <2>10, <2>11 DEF RelayMark, Paid
    <3> QED BY <3>1, <3>2, <3>3
  <2>12. CASE RelayMarkRefused(d)
    <3>1. /\ drain'[d].pc = "record" /\ drain'[d].event = drain[d].event
          /\ drain'[d].batch = drain[d].batch /\ drain[d].pc = "mark"
      BY <2>12 DEF RelayMarkRefused, Drain
    <3>2. row' = row /\ emitted' = emitted /\ Paid(f)' = Paid(f) + 1
      BY <2>12 DEF RelayMarkRefused, Paid, SpendDbError, Announced
    <3> QED BY <3>1, <3>2
  <2>13. CASE RelayRecord(d)
    <3> DEFINE e == drain[d].event
    <3>1. e \in Events /\ e \in drain[d].batch
      BY <2>13 DEF RelayRecord, Causality, DrainCausality
    <3>2. f # e => row'[f] = row[f]
      BY <2>13, <3>1 DEF RelayRecord
    <3>3. /\ Paid(f)' = Paid(f) /\ emitted' = emitted /\ drain[d].pc = "record"
          /\ drain'[d].pc \in {"release", "emit"}
          /\ drain'[d].batch = drain[d].batch \ {e}
      BY <2>10, <2>13 DEF RelayRecord, Paid
    <3> QED BY <3>1, <3>2, <3>3
  <2>14. CASE RelayRecordRefused(d)
    <3>1. drain'[d].pc = "release" /\ drain[d].pc = "record"
      BY <2>14 DEF RelayRecordRefused, Drain
    <3>2. row' = row /\ emitted' = emitted /\ Paid(f)' = Paid(f) + 1
      BY <2>14 DEF RelayRecordRefused, Paid, SpendDbError, Announced
    <3> QED BY <3>1, <3>2
  <2>15. CASE Release(d)
    <3>1. drain'[d].pc = "idle" /\ drain[d].pc = "release"
      BY <2>15 DEF Release, Asleep
    <3> QED BY <2>15, <3>1 DEF Release, Paid
  <2>16. CASE CrashDrain(d)
    <3>1. drain'[d].pc = "idle"
      BY <2>16 DEF CrashDrain, Asleep
    <3>2. row' = row /\ emitted' = emitted /\ Paid(f)' = Paid(f) + 1
      BY <2>16 DEF CrashDrain, Paid, SpendCrash, Announced
    <3> QED BY <3>1, <3>2
  <2> QED BY <1>3, <2>7, <2>8, <2>9, <2>11, <2>12, <2>13, <2>14, <2>15, <2>16 DEF RelayStep
<1>4. CASE LeaseExpires
  BY <1>4 DEF LeaseExpires, Covered, Announced, Settled
<1>5. CASE UNCHANGED vars
  BY <1>5 DEF vars, Covered, Announced, Settled
<1> QED BY <1>2, <1>3, <1>4, <1>5 DEF Next

(***************************************************************************)
(* Until a drain outlives its lease, an event is delivered at most twice,  *)
(* and once more for every crash and every refused statement.              *)
(***************************************************************************)
THEOREM DuplicatesArePaidForHolds == Spec => []DuplicatesArePaidFor
<1>1. Init => CoveredTillOverrun
  BY DEF Init, CoveredTillOverrun, Covered, Announced, Settled, Asleep
<1>2. TypeOK /\ CoveredTillOverrun => DuplicatesArePaidFor
  BY DEF TypeOK, CoveredTillOverrun, Covered, Announced, Settled, DuplicatesArePaidFor
<1>3. TypeOK /\ Causality /\ Exclusion /\ CoveredTillOverrun /\ [Next]_vars => CoveredTillOverrun'
  BY CoveredInductive, OverrunStays DEF CoveredTillOverrun
<1> QED BY <1>1, <1>2, <1>3, TypeCorrect, CausalityHolds, ExclusionHolds, PTL DEF Spec
=============================================================================
