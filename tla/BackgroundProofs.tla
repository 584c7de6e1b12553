--------------------------- MODULE BackgroundProofs ---------------------------
(* Proofs about the work beside the requests: what MCBackground's runs check of  *)
(* the queue, the gates, the endpoint, the backups and the links, for any number  *)
(* of jobs, requests, rows, backups and configurations. Each part has an          *)
(* inductive invariant of its own; a step of the whole is a step of one part.     *)
EXTENDS MCBackground, TLAPS, FiniteSetTheorems

\* A first state of the whole is a first state of every part (MCBackground, AllInit).
LEMMA StartsEveryPart ==
  AllInit => W!Init /\ J!Init /\ G!Init /\ B!Init /\ I!Init /\ P!Init
BY DEF AllInit

\* A step of the whole is a step of a part, or leaves the part alone.
LEMMA StepsOnePart ==
  ASSUME [AllNext]_AllVars
  PROVE  /\ J!Next \/ UNCHANGED jobVars
         /\ G!Next \/ UNCHANGED gateVars
         /\ W!Next \/ UNCHANGED webVars
         /\ B!Next \/ UNCHANGED backupVars
         /\ I!Next \/ UNCHANGED crmVars
         /\ P!Next \/ UNCHANGED planeVars
BY DEF AllNext, AllVars

-------------------------------------------------------------------------------
(* Jobs and their letters.                                                       *)

JobStates == {"absent", "waiting", "active", "done", "failed", "over"}
JobsTyped ==
  /\ job \in [Jobs -> [state : JobStates, attempts : Nat, of : Jobs \cup {Nil}]]
  /\ letter \in [Jobs -> [there : BOOLEAN, replayed : BOOLEAN, discarded : BOOLEAN]]
  /\ request \in [Operators -> [pc : {"idle", "replay", "discard", "mark"}, at : Jobs \cup {Nil}]]
  /\ \A o \in Operators : request[o].pc # "idle" => request[o].at \in Jobs

\* A copy was made by a replay that has marked the letter, will, or never did.
CopiesHaveCause ==
  \A k \in Jobs : job[k].of # Nil =>
    \/ letter[job[k].of].replayed \/ job[k].of \in jobExcuse
    \/ \E p \in Operators : request[p].pc = "mark" /\ request[p].at = job[k].of
\* Who discards read a letter that was not replayed; who replays, one not discarded.
DiscardsAreFresh ==
  \A o \in Operators :
    request[o].pc = "discard" /\ letter[request[o].at].replayed => request[o].at \in jobExcuse
ReplaysAreFresh ==
  \A o \in Operators :
    request[o].pc \in {"replay", "mark"} /\ letter[request[o].at].discarded
      => request[o].at \in jobExcuse
JobInv == JobsTyped /\ CopiesHaveCause /\ DiscardsAreFresh /\ ReplaysAreFresh /\ J!DiscardMeansNever

LEMMA JobInit == J!Init => JobInv
BY NilIsNothing DEF J!Init, JobInv, JobsTyped, JobStates, CopiesHaveCause, DiscardsAreFresh, ReplaysAreFresh,
   J!DiscardMeansNever, J!NoJob, J!NoLetter, J!NoRequest

\* Workers and the sink leave every copy its origin and every letter its marks.
LEMMA WorkersKeepJobs ==
  ASSUME JobInv, NEW j \in Jobs,
         J!Enqueues(j) \/ J!Works(j) \/ J!Stalls(j) \/ J!Sinks(j) \/ J!SinkFails(j)
  PROVE  JobInv'
<1>1. /\ JobsTyped'
      /\ \A k \in Jobs : job'[k].of = job[k].of
      /\ \A k \in Jobs : letter'[k].replayed = letter[k].replayed /\ letter'[k].discarded = letter[k].discarded
      /\ UNCHANGED <<request, jobExcuse>>
  <2>1. CASE J!Enqueues(j)
    BY <2>1 DEF JobInv, JobsTyped, JobStates, J!Enqueues, J!Waiting, J!NoJob
  <2>2. CASE J!Takes(j) \/ J!Finishes(j)
    BY <2>2 DEF JobInv, JobsTyped, JobStates, J!Takes, J!Finishes, J!Moves
  <2>5. CASE J!Throws(j)
    BY <2>5 DEF JobInv, JobsTyped, JobStates, J!Throws
  <2>3. CASE J!Stalls(j)
    BY <2>3 DEF JobInv, JobsTyped, JobStates, J!Stalls
  <2>4. CASE J!Sinks(j)
    BY <2>4 DEF JobInv, JobsTyped, JobStates, J!Sinks
  <2>6. CASE J!SinkFails(j)
    BY <2>6 DEF JobInv, JobsTyped, JobStates, J!SinkFails
  <2> QED BY <2>1, <2>2, <2>3, <2>4, <2>5, <2>6 DEF J!Works
<1>2. CopiesHaveCause'
  BY <1>1 DEF JobInv, JobsTyped, CopiesHaveCause
<1>3. DiscardsAreFresh' /\ ReplaysAreFresh' /\ J!DiscardMeansNever'
  BY <1>1 DEF JobInv, JobsTyped, DiscardsAreFresh, ReplaysAreFresh, J!DiscardMeansNever
<1> QED BY <1>1, <1>2, <1>3 DEF JobInv

LEMMA ReadingKeepsJobs ==
  ASSUME JobInv, NEW o \in Operators, NEW j \in Jobs, J!ReadsToReplay(o, j) \/ J!ReadsToDiscard(o, j)
  PROVE  JobInv'
<1> USE DEF JobInv, JobsTyped, J!Turns, J!NoRequest
<1>1. CASE J!ReadsToReplay(o, j)
  BY <1>1, NilIsNothing DEF J!ReadsToReplay, J!MayReplay, CopiesHaveCause, DiscardsAreFresh, ReplaysAreFresh,
     J!DiscardMeansNever
<1>2. CASE J!ReadsToDiscard(o, j)
  BY <1>2, NilIsNothing DEF J!ReadsToDiscard, J!MayDiscard, CopiesHaveCause, DiscardsAreFresh, ReplaysAreFresh,
     J!DiscardMeansNever
<1> QED BY <1>1, <1>2

LEMMA RequeuingKeepsJobs ==
  ASSUME JobInv, NEW o \in Operators, NEW k \in Jobs, J!Requeues(o, k)
  PROVE  JobInv'
<1> USE DEF JobInv, JobsTyped, J!Turns, J!Requeues, J!NoJob, J!Waiting
<1>1. JobsTyped'
  BY DEF JobStates
<1>2. CopiesHaveCause'
  BY DEF CopiesHaveCause
<1>3. DiscardsAreFresh' /\ ReplaysAreFresh'
  BY DEF DiscardsAreFresh, ReplaysAreFresh
<1>4. J!DiscardMeansNever'
  BY DEF J!DiscardMeansNever, ReplaysAreFresh
<1> QED BY <1>1, <1>2, <1>3, <1>4

LEMMA MarkingKeepsJobs ==
  ASSUME JobInv, NEW o \in Operators, J!MarksReplayed(o) \/ J!MarksDiscarded(o) \/ J!RequestStops(o)
  PROVE  JobInv'
<1> USE DEF JobInv, JobsTyped, J!NoRequest
<1>1. CASE J!MarksReplayed(o)
  <2> USE <1>1 DEF J!MarksReplayed
  <2>1. JobsTyped' /\ CopiesHaveCause'
    BY DEF CopiesHaveCause
  <2>2. DiscardsAreFresh'
    BY DEF DiscardsAreFresh
  <2>3. ReplaysAreFresh' /\ J!DiscardMeansNever'
    BY DEF ReplaysAreFresh, J!DiscardMeansNever
  <2> QED BY <2>1, <2>2, <2>3
<1>2. CASE J!MarksDiscarded(o)
  <2> USE <1>2 DEF J!MarksDiscarded
  <2>0. /\ JobsTyped' /\ UNCHANGED job
        /\ request[o].at \in Jobs /\ jobExcuse \subseteq jobExcuse'
        /\ \A k \in Jobs : letter'[k].replayed = letter[k].replayed
        /\ \A k \in Jobs : letter'[k].discarded => letter[k].discarded \/ k = request[o].at
    OBVIOUS
  <2>1. CopiesHaveCause' /\ DiscardsAreFresh'
    BY <2>0 DEF CopiesHaveCause, DiscardsAreFresh
  <2>2. ReplaysAreFresh'
    BY DEF ReplaysAreFresh
  <2>3. ASSUME NEW j \in Jobs, NEW k \in Jobs, letter'[j].discarded, job'[k].of = j
        PROVE  j \in jobExcuse'
    <3>1. CASE letter[j].discarded
      BY <3>1, <2>0, <2>3 DEF J!DiscardMeansNever
    <3>2. CASE j = request[o].at
      BY <3>2, <2>0, <2>3, NilIsNothing DEF CopiesHaveCause, DiscardsAreFresh
    <3> QED BY <3>1, <3>2, <2>0, <2>3
  <2> QED BY <2>0, <2>1, <2>2, <2>3 DEF J!DiscardMeansNever
<1>3. CASE J!RequestStops(o)
  BY <1>3 DEF J!RequestStops, CopiesHaveCause, DiscardsAreFresh, ReplaysAreFresh, J!DiscardMeansNever
<1> QED BY <1>1, <1>2, <1>3

\* A discarded job is not run again, but for the overlaps and stops that excuse it
\* (dead-letter.service.ts:122-177).
THEOREM DiscardMeansNeverHolds == AllSpec => []DiscardMeansNever
<1>1. AllInit => JobInv
  BY StartsEveryPart, JobInit
<1>2. JobInv /\ [AllNext]_AllVars => JobInv'
  <2> SUFFICES ASSUME JobInv, [AllNext]_AllVars PROVE JobInv'
    OBVIOUS
  <2>1. CASE UNCHANGED jobVars
    BY <2>1 DEF jobVars, JobInv, JobsTyped, CopiesHaveCause, DiscardsAreFresh, ReplaysAreFresh, J!DiscardMeansNever
  <2>2. CASE J!Next
    BY <2>2, WorkersKeepJobs, ReadingKeepsJobs, RequeuingKeepsJobs, MarkingKeepsJobs DEF J!Next
  <2> QED BY <2>1, <2>2, StepsOnePart
<1>3. JobInv => DiscardMeansNever
  BY DEF JobInv, DiscardMeansNever
<1> QED BY <1>1, <1>2, <1>3, PTL DEF AllSpec

-------------------------------------------------------------------------------
(* The gates in front of a write.                                                *)

\* Requests that may still complete a handler, or free the key they hold.
Holders == {r \in Requests : req[r].pc \in {"run", "release"}}
KeyRow == [body : Bodies, answered : BOOLEAN, expired : BOOLEAN]
GatesTyped ==
  /\ key \in {NoRow} \cup KeyRow
  /\ req \in [Requests -> [pc : {"idle", "expire", "look", "create", "run", "save", "release"},
                           body : Bodies, over : BOOLEAN]]
  /\ window \in [count : Nat, running : BOOLEAN]
  /\ gateEffects \in Nat /\ purges \in Nat
Free == IF key = NoRow THEN 1 ELSE 0
\* What was completed, what may be and the place a new request would take: one, and one
\* more for each purge.
GateInv == GatesTyped /\ gateEffects + Cardinality(Holders) + Free <= 1 + purges

LEMMA GateInit == G!Init => GateInv
<1> SUFFICES ASSUME G!Init PROVE GateInv
  OBVIOUS
<1>1. (CHOOSE b \in Bodies : TRUE) \in Bodies
  BY BodiesExist
<1>2. GatesTyped
  BY <1>1 DEF G!Init, G!Idle, GatesTyped
<1>3. Holders = {}
  BY DEF G!Init, G!Idle, Holders
<1> QED BY <1>2, <1>3, FS_EmptySet DEF GateInv, Free, G!Init

LEMMA HoldersAreCounted ==
  ASSUME GateInv
  PROVE  /\ IsFiniteSet(Holders) /\ Cardinality(Holders) \in Nat
         /\ \A r \in Requests \ Holders :
              /\ IsFiniteSet(Holders \cup {r})
              /\ Cardinality(Holders \cup {r}) = Cardinality(Holders) + 1
         /\ \A r \in Holders : Cardinality(Holders \ {r}) = Cardinality(Holders) - 1
<1>1. IsFiniteSet(Holders)
  BY ActorsAreFinite, FS_Subset DEF Holders
<1> QED BY <1>1, FS_CardinalityType, FS_AddElement, FS_RemoveElement DEF Holders

\* A request that neither takes the key nor gives it up.
LEMMA PassingKeepsGates ==
  ASSUME GateInv, NEW r \in Requests, GatesTyped', req'[r].pc \notin {"run", "release"},
         \A q \in Requests \ {r} : req'[q] = req[q],
         gateEffects' + (IF key' = NoRow THEN 1 ELSE 0)
           <= gateEffects + Free + (IF r \in Holders THEN 1 ELSE 0) + (purges' - purges)
  PROVE  GateInv'
<1>1. Holders' = Holders \ {r}
  BY DEF Holders
<1>2. /\ Cardinality(Holders) \in Nat /\ Cardinality(Holders') \in Nat
      /\ Cardinality(Holders') + (IF r \in Holders THEN 1 ELSE 0) = Cardinality(Holders)
  <2>1. CASE r \in Holders
    BY <1>1, <2>1, HoldersAreCounted, FS_RemoveElement, FS_CardinalityType
  <2>2. CASE r \notin Holders
    <3>1. Holders' = Holders
      BY <1>1, <2>2
    <3> QED BY <3>1, <2>2, HoldersAreCounted
  <2> QED BY <2>1, <2>2
<1>3. /\ gateEffects \in Nat /\ gateEffects' \in Nat /\ purges \in Nat /\ purges' \in Nat
      /\ Free \in Nat /\ Free' \in Nat /\ gateEffects + Cardinality(Holders) + Free <= 1 + purges
      /\ gateEffects' + Free' <= gateEffects + Free + (IF r \in Holders THEN 1 ELSE 0) + (purges' - purges)
  BY DEF GateInv, GatesTyped, Free
<1>4. gateEffects' + Cardinality(Holders') + Free' <= 1 + purges'
  BY <1>2, <1>3
<1> QED BY <1>4 DEF GateInv

LEMMA ServingKeepsGates ==
  ASSUME GateInv, NEW r \in Requests, G!Serves(r)
  PROVE  GateInv'
<1> USE DEF GateInv, GatesTyped, G!At, G!Goes, G!Ends
<1>0. G!Idle.body \in Bodies /\ G!Idle.pc = "idle"
      /\ G!Idle \in [pc : {"idle"}, body : Bodies, over : BOOLEAN]
  BY BodiesExist DEF G!Idle
<1>1. CASE G!StartsWindow(r) \/ G!Looks(r)
  <2>1. GatesTyped' /\ req'[r].pc \notin {"run", "release"} /\ UNCHANGED <<key, gateEffects, purges>>
    <3>1. (window.count > 0) \in BOOLEAN
      OBVIOUS
    <3>2. CASE G!StartsWindow(r)
      <4>1. \E run \in BOOLEAN : window' = [window EXCEPT !.running = run]
        BY <3>1, <3>2, Zenon DEF G!StartsWindow
      <4> QED BY <1>0, <3>2, <4>1 DEF G!StartsWindow
    <3>3. CASE G!Looks(r)
      BY <1>0, <3>3 DEF G!Looks
    <3> QED BY <1>1, <3>2, <3>3
  <2>2. \A q \in Requests \ {r} : req'[q] = req[q]
    BY <1>1 DEF G!StartsWindow, G!Looks
  <2>3. r \notin Holders
    BY <1>1 DEF G!StartsWindow, G!Looks, Holders
  <2> QED BY <2>1, <2>2, <2>3, PassingKeepsGates DEF Free
<1>2. CASE G!Creates(r)
  <2>1. CASE key # NoRow
    <3>1. GatesTyped' /\ req'[r].pc = "idle" /\ UNCHANGED <<key, gateEffects, purges>>
          /\ \A q \in Requests \ {r} : req'[q] = req[q]
      BY <1>0, <1>2, <2>1 DEF G!Creates, G!Stops409
    <3>2. r \notin Holders
      BY <1>2 DEF G!Creates, Holders
    <3> QED BY <3>1, <3>2, PassingKeepsGates DEF Free
  <2>2. CASE key = NoRow
    <3>1. r \notin Holders /\ req' = [req EXCEPT ![r].pc = "run"] /\ key' = G!Row(req[r].body)
          /\ UNCHANGED <<window, gateEffects, purges>>
      BY <1>2, <2>2 DEF G!Creates, G!Stops409, Holders
    <3>2. key' \in KeyRow
      BY <3>1 DEF KeyRow, G!Row
    <3>3. key' # NoRow
      BY <3>2, NoRowIsNoRow DEF KeyRow
    <3>4. GatesTyped'
      BY <3>1, <3>2
    <3>5. Holders' = Holders \cup {r}
      BY <3>1 DEF Holders
    <3> QED BY <3>1, <3>3, <3>4, <3>5, <2>2, HoldersAreCounted DEF Free
  <2> QED BY <2>1, <2>2
<1>3. CASE G!Runs(r)
  <2>1. CASE G!Goes(r, "save") /\ gateEffects' = gateEffects + 1
    <3>1. GatesTyped' /\ req'[r].pc = "save" /\ UNCHANGED <<key, purges>> /\ r \in Holders
          /\ \A q \in Requests \ {r} : req'[q] = req[q]
      BY <1>3, <2>1 DEF G!Runs, Holders
    <3> QED BY <3>1, <2>1, PassingKeepsGates DEF Free
  <2>2. CASE G!Goes(r, "release") /\ UNCHANGED gateEffects
    <3>1. GatesTyped' /\ Holders' = Holders /\ UNCHANGED <<key, purges>>
      BY <1>3, <2>2 DEF G!Runs, Holders
    <3> QED BY <3>1, <2>2 DEF Free
  <2> QED BY <1>3, <2>1, <2>2 DEF G!Runs
<1>4. CASE G!Saves(r)
  <2>1. GatesTyped' /\ req'[r].pc = "idle" /\ UNCHANGED <<gateEffects, purges>> /\ r \notin Holders
        /\ \A q \in Requests \ {r} : req'[q] = req[q]
    BY <1>0, <1>4 DEF G!Saves, Holders, KeyRow
  <2>2. key' = NoRow => key = NoRow
    BY <1>4, NoRowIsNoRow DEF G!Saves, KeyRow
  <2> QED BY <2>1, <2>2, PassingKeepsGates DEF Free
<1>5. CASE G!Releases(r)
  <2>1. GatesTyped' /\ req'[r].pc = "idle" /\ UNCHANGED <<gateEffects, purges>> /\ r \in Holders
        /\ \A q \in Requests \ {r} : req'[q] = req[q]
    BY <1>0, <1>5 DEF G!Releases, Holders
  <2> QED BY <2>1, <1>5, PassingKeepsGates DEF Free, G!Releases
<1> QED BY <1>1, <1>2, <1>3, <1>4, <1>5 DEF G!Serves

LEMMA OthersKeepGates ==
  ASSUME GateInv, G!Next, \A r \in Requests : ~G!Serves(r)
  PROVE  GateInv'
<1> USE DEF GateInv, GatesTyped, G!At, G!Ends
<1>0. G!Idle.pc = "idle" /\ G!Idle \in [pc : {"idle"}, body : Bodies, over : BOOLEAN]
  BY BodiesExist DEF G!Idle
<1>1. ASSUME NEW r \in Requests, G!ProcessStops(r) PROVE GateInv'
  <2>1. GatesTyped' /\ req'[r].pc = "idle" /\ UNCHANGED <<key, gateEffects, purges>>
        /\ \A q \in Requests \ {r} : req'[q] = req[q]
    BY <1>0, <1>1 DEF G!ProcessStops
  <2> QED BY <2>1, PassingKeepsGates DEF Free
<1>2. ASSUME NEW r \in Requests, NEW b \in Bodies, G!Counts(r, b) PROVE GateInv'
  <2>1. GatesTyped' /\ req'[r].pc \notin {"run", "release"} /\ UNCHANGED <<key, gateEffects, purges>>
    <3>1. (window.count + 1 > Limit) \in BOOLEAN
      BY LimitsAreNatural
    <3>2. window' \in [count : Nat, running : BOOLEAN] /\ UNCHANGED <<key, gateEffects, purges>>
      BY <1>2 DEF G!Counts
    <3>3. \/ \E ov \in BOOLEAN : req' = [req EXCEPT ![r] = [pc |-> "expire", body |-> b, over |-> ov]]
          \/ req' = [req EXCEPT ![r] = [pc |-> "look", body |-> b, over |-> FALSE]]
          \/ req' = req /\ req[r].pc = "idle"
      <4>1. CASE G!SetsTtl
        <5>1. req' = [req EXCEPT ![r] = [pc |-> "expire", body |-> b, over |-> window.count + 1 > Limit]]
          BY <1>2, <4>1 DEF G!Counts
        <5> QED BY <5>1, <3>1, Zenon
      <4>2. CASE ~G!SetsTtl
        BY <1>2, <4>2 DEF G!Counts
      <4> QED BY <4>1, <4>2
    <3>4. ASSUME NEW ov \in BOOLEAN, req' = [req EXCEPT ![r] = [pc |-> "expire", body |-> b, over |-> ov]]
          PROVE  req' \in [Requests -> [pc : {"idle", "expire", "look", "create", "run", "save", "release"},
                                         body : Bodies, over : BOOLEAN]]
                 /\ req'[r].pc = "expire"
      BY <3>4
    <3>5. CASE req' = [req EXCEPT ![r] = [pc |-> "look", body |-> b, over |-> FALSE]]
      BY <3>2, <3>5
    <3>6. CASE req' = req /\ req[r].pc = "idle"
      BY <3>2, <3>6
    <3> QED BY <3>2, <3>3, <3>4, <3>5, <3>6
  <2>2. \A q \in Requests \ {r} : req'[q] = req[q]
    BY <1>2 DEF G!Counts
  <2>3. r \notin Holders
    BY <1>2 DEF G!Counts, Holders
  <2> QED BY <2>1, <2>2, <2>3, PassingKeepsGates DEF Free
<1>3. CASE G!WindowEnds
  BY <1>3 DEF G!WindowEnds, Holders, Free
<1>4. CASE G!Ages
  <2>1. GatesTyped' /\ UNCHANGED <<req, gateEffects, purges>>
    BY <1>4 DEF G!Ages, KeyRow
  <2>2. key' # NoRow
    BY <1>4, NoRowIsNoRow DEF G!Ages, KeyRow
  <2>3. Holders' = Holders
    BY <2>1 DEF Holders
  <2> QED BY <2>1, <2>2, <2>3, <1>4, HoldersAreCounted DEF Free
<1>5. CASE G!Purges
  <2>1. GatesTyped' /\ UNCHANGED <<req, gateEffects>> /\ key # NoRow /\ purges' = purges + 1
    BY <1>5 DEF G!Purges, G!Purgeable
  <2>2. Holders' = Holders
    BY <2>1 DEF Holders
  <2> QED BY <2>1, <2>2, HoldersAreCounted DEF Free
<1> QED BY <1>1, <1>2, <1>3, <1>4, <1>5 DEF G!Next

\* However often a request is sent with one key, its handler completes once, and once more
\* for each purge of the key (idempotency.interceptor.ts:44-90).
THEOREM OncePerKeyHolds == AllSpec => []OncePerKey
<1>1. AllInit => GateInv
  BY StartsEveryPart, GateInit
<1>2. GateInv /\ [AllNext]_AllVars => GateInv'
  <2> SUFFICES ASSUME GateInv, [AllNext]_AllVars PROVE GateInv'
    OBVIOUS
  <2>1. CASE UNCHANGED gateVars
    BY <2>1 DEF gateVars, GateInv, GatesTyped, Holders, Free
  <2>2. CASE G!Next
    BY <2>2, ServingKeepsGates, OthersKeepGates
  <2> QED BY <2>1, <2>2, StepsOnePart
<1>3. GateInv => OncePerKey
  BY HoldersAreCounted DEF GateInv, GatesTyped, Free, OncePerKey, G!OncePerKey
<1> QED BY <1>1, <1>2, <1>3, PTL DEF AllSpec

-------------------------------------------------------------------------------
(* The endpoint and its deliveries.                                              *)

Attempting == {"read", "post", "won", "lost", "count", "disable"}
WebTyped ==
  /\ endpoint \in [there : BOOLEAN, active : BOOLEAN, failures : Nat]
  /\ row \in [Rows -> [made : BOOLEAN, attempts : Nat, delivered : BOOLEAN, due : {"never", "later", "now"}]]
  /\ task \in [W!Workers -> [pc : Attempting \cup {"idle", "next"}, at : SUBSET Rows, n : Nat, todo : SUBSET Rows]]
  /\ sent \in [Rows -> Nat] /\ slack \in [Rows -> Nat]
\* Who attempts has one row, and it is there as long as the endpoint is.
AttemptsHaveRows ==
  /\ \A w \in W!Workers : task[w].pc \in Attempting => \E d \in Rows : task[w].at = {d}
  /\ \A w \in W!Workers : \A d \in task[w].at \cup task[w].todo : endpoint.there => row[d].made
RowsBelong == \A d \in Rows : IF endpoint.there THEN row[d].made \/ sent[d] = 0 ELSE ~row[d].made

\* Requests an attempt is about to make, or has made, at row d.
Pending(w, d) == task[w].at = {d} /\ task[w].pc \in {"post", "won", "lost"}
\* Of the slack of a row, a is for attempts begun with the budget spent, and the rest for
\* requests whose count was lost.
Accounted(d, a) ==
  /\ a \in 0 .. slack[d]
  /\ row[d].attempts <= MaxAttempts + a
  /\ \A w \in W!Workers : Pending(w, d) => task[w].n <= MaxAttempts + a
  /\ row[d].made => sent[d] <= row[d].attempts + (slack[d] - a) + Cardinality(W!Unsaved(d))
EachAccounted == \A d \in Rows : \E a \in Nat : Accounted(d, a)
WebInv == WebTyped /\ AttemptsHaveRows /\ RowsBelong /\ EachAccounted

LEMMA UnsavedAreCounted ==
  ASSUME NEW d \in Rows
  PROVE  /\ IsFiniteSet(W!Unsaved(d)) /\ Cardinality(W!Unsaved(d)) \in Nat
         /\ \A w \in W!Workers \ W!Unsaved(d) :
               Cardinality(W!Unsaved(d) \cup {w}) = Cardinality(W!Unsaved(d)) + 1
         /\ \A w \in W!Unsaved(d) : Cardinality(W!Unsaved(d) \ {w}) = Cardinality(W!Unsaved(d)) - 1
<1>1. IsFiniteSet(W!Unsaved(d))
  BY ActorsAreFinite, FS_Subset DEF W!Unsaved, W!Workers
<1> QED BY <1>1, FS_CardinalityType, FS_AddElement, FS_RemoveElement

LEMMA WebInit == W!Init => WebInv
<1> SUFFICES ASSUME W!Init PROVE WebInv
  OBVIOUS
<1>1. WebTyped /\ AttemptsHaveRows /\ RowsBelong
  BY DEF W!Init, WebTyped, AttemptsHaveRows, RowsBelong, W!Absent, W!NoTask, Attempting
<1>2. ASSUME NEW d \in Rows PROVE Accounted(d, 0)
  BY LimitsAreNatural DEF W!Init, Accounted, Pending, W!Absent, W!NoTask
<1> QED BY <1>1, <1>2 DEF WebInv, EachAccounted

\* A row no step is about keeps its account.
LEMMA OtherRowsKeepAccount ==
  ASSUME WebInv, NEW d \in Rows, NEW a \in Nat, Accounted(d, a),
         row'[d].attempts = row[d].attempts, row'[d].made => row[d].made,
         sent'[d] = sent[d], slack'[d] = slack[d],
         \A w \in W!Workers : Pending(w, d)' => Pending(w, d) /\ task'[w].n = task[w].n,
         row'[d].made => W!Unsaved(d)' = W!Unsaved(d)
  PROVE  Accounted(d, a)'
BY DEF Accounted

LEMMA SendsOneRow ==
  ASSUME WebInv, NEW w \in W!Workers, task[w].pc \in Attempting
  PROVE  W!Sends(w) \in Rows /\ task[w].at = {W!Sends(w)}
BY DEF WebInv, AttemptsHaveRows, W!Sends

LEMMA ReadingIs ==
  ASSUME NEW d, NEW rest
  PROVE  /\ W!Reading(d) = [pc |-> "read", at |-> {d}, n |-> 0, todo |-> {}]
         /\ [W!Reading(d) EXCEPT !.todo = rest] = [pc |-> "read", at |-> {d}, n |-> 0, todo |-> rest]
         /\ [W!NoTask EXCEPT !.pc = "next", !.todo = rest] = [pc |-> "next", at |-> {}, n |-> 0, todo |-> rest]
<1>1. W!Reading(d) \in [pc : {"read"}, at : {{d}}, n : {0}, todo : {{}}]
  BY DEF W!Reading, W!NoTask
<1>2. W!Reading(d) = [pc |-> "read", at |-> {d}, n |-> 0, todo |-> {}]
  BY <1>1
<1>3. [W!Reading(d) EXCEPT !.todo = rest] = [pc |-> "read", at |-> {d}, n |-> 0, todo |-> rest]
  BY <1>2
<1>4. [W!NoTask EXCEPT !.pc = "next", !.todo = rest] \in [pc : {"next"}, at : {{}}, n : {0}, todo : {rest}]
  BY DEF W!NoTask
<1>5. ASSUME NEW t, t \in [pc : {"next"}, at : {{}}, n : {0}, todo : {rest}]
      PROVE  t = [pc |-> "next", at |-> {}, n |-> 0, todo |-> rest]
  BY <1>5
<1>6. [W!NoTask EXCEPT !.pc = "next", !.todo = rest] = [pc |-> "next", at |-> {}, n |-> 0, todo |-> rest]
  BY <1>4, <1>5, Zenon
<1> QED BY <1>2, <1>3, <1>6

\* What a worker leaves as it was when it turns to something else.
LEMMA TurningTyped ==
  ASSUME WebInv, NEW w \in W!Workers, NEW t, W!Turns(w, t),
         t \in [pc : Attempting \cup {"idle", "next"}, at : SUBSET Rows, n : Nat, todo : SUBSET Rows]
  PROVE  /\ task' \in [W!Workers -> [pc : Attempting \cup {"idle", "next"}, at : SUBSET Rows,
                                     n : Nat, todo : SUBSET Rows]]
         /\ task'[w] = t /\ \A v \in W!Workers \ {w} : task'[v] = task[v]
BY DEF W!Turns, WebInv, WebTyped

LEMMA RestIsTyped ==
  ASSUME WebInv, NEW w \in W!Workers
  PROVE  /\ W!Rest(w) \in [pc : {"idle", "next"}, at : {{}}, n : Nat, todo : SUBSET task[w].todo]
         /\ W!Rest(w) \in [pc : Attempting \cup {"idle", "next"}, at : SUBSET Rows, n : Nat, todo : SUBSET Rows]
BY DEF WebInv, WebTyped, W!Rest, W!NoTask

\* A worker that goes on to a row, or rests, with no row of the endpoint written.
LEMMA TurningKeepsWeb ==
  ASSUME WebInv, NEW w \in W!Workers, NEW t, W!Turns(w, t),
         t \in [pc : {"idle", "next", "read", "count", "disable"}, at : SUBSET Rows, n : Nat, todo : SUBSET Rows],
         t.pc \in Attempting => \E d \in Rows : t.at = {d},
         \A d \in t.at \cup t.todo : endpoint.there => row[d].made,
         UNCHANGED <<row, sent, slack>>,
         endpoint' \in [there : BOOLEAN, active : BOOLEAN, failures : Nat],
         endpoint'.there = endpoint.there,
         task[w].pc \in {"won", "lost"} => ~endpoint.there
  PROVE  WebInv'
<1>0. t \in [pc : Attempting \cup {"idle", "next"}, at : SUBSET Rows, n : Nat, todo : SUBSET Rows]
  BY DEF Attempting
<1>1. WebTyped' /\ task'[w] = t /\ \A v \in W!Workers \ {w} : task'[v] = task[v]
  BY <1>0, TurningTyped DEF WebInv, WebTyped
<1>2. AttemptsHaveRows' /\ RowsBelong'
  BY <1>1 DEF WebInv, AttemptsHaveRows, RowsBelong
<1>3. ASSUME NEW d \in Rows, NEW a \in Nat, Accounted(d, a) PROVE Accounted(d, a)'
  <2>1. \A v \in W!Workers : Pending(v, d)' => Pending(v, d) /\ task'[v].n = task[v].n
    BY <1>1 DEF Pending
  <2>2. row'[d].made => W!Unsaved(d)' = W!Unsaved(d)
    BY <1>1 DEF W!Unsaved, WebInv, RowsBelong
  <2> QED BY <1>3, <2>1, <2>2, OtherRowsKeepAccount
<1> QED BY <1>1, <1>2, <1>3 DEF WebInv, EachAccounted

LEMMA RestingKeepsWeb ==
  ASSUME WebInv, NEW w \in W!Workers, W!Turns(w, W!Rest(w)), UNCHANGED <<row, sent, slack>>,
         endpoint' \in [there : BOOLEAN, active : BOOLEAN, failures : Nat],
         endpoint'.there = endpoint.there,
         task[w].pc \in {"won", "lost"} => ~endpoint.there
  PROVE  WebInv'
<1>1. /\ W!Rest(w) \in [pc : {"idle", "next", "read", "count", "disable"}, at : SUBSET Rows, n : Nat, todo : SUBSET Rows]
      /\ W!Rest(w).pc \notin Attempting /\ W!Rest(w).at = {} /\ W!Rest(w).todo \subseteq task[w].todo
  BY RestIsTyped DEF Attempting
<1> QED BY <1>1, TurningKeepsWeb DEF WebInv, AttemptsHaveRows

LEMMA DispatchKeepsWeb ==
  ASSUME WebInv, NEW d \in Rows, W!Dispatches(d)
  PROVE  WebInv'
<1>1. /\ row' = [row EXCEPT ![d] = W!Created] /\ endpoint.there /\ ~row[d].made
      /\ UNCHANGED <<endpoint, sent, slack>>
  BY DEF W!Dispatches
<1>2. PICK v \in W!Workers \cup {Nil} :
        \/ v \in W!Workers /\ task[v].pc = "idle" /\ W!Turns(v, W!Reading(d))
        \/ UNCHANGED task
  BY DEF W!Dispatches, W!Workers
<1>3. W!Reading(d) = [pc |-> "read", at |-> {d}, n |-> 0, todo |-> {}]
  BY ReadingIs
<1>4. WebTyped' /\ \A u \in W!Workers : task'[u] = task[u] \/ task'[u] = W!Reading(d)
  <2>1. row' \in [Rows -> [made : BOOLEAN, attempts : Nat, delivered : BOOLEAN, due : {"never", "later", "now"}]]
    BY <1>1 DEF WebInv, WebTyped, W!Created
  <2>2. CASE UNCHANGED task
    BY <1>1, <2>1, <2>2 DEF WebInv, WebTyped
  <2>3. CASE v \in W!Workers /\ W!Turns(v, W!Reading(d))
    BY <1>1, <1>3, <2>1, <2>3, TurningTyped DEF WebInv, WebTyped, Attempting
  <2> QED BY <1>2, <2>2, <2>3
<1>5. \A e \in Rows : row'[e] = IF e = d THEN W!Created ELSE row[e]
  BY <1>1 DEF WebInv, WebTyped
<1>6. AttemptsHaveRows' /\ RowsBelong'
  BY <1>1, <1>3, <1>4, <1>5 DEF WebInv, AttemptsHaveRows, RowsBelong, W!Created
<1>7. ASSUME NEW e \in Rows, NEW u \in W!Workers
      PROVE  (Pending(u, e)' => Pending(u, e) /\ task'[u].n = task[u].n)
  BY <1>3, <1>4 DEF Pending
<1>8. ASSUME NEW e \in Rows PROVE W!Unsaved(e)' = W!Unsaved(e)
  <2>1. CASE UNCHANGED task
    BY <2>1 DEF W!Unsaved
  <2>2. CASE v \in W!Workers /\ task[v].pc = "idle" /\ W!Turns(v, W!Reading(d))
    BY <1>3, <2>2, TurningTyped DEF W!Unsaved, W!Turns, WebInv, WebTyped
  <2> QED BY <1>2, <2>1, <2>2
<1>9. ASSUME NEW e \in Rows, NEW a \in Nat, Accounted(e, a) PROVE Accounted(e, a)'
  <2>1. CASE e = d
    BY <1>1, <1>5, <1>7, <1>8, <1>9, <2>1, LimitsAreNatural, UnsavedAreCounted
       DEF Accounted, WebInv, WebTyped, RowsBelong, W!Created
  <2>2. CASE e # d
    BY <1>1, <1>5, <1>7, <1>8, <1>9, <2>2, OtherRowsKeepAccount
  <2> QED BY <2>1, <2>2
<1> QED BY <1>4, <1>6, <1>9 DEF WebInv, EachAccounted

LEMMA SweepingKeepsWeb ==
  ASSUME WebInv, NEW w \in W!Workers, W!Lists(w) \/ W!Takes(w)
  PROVE  WebInv'
<1>1. CASE W!Lists(w)
  <2> DEFINE t == [pc |-> "next", at |-> {}, n |-> 0, todo |-> W!Due]
  <2>1. W!Turns(w, t) /\ task[w].pc = "idle" /\ UNCHANGED <<endpoint, row, sent, slack>>
    BY <1>1, ReadingIs DEF W!Lists
  <2>2. W!Due \subseteq {d \in Rows : row[d].made}
    BY DEF W!Due
  <2> QED BY <2>1, <2>2, TurningKeepsWeb DEF WebInv, WebTyped, Attempting
<1>2. CASE W!Takes(w)
  <2>1. PICK d \in task[w].todo : W!Turns(w, [W!Reading(d) EXCEPT !.todo = task[w].todo \ {d}])
    BY <1>2 DEF W!Takes
  <2> DEFINE t == [pc |-> "read", at |-> {d}, n |-> 0, todo |-> task[w].todo \ {d}]
  <2>2. W!Turns(w, t) /\ task[w].pc = "next" /\ UNCHANGED <<endpoint, row, sent, slack>>
    BY <1>2, <2>1, ReadingIs DEF W!Takes
  <2>3. task[w].todo \subseteq Rows
    BY DEF WebInv, WebTyped
  <2> QED BY <2>2, <2>3, TurningKeepsWeb DEF WebInv, WebTyped, AttemptsHaveRows
<1> QED BY <1>1, <1>2

\* An attempt begun with the budget spent is excused one request.
LEMMA ReadingARowKeepsWeb ==
  ASSUME WebInv, NEW w \in W!Workers, W!Reads(w)
  PROVE  WebInv'
<1>1. PICK d \in Rows : d = W!Sends(w) /\ task[w].at = {d} /\ task[w].pc = "read"
  BY SendsOneRow DEF W!Reads, Attempting
<1>2. CASE W!Turns(w, W!Rest(w)) /\ UNCHANGED slack
  BY <1>1, <1>2, RestingKeepsWeb DEF W!Reads, WebInv, WebTyped
<1>3. CASE /\ W!Turns(w, [task[w] EXCEPT !.pc = "post", !.n = row[d].attempts + 1])
           /\ slack' = [slack EXCEPT ![d] = @ + IF row[d].attempts >= MaxAttempts THEN 1 ELSE 0]
  <2> DEFINE inc == IF row[d].attempts >= MaxAttempts THEN 1 ELSE 0
             t == [task[w] EXCEPT !.pc = "post", !.n = row[d].attempts + 1]
  <2>1. UNCHANGED <<endpoint, row, sent>> /\ W!Turns(w, t)
    BY <1>3 DEF W!Reads
  <2>2. /\ t \in [pc : Attempting \cup {"idle", "next"}, at : SUBSET Rows, n : Nat, todo : SUBSET Rows]
        /\ t.pc = "post" /\ t.at = {d} /\ t.n = row[d].attempts + 1 /\ t.todo = task[w].todo
    <3>1. row[d].attempts + 1 \in Nat
      BY DEF WebInv, WebTyped
    <3>2. /\ task[w] \in [pc : Attempting \cup {"idle", "next"}, at : SUBSET Rows, n : Nat, todo : SUBSET Rows]
          /\ "post" \in Attempting
      BY DEF WebInv, WebTyped, Attempting
    <3> QED BY <1>1, <3>1, <3>2
  <2>3. slack' \in [Rows -> Nat] /\ slack'[d] = slack[d] + inc /\ \A e \in Rows \ {d} : slack'[e] = slack[e]
    BY <1>1, <1>3, LimitsAreNatural DEF WebInv, WebTyped
  <2> HIDE DEF t, inc
  <2>4. WebTyped' /\ task'[w] = t /\ \A v \in W!Workers \ {w} : task'[v] = task[v]
    BY <2>1, <2>2, <2>3, TurningTyped DEF WebInv, WebTyped
  <2>5. AttemptsHaveRows' /\ RowsBelong'
    BY <1>1, <2>1, <2>2, <2>4 DEF WebInv, AttemptsHaveRows, RowsBelong
  <2>6. \A e \in Rows : W!Unsaved(e)' = W!Unsaved(e)
    BY <1>1, <2>2, <2>4 DEF W!Unsaved
  <2>7. ASSUME NEW e \in Rows, NEW a \in Nat, Accounted(e, a) PROVE \E b \in Nat : Accounted(e, b)'
    <3>1. CASE e # d
      <4>1. \A v \in W!Workers : Pending(v, e)' => Pending(v, e) /\ task'[v].n = task[v].n
        BY <2>2, <2>4, <3>1 DEF Pending
      <4> QED BY <2>1, <2>3, <2>6, <2>7, <3>1, <4>1, OtherRowsKeepAccount
    <3>2. CASE e = d
      <4>1. row[d].attempts \in Nat /\ slack[d] \in Nat /\ inc \in {0, 1} /\ MaxAttempts \in Nat
            /\ (row[d].attempts >= MaxAttempts <=> inc = 1) /\ sent[d] \in Nat
        BY <1>1, LimitsAreNatural DEF WebInv, WebTyped, inc
      <4>2. a + inc \in Nat /\ a + inc \in 0 .. slack'[d] /\ row'[d].attempts <= MaxAttempts + (a + inc)
        BY <2>1, <2>3, <2>7, <3>2, <4>1 DEF Accounted
      <4>3. \A v \in W!Workers : Pending(v, d)' => task'[v].n <= MaxAttempts + (a + inc)
        <5> TAKE v \in W!Workers
        <5>1. CASE v = w
          BY <2>2, <2>4, <2>7, <3>2, <4>1, <5>1 DEF Accounted
        <5>2. CASE v # w
          BY <2>4, <2>7, <3>2, <4>1, <5>2 DEF Accounted, Pending, WebInv, WebTyped
        <5> QED BY <5>1, <5>2
      <4>4. row'[d].made => sent'[d] <= row'[d].attempts + (slack'[d] - (a + inc)) + Cardinality(W!Unsaved(d)')
        BY <1>1, <2>1, <2>3, <2>6, <2>7, <3>2, <4>1, UnsavedAreCounted DEF Accounted
      <4> QED BY <3>2, <4>2, <4>3, <4>4 DEF Accounted
    <3> QED BY <3>1, <3>2
  <2> QED BY <2>4, <2>5, <2>7 DEF WebInv, EachAccounted
<1> QED BY <1>1, <1>2, <1>3 DEF W!Reads

\* A request that is made has an attempt that has yet to count it.
LEMMA PostingKeepsWeb ==
  ASSUME WebInv, NEW w \in W!Workers, W!Posts(w)
  PROVE  WebInv'
<1>1. PICK d \in Rows : d = W!Sends(w) /\ task[w].at = {d} /\ task[w].pc = "post"
  BY SendsOneRow DEF W!Posts, Attempting
<1>2. PICK pc \in {"won", "lost"} : W!Turns(w, [task[w] EXCEPT !.pc = pc])
  BY DEF W!Posts
<1> DEFINE t == [task[w] EXCEPT !.pc = pc]
<1>3. UNCHANGED <<endpoint, row, slack>> /\ sent' = [sent EXCEPT ![d] = @ + 1]
  BY <1>1 DEF W!Posts
<1>4. /\ t \in [pc : Attempting \cup {"idle", "next"}, at : SUBSET Rows, n : Nat, todo : SUBSET Rows]
      /\ t.pc \in {"won", "lost"} /\ t.at = {d} /\ t.n = task[w].n /\ t.todo = task[w].todo
  BY <1>1 DEF WebInv, WebTyped, Attempting
<1>5. sent' \in [Rows -> Nat] /\ sent'[d] = sent[d] + 1 /\ \A e \in Rows \ {d} : sent'[e] = sent[e]
  BY <1>1, <1>3 DEF WebInv, WebTyped
<1> HIDE DEF t
<1>6. WebTyped' /\ task'[w] = t /\ \A v \in W!Workers \ {w} : task'[v] = task[v]
  BY <1>2, <1>3, <1>4, <1>5, TurningTyped DEF WebInv, WebTyped, t
<1>7. AttemptsHaveRows'
  BY <1>1, <1>3, <1>4, <1>6 DEF WebInv, AttemptsHaveRows
<1>8. \A e \in Rows \ {d} : W!Unsaved(e)' = W!Unsaved(e)
  BY <1>1, <1>4, <1>6 DEF W!Unsaved
<1>9. W!Unsaved(d)' = W!Unsaved(d) \cup {w} /\ w \notin W!Unsaved(d)
  BY <1>1, <1>4, <1>6 DEF W!Unsaved
<1>10. \A e \in Rows, v \in W!Workers : Pending(v, e)' => Pending(v, e) /\ task'[v].n = task[v].n
  BY <1>1, <1>4, <1>6 DEF Pending
<1>11. RowsBelong'
  BY <1>1, <1>3, <1>5 DEF WebInv, RowsBelong, AttemptsHaveRows
<1>12. ASSUME NEW e \in Rows, NEW a \in Nat, Accounted(e, a) PROVE Accounted(e, a)'
  <2>1. CASE e # d
    BY <1>3, <1>5, <1>8, <1>10, <1>12, <2>1, OtherRowsKeepAccount
  <2>2. CASE e = d
    <3>1. Cardinality(W!Unsaved(d)') = Cardinality(W!Unsaved(d)) + 1
      BY <1>1, <1>9, UnsavedAreCounted
    <3>2. row[d].attempts \in Nat /\ slack[d] \in Nat /\ sent[d] \in Nat /\ Cardinality(W!Unsaved(d)) \in Nat
      BY <1>1, UnsavedAreCounted DEF WebInv, WebTyped
    <3>3. row'[d].made => sent'[d] <= row'[d].attempts + (slack'[d] - a) + Cardinality(W!Unsaved(d)')
      BY <1>3, <1>5, <1>12, <2>2, <3>1, <3>2 DEF Accounted
    <3>4. a \in 0 .. slack'[d] /\ row'[d].attempts <= MaxAttempts + a
      BY <1>3, <1>12, <2>2 DEF Accounted
    <3>5. \A v \in W!Workers : Pending(v, d)' => task'[v].n <= MaxAttempts + a
      BY <1>1, <1>10, <1>12, <2>2 DEF Accounted
    <3> QED BY <2>2, <3>3, <3>4, <3>5 DEF Accounted
  <2> QED BY <2>1, <2>2
<1> QED BY <1>6, <1>7, <1>11, <1>12 DEF WebInv, EachAccounted

\* The outcome is written: its request is counted, or its row is excused what it overwrote.
LEMMA SettlingKeepsWeb ==
  ASSUME WebInv, NEW w \in W!Workers, task[w].pc \in {"won", "lost"}, endpoint.there,
         NEW r \in [made : {TRUE}, attempts : {task[w].n}, delivered : BOOLEAN, due : {"never", "later", "now"}],
         row' = [row EXCEPT ![W!Sends(w)] = r], W!Overlooked(w, W!Sends(w)),
         NEW t \in [pc : {"idle", "next", "count"}, at : SUBSET Rows, n : Nat, todo : SUBSET Rows],
         t.pc = "count" => t.at = task[w].at, t.at \subseteq task[w].at, t.todo \subseteq task[w].todo,
         W!Turns(w, t), UNCHANGED sent,
         endpoint' \in [there : {TRUE}, active : BOOLEAN, failures : Nat]
  PROVE  WebInv'
<1>1. PICK d \in Rows : d = W!Sends(w) /\ task[w].at = {d}
  BY SendsOneRow DEF Attempting
<1> DEFINE over == IF row[d].attempts + 1 = task[w].n THEN 0
                   ELSE IF row[d].attempts + 1 > task[w].n THEN row[d].attempts + 1 - task[w].n ELSE 0
<1>2. row[d].made
  BY <1>1 DEF WebInv, AttemptsHaveRows
<1>3. row[d].attempts \in Nat /\ slack[d] \in Nat /\ task[w].n \in Nat /\ sent[d] \in Nat
  BY <1>1 DEF WebInv, WebTyped
<1>4. over \in Nat /\ over >= row[d].attempts + 1 - task[w].n
  BY <1>3
<1>5. slack' = [slack EXCEPT ![d] = @ + over]
  BY <1>1 DEF W!Overlooked
<1> HIDE DEF over
<1>6. slack' \in [Rows -> Nat] /\ slack'[d] = slack[d] + over /\ \A e \in Rows \ {d} : slack'[e] = slack[e]
  BY <1>1, <1>4, <1>5 DEF WebInv, WebTyped
<1>7. /\ row' \in [Rows -> [made : BOOLEAN, attempts : Nat, delivered : BOOLEAN, due : {"never", "later", "now"}]]
      /\ row'[d].attempts = task[w].n /\ row'[d].made /\ \A e \in Rows \ {d} : row'[e] = row[e]
  BY <1>1, <1>3 DEF WebInv, WebTyped
<1>8. WebTyped' /\ task'[w] = t /\ \A v \in W!Workers \ {w} : task'[v] = task[v]
  <2>1. t \in [pc : Attempting \cup {"idle", "next"}, at : SUBSET Rows, n : Nat, todo : SUBSET Rows]
    BY DEF Attempting
  <2>2. /\ task' \in [W!Workers -> [pc : Attempting \cup {"idle", "next"}, at : SUBSET Rows,
                                     n : Nat, todo : SUBSET Rows]]
        /\ task'[w] = t /\ \A v \in W!Workers \ {w} : task'[v] = task[v]
    BY <2>1, TurningTyped
  <2> QED BY <1>6, <1>7, <2>2 DEF WebInv, WebTyped
<1>9. AttemptsHaveRows' /\ RowsBelong'
  <2>1. \A e \in Rows : row[e].made => row'[e].made
    BY <1>7
  <2>2. AttemptsHaveRows'
    <3>1. \A v \in W!Workers : task'[v].pc \in Attempting => \E e \in Rows : task'[v].at = {e}
      BY <1>1, <1>8 DEF WebInv, AttemptsHaveRows, Attempting
    <3>2. \A v \in W!Workers : task'[v].at \subseteq task[v].at /\ task'[v].todo \subseteq task[v].todo
      BY <1>8
    <3>3. \A v \in W!Workers : task[v].at \cup task[v].todo \subseteq Rows
      BY DEF WebInv, WebTyped
    <3> QED BY <2>1, <3>1, <3>2, <3>3 DEF WebInv, AttemptsHaveRows
  <2>3. RowsBelong'
    BY <2>1 DEF WebInv, RowsBelong
  <2> QED BY <2>2, <2>3
<1>10. \A e \in Rows \ {d} : W!Unsaved(e)' = W!Unsaved(e)
  BY <1>1, <1>8 DEF W!Unsaved
<1>11. W!Unsaved(d)' = W!Unsaved(d) \ {w} /\ w \in W!Unsaved(d)
  BY <1>1, <1>8 DEF W!Unsaved
<1>12. \A e \in Rows, v \in W!Workers : Pending(v, e)' => Pending(v, e) /\ task'[v].n = task[v].n
  BY <1>1, <1>8 DEF Pending
<1>13. ASSUME NEW e \in Rows, NEW a \in Nat, Accounted(e, a) PROVE Accounted(e, a)'
  <2>1. CASE e # d
    BY <1>6, <1>7, <1>10, <1>12, <1>13, <2>1, OtherRowsKeepAccount
  <2>2. CASE e = d
    <3>1. Cardinality(W!Unsaved(d)') = Cardinality(W!Unsaved(d)) - 1 /\ Cardinality(W!Unsaved(d)) \in Nat
      BY <1>1, <1>11, UnsavedAreCounted
    <3>2. a \in 0 .. slack[d] /\ sent[d] <= row[d].attempts + (slack[d] - a) + Cardinality(W!Unsaved(d))
      BY <1>2, <1>13, <2>2 DEF Accounted
    <3>3. sent'[d] <= task[w].n + ((slack[d] + over) - a) + Cardinality(W!Unsaved(d)')
      BY <1>3, <1>4, <3>1, <3>2
    <3>4. a \in 0 .. slack'[d]
      BY <1>3, <1>4, <1>6, <3>2
    <3>5. Pending(w, d)
      BY <1>1 DEF Pending
    <3>6. task[w].n <= MaxAttempts + a
      BY <1>13, <2>2, <3>5 DEF Accounted
    <3>7. \A v \in W!Workers : Pending(v, d)' => task'[v].n <= MaxAttempts + a
      BY <1>1, <1>12, <1>13, <2>2 DEF Accounted
    <3> QED BY <1>6, <1>7, <2>2, <3>3, <3>4, <3>6, <3>7 DEF Accounted
  <2> QED BY <2>1, <2>2
<1> QED BY <1>8, <1>9, <1>13 DEF WebInv, EachAccounted

LEMMA AttemptKeepsWeb ==
  ASSUME WebInv, NEW w \in W!Workers, W!Attempt(w)
  PROVE  WebInv'
<1> USE DEF Attempting
<1>0. /\ task[w] \in [pc : Attempting \cup {"idle", "next"}, at : SUBSET Rows, n : Nat, todo : SUBSET Rows]
      /\ endpoint \in [there : BOOLEAN, active : BOOLEAN, failures : Nat]
  BY DEF WebInv, WebTyped
<1>1. CASE W!Reads(w)
  BY <1>1, ReadingARowKeepsWeb
<1>2. CASE W!Posts(w)
  BY <1>2, PostingKeepsWeb
<1>3. CASE W!Succeeds(w)
  <2> DEFINE r == [made |-> TRUE, attempts |-> task[w].n, delivered |-> TRUE, due |-> "never"]
  <2>1. /\ task[w].pc = "won" /\ endpoint.there /\ row' = [row EXCEPT ![W!Sends(w)] = r]
        /\ W!Overlooked(w, W!Sends(w)) /\ W!Turns(w, W!Rest(w)) /\ UNCHANGED sent
    BY <1>3 DEF W!Succeeds
  <2>2. endpoint' \in [there : {TRUE}, active : BOOLEAN, failures : Nat]
    BY <1>0, <1>3 DEF W!Succeeds
  <2>3. /\ W!Rest(w) \in [pc : {"idle", "next", "count"}, at : SUBSET Rows, n : Nat, todo : SUBSET Rows]
        /\ W!Rest(w).pc # "count" /\ W!Rest(w).at = {} /\ W!Rest(w).todo \subseteq task[w].todo
    BY RestIsTyped
  <2> QED BY <2>1, <2>2, <2>3, SettlingKeepsWeb
<1>4. CASE W!FailsRow(w)
  <2>1. PICK d \in Rows : d = W!Sends(w) /\ task[w].at = {d} /\ task[w].pc = "lost" /\ endpoint.there
    BY <1>4, SendsOneRow DEF W!FailsRow
  <2> DEFINE r == [row[d] EXCEPT !.attempts = task[w].n, !.due = W!DueAgain(w)]
             t == [task[w] EXCEPT !.pc = "count"]
  <2>2. row[d] \in [made : {TRUE}, attempts : Nat, delivered : BOOLEAN, due : {"never", "later", "now"}]
    BY <2>1 DEF WebInv, WebTyped, AttemptsHaveRows
  <2>3. r \in [made : {TRUE}, attempts : {task[w].n}, delivered : BOOLEAN, due : {"never", "later", "now"}]
    BY <2>2 DEF W!DueAgain
  <2>4. row' = [row EXCEPT ![d] = r]
    BY <1>4, <2>1 DEF W!FailsRow, W!Counted
  <2>5. /\ t \in [pc : {"idle", "next", "count"}, at : SUBSET Rows, n : Nat, todo : SUBSET Rows]
        /\ t.at = task[w].at /\ t.todo = task[w].todo
    BY <1>0
  <2>6. W!Overlooked(w, W!Sends(w)) /\ W!Turns(w, t) /\ UNCHANGED <<sent, endpoint>>
    BY <1>4 DEF W!FailsRow
  <2>7. endpoint' \in [there : {TRUE}, active : BOOLEAN, failures : Nat]
    BY <1>0, <2>1, <2>6
  <2> HIDE DEF r, t
  <2> QED BY <2>1, <2>3, <2>4, <2>5, <2>6, <2>7, SettlingKeepsWeb
<1>5. CASE W!FailsEndpoint(w)
  <2> DEFINE t == [task[w] EXCEPT !.pc = "disable"]
  <2>1. /\ task[w].pc = "count" /\ endpoint.there /\ UNCHANGED <<row, sent, slack>>
        /\ W!Turns(w, t) \/ W!Turns(w, W!Rest(w))
    BY <1>5 DEF W!FailsEndpoint
  <2>2. endpoint' \in [there : BOOLEAN, active : BOOLEAN, failures : Nat] /\ endpoint'.there = endpoint.there
    <3>1. endpoint' = [endpoint EXCEPT !.failures = endpoint.failures + 1]
      BY <1>5 DEF W!FailsEndpoint
    <3>2. endpoint.failures + 1 \in Nat
      BY <1>0
    <3> QED BY <1>0, <3>1, <3>2
  <2>3. /\ t \in [pc : {"idle", "next", "read", "count", "disable"}, at : SUBSET Rows, n : Nat, todo : SUBSET Rows]
        /\ t.at = task[w].at /\ t.todo = task[w].todo
    BY <1>0
  <2>4. CASE W!Turns(w, t)
    <3> HIDE DEF t
    <3> QED BY <2>1, <2>2, <2>3, <2>4, TurningKeepsWeb DEF WebInv, AttemptsHaveRows
  <2>5. CASE W!Turns(w, W!Rest(w))
    BY <2>1, <2>2, <2>5, RestingKeepsWeb
  <2> QED BY <2>1, <2>4, <2>5
<1>6. CASE W!Disables(w)
  <2>1. endpoint' \in [there : BOOLEAN, active : BOOLEAN, failures : Nat] /\ endpoint'.there = endpoint.there
    BY <1>0, <1>6 DEF W!Disables
  <2> QED BY <1>6, <2>1, RestingKeepsWeb DEF W!Disables
<1>7. CASE W!Throws(w)
  BY <1>0, <1>7, RestingKeepsWeb DEF W!Throws
<1> QED BY <1>1, <1>2, <1>3, <1>4, <1>5, <1>6, <1>7 DEF W!Attempt

\* A row that falls due, a request at the endpoint, its removal with its rows.
LEMMA RowsAndEditsKeepWeb ==
  ASSUME WebInv, (\E d \in Rows : W!Elapses(d)) \/ (\E b \in BOOLEAN : W!Edits(b)) \/ W!Removes
  PROVE  WebInv'
<1> USE DEF WebInv, WebTyped
<1>1. UNCHANGED <<task, sent, slack>> /\ \A d \in Rows : W!Unsaved(d)' = W!Unsaved(d)
  BY DEF W!Elapses, W!Edits, W!Removes, W!Unsaved
<1>2. CASE \E d \in Rows : W!Elapses(d)
  <2>1. PICK d \in Rows : row' = [row EXCEPT ![d].due = "now"] /\ UNCHANGED endpoint
    BY <1>2 DEF W!Elapses
  <2>2. WebTyped' /\ \A e \in Rows : row'[e].made = row[e].made /\ row'[e].attempts = row[e].attempts
    BY <1>1, <2>1
  <2>3. AttemptsHaveRows' /\ RowsBelong'
    BY <1>1, <2>1, <2>2 DEF AttemptsHaveRows, RowsBelong
  <2>4. ASSUME NEW e \in Rows, NEW a \in Nat, Accounted(e, a) PROVE Accounted(e, a)'
    BY <1>1, <2>1, <2>2, <2>4 DEF Accounted, Pending
  <2> QED BY <2>2, <2>3, <2>4 DEF EachAccounted
<1>3. CASE \E b \in BOOLEAN : W!Edits(b)
  <2>1. endpoint' \in [there : BOOLEAN, active : BOOLEAN, failures : Nat]
        /\ endpoint'.there = endpoint.there /\ UNCHANGED row
    <3>1. PICK b \in BOOLEAN : W!Edits(b)
      BY <1>3
    <3>2. PICK n \in Nat : endpoint' = [endpoint EXCEPT !.active = b, !.failures = n]
      BY <3>1 DEF W!Edits
    <3> QED BY <3>1, <3>2 DEF W!Edits
  <2>2. WebTyped' /\ AttemptsHaveRows' /\ RowsBelong'
    BY <1>1, <2>1 DEF AttemptsHaveRows, RowsBelong
  <2>3. ASSUME NEW e \in Rows, NEW a \in Nat, Accounted(e, a) PROVE Accounted(e, a)'
    BY <1>1, <2>1, <2>3 DEF Accounted, Pending
  <2> QED BY <2>2, <2>3 DEF EachAccounted
<1>4. CASE W!Removes
  <2>1. WebTyped' /\ ~endpoint'.there /\ \A e \in Rows : row'[e] = W!Absent
    BY <1>1, <1>4 DEF W!Removes, W!Absent
  <2>2. AttemptsHaveRows' /\ RowsBelong'
    BY <1>1, <2>1 DEF AttemptsHaveRows, RowsBelong, W!Absent
  <2>3. ASSUME NEW e \in Rows, NEW a \in Nat, Accounted(e, a) PROVE Accounted(e, a)'
    BY <1>1, <2>1, <2>3, LimitsAreNatural DEF Accounted, Pending, W!Absent
  <2> QED BY <2>1, <2>2, <2>3 DEF EachAccounted
<1> QED BY <1>2, <1>3, <1>4

\* A request whose outcome dies with its process is excused.
LEMMA StoppingKeepsWeb ==
  ASSUME WebInv, NEW w \in W!Workers, W!Stops(w)
  PROVE  WebInv'
<1>1. UNCHANGED <<endpoint, row, sent>> /\ W!Turns(w, W!NoTask)
  BY DEF W!Stops
<1>2. /\ W!NoTask \in [pc : {"idle"}, at : {{}}, n : Nat, todo : {{}}]
      /\ W!NoTask \in [pc : Attempting \cup {"idle", "next"}, at : SUBSET Rows, n : Nat, todo : SUBSET Rows]
  BY DEF W!NoTask
<1>3. /\ task' \in [W!Workers -> [pc : Attempting \cup {"idle", "next"}, at : SUBSET Rows,
                                   n : Nat, todo : SUBSET Rows]]
      /\ task'[w] = W!NoTask /\ \A v \in W!Workers \ {w} : task'[v] = task[v]
  BY <1>1, <1>2, TurningTyped
<1>4. CASE task[w].pc \notin {"won", "lost"}
  <2>1. UNCHANGED slack
    BY <1>4 DEF W!Stops
  <2>2. /\ W!NoTask \in [pc : {"idle", "next", "read", "count", "disable"}, at : SUBSET Rows, n : Nat, todo : SUBSET Rows]
        /\ W!NoTask.pc \notin Attempting /\ W!NoTask.at = {} /\ W!NoTask.todo = {}
    BY <1>2 DEF Attempting
  <2> QED BY <1>1, <1>4, <2>1, <2>2, TurningKeepsWeb DEF WebInv, WebTyped
<1>5. CASE task[w].pc \in {"won", "lost"}
  <2>1. PICK d \in Rows : d = W!Sends(w) /\ task[w].at = {d}
    BY <1>5, SendsOneRow DEF Attempting
  <2>2. slack' = [slack EXCEPT ![d] = @ + 1]
    BY <1>5, <2>1 DEF W!Stops
  <2>3. slack' \in [Rows -> Nat] /\ slack'[d] = slack[d] + 1 /\ \A e \in Rows \ {d} : slack'[e] = slack[e]
    BY <2>2 DEF WebInv, WebTyped
  <2>4. WebTyped'
    BY <1>1, <1>3, <2>3 DEF WebInv, WebTyped
  <2>5. AttemptsHaveRows' /\ RowsBelong'
    BY <1>1, <1>2, <1>3 DEF WebInv, AttemptsHaveRows, RowsBelong, Attempting
  <2>6. \A e \in Rows \ {d} : W!Unsaved(e)' = W!Unsaved(e)
    BY <1>2, <1>3, <2>1 DEF W!Unsaved
  <2>7. W!Unsaved(d)' = W!Unsaved(d) \ {w} /\ w \in W!Unsaved(d)
    BY <1>2, <1>3, <1>5, <2>1 DEF W!Unsaved
  <2>8. \A e \in Rows, v \in W!Workers : Pending(v, e)' => Pending(v, e) /\ task'[v].n = task[v].n
    BY <1>2, <1>3 DEF Pending
  <2>9. ASSUME NEW e \in Rows, NEW a \in Nat, Accounted(e, a) PROVE Accounted(e, a)'
    <3>1. CASE e # d
      BY <1>1, <2>3, <2>6, <2>8, <2>9, <3>1, OtherRowsKeepAccount
    <3>2. CASE e = d
      <4>1. Cardinality(W!Unsaved(d)') = Cardinality(W!Unsaved(d)) - 1 /\ Cardinality(W!Unsaved(d)) \in Nat
        BY <2>7, UnsavedAreCounted
      <4>2. row[d].attempts \in Nat /\ slack[d] \in Nat /\ sent[d] \in Nat
        BY DEF WebInv, WebTyped
      <4>3. /\ a \in 0 .. slack'[d]
            /\ row'[d].made => sent'[d] <= row'[d].attempts + (slack'[d] - a) + Cardinality(W!Unsaved(d)')
        BY <1>1, <2>3, <2>9, <3>2, <4>1, <4>2 DEF Accounted
      <4>4. \A v \in W!Workers : Pending(v, d)' => task'[v].n <= MaxAttempts + a
        BY <2>8, <2>9, <3>2 DEF Accounted
      <4> QED BY <1>1, <2>9, <3>2, <4>3, <4>4 DEF Accounted
    <3> QED BY <3>1, <3>2
  <2> QED BY <2>4, <2>5, <2>9 DEF WebInv, EachAccounted
<1> QED BY <1>4, <1>5

LEMMA SameCardinality == \A S : W!Cardinality(S) = Cardinality(S)
BY Zenon DEF W!Cardinality, Cardinality

\* A delivery is sent MAX_ATTEMPTS times at most, and once more for each attempt that
\* overlapped another or whose outcome a crash swallowed (webhooks.service.ts:348-440).
THEOREM BudgetHoldsTheorem == AllSpec => []BudgetHolds
<1>1. AllInit => WebInv
  BY StartsEveryPart, WebInit
<1>2. WebInv /\ [AllNext]_AllVars => WebInv'
  <2> SUFFICES ASSUME WebInv, [AllNext]_AllVars PROVE WebInv'
    OBVIOUS
  <2>1. CASE UNCHANGED webVars
    <3>1. \A d \in Rows : W!Unsaved(d)' = W!Unsaved(d)
      BY <2>1 DEF webVars, W!Unsaved
    <3> QED BY <2>1, <3>1 DEF webVars, WebInv, WebTyped, AttemptsHaveRows, RowsBelong, EachAccounted, Accounted, Pending
  <2>2. CASE W!Next
    <3>1. CASE \E d \in Rows : W!Dispatches(d)
      BY <3>1, DispatchKeepsWeb
    <3>2. CASE \E w \in W!Workers : W!Attempt(w) \/ W!Lists(w) \/ W!Takes(w) \/ W!Stops(w)
      BY <3>2, AttemptKeepsWeb, SweepingKeepsWeb, StoppingKeepsWeb
    <3>3. CASE (\E d \in Rows : W!Elapses(d)) \/ (\E b \in BOOLEAN : W!Edits(b)) \/ W!Removes
      BY <3>3, RowsAndEditsKeepWeb
    <3> QED BY <2>2, <3>1, <3>2, <3>3 DEF W!Next, W!Sweep, W!Workers
  <2> QED BY <2>1, <2>2, StepsOnePart
<1>3. WebInv => BudgetHolds
  <2>1. ASSUME WebInv, NEW d \in Rows, row[d].made
        PROVE  sent[d] <= MaxAttempts + slack[d] + Cardinality(W!Unsaved(d))
    <3>1. PICK a \in Nat : Accounted(d, a)
      BY <2>1 DEF WebInv, EachAccounted
    <3> QED BY <2>1, <3>1, LimitsAreNatural, UnsavedAreCounted DEF Accounted, WebInv, WebTyped
  <2> QED BY <2>1, SameCardinality DEF BudgetHolds, W!BudgetHolds
<1> QED BY <1>1, <1>2, <1>3, PTL DEF AllSpec

-------------------------------------------------------------------------------
(* Backups and the drills that restore them.                                     *)

Statuses == {"running", "failed", "completed", "verified", "unrestorable"}
BackupsTyped ==
  /\ live \in Nat
  /\ record \in [Ids -> {Nil} \cup [status : Statuses, expired : BOOLEAN]]
  /\ archive \in [Ids -> {Nil} \cup [rows : Nat, rotten : BOOLEAN]]
  /\ taking \in [Ids -> [pc : {"none", "dump", "store", "complete"}, rows : Nat]]
  /\ drill \in [Drills -> [pc : {"none", "fetch", "createdb", "restore", "write", "drop"}, id : Ids \cup {Nil},
                           name : Names \cup {Nil}, rows : Nat, before : Nat,
                           created : BOOLEAN, passed : BOOLEAN]]
  /\ \A b \in Ids : taking[b].pc = "none" => taking[b] = B!NotTaken
Kept(b) == archive[b] # Nil \/ b \in gone
Running(b) == record[b] # Nil /\ record[b].status = "running" /\ ~record[b].expired
\* Who is taken has a running record, and neither a prune nor a drill is at it.
TakenIsRunning ==
  \A b \in Ids : taking[b].pc # "none" =>
    /\ Running(b)
    /\ <<b, "archive">> \notin pruning /\ <<b, "record">> \notin pruning
    /\ \A d \in Drills : drill[d].id # b
PrunedIsExpired ==
  /\ \A b \in Ids : record[b] # Nil /\ record[b].expired => record[b].status # "running"
  /\ \A b \in Ids : <<b, "archive">> \in pruning =>
       record[b] # Nil /\ record[b].expired /\ <<b, "record">> \notin pruning
  /\ \A b \in Ids : <<b, "record">> \in pruning => b \in gone
\* What a drill found in the store is there, or was pruned since.
DrilledIsKept ==
  \A d \in Drills :
    /\ drill[d].pc # "none" => drill[d].id \in Ids
    /\ drill[d].id \in Ids => record[drill[d].id] # Nil \/ drill[d].id \in gone
    /\ drill[d].pc \in {"createdb", "restore"} \/ drill[d].passed => drill[d].id \in Ids /\ Kept(drill[d].id)
CompletedIsKept == \A b \in Ids : taking[b].pc = "complete" => Kept(b)
\* A database has one maker, and a drill that made one has it until it drops it.
ScratchIsOwned ==
  /\ \A s, t \in scratch : s.name = t.name => s = t
  /\ \A d \in Drills : drill[d].created => [name |-> drill[d].name, by |-> d] \in scratch
  /\ \A d \in Drills : drill[d].pc = "restore" => drill[d].created
StoreInv == BackupsTyped /\ TakenIsRunning /\ PrunedIsExpired /\ DrilledIsKept /\ CompletedIsKept /\ B!CompleteIsStored
BackupInv == StoreInv /\ ScratchIsOwned

Recorded == [status : Statuses, expired : BOOLEAN]
Archived == [rows : Nat, rotten : BOOLEAN]
LEMMA NilIsNoBackup == Nil \notin Recorded /\ Nil \notin Archived /\ Nil \notin Ids
BY NilIsNothing DEF Recorded, Archived, Statuses

\* What is written over a backup's record, or its archive, keeps the types.
LEMMA WritesRecord ==
  ASSUME BackupsTyped, NEW b \in Ids, NEW r \in Recorded, record' = [record EXCEPT ![b] = r]
  PROVE  /\ record' \in [Ids -> {Nil} \cup Recorded]
         /\ record'[b] = r /\ r # Nil /\ \A c \in Ids \ {b} : record'[c] = record[c]
BY NilIsNoBackup DEF BackupsTyped, Recorded
LEMMA WritesArchive ==
  ASSUME BackupsTyped, NEW b \in Ids, NEW a \in Archived, archive' = [archive EXCEPT ![b] = a]
  PROVE  /\ archive' \in [Ids -> {Nil} \cup Archived]
         /\ archive'[b] = a /\ a # Nil /\ \A c \in Ids \ {b} : archive'[c] = archive[c]
BY NilIsNoBackup DEF BackupsTyped, Archived

LEMMA BackupInit == B!Init => BackupInv
<1> SUFFICES ASSUME B!Init PROVE BackupInv
  OBVIOUS
<1>1. /\ B!NotTaken \in [pc : {"none"}, rows : Nat]
      /\ B!NoDrill \in [pc : {"none"}, id : {Nil}, name : {Nil}, rows : Nat, before : Nat,
                        created : {FALSE}, passed : {FALSE}]
  BY DEF B!NotTaken, B!NoDrill
<1>2. BackupsTyped
  BY <1>1 DEF B!Init, BackupsTyped
<1>3. /\ pruning = {} /\ scratch = {} /\ record = [b \in Ids |-> Nil]
      /\ \A b \in Ids : taking[b].pc = "none"
      /\ \A d \in Drills : /\ drill[d].pc = "none" /\ drill[d].id = Nil
                          /\ ~drill[d].passed /\ ~drill[d].created
  BY <1>1 DEF B!Init
<1>4. TakenIsRunning /\ PrunedIsExpired /\ CompletedIsKept /\ B!CompleteIsStored
  BY <1>3 DEF TakenIsRunning, PrunedIsExpired, CompletedIsKept, B!CompleteIsStored
<1>5. DrilledIsKept /\ ScratchIsOwned
  BY <1>3, NilIsNoBackup DEF DrilledIsKept, ScratchIsOwned
<1> QED BY <1>2, <1>4, <1>5 DEF BackupInv, StoreInv

\* create: the row, the dump, the store, the status.
LEMMA TakingKeepsStore ==
  ASSUME StoreInv, NEW b \in Ids,
         B!Begins(b) \/ B!Dumps(b) \/ B!Stores(b) \/ B!Completes(b) \/ B!Fails(b)
  PROVE  StoreInv'
<1>0. B!NotTaken \in [pc : {"none"}, rows : Nat]
  BY DEF B!NotTaken
<1>1. CASE B!Begins(b)
  <2>1. /\ BackupsTyped' /\ UNCHANGED <<archive, drill, gone, pruning>>
        /\ record[b] = Nil /\ b \notin gone
        /\ record'[b] # Nil /\ record'[b].status = "running" /\ ~record'[b].expired
        /\ taking'[b].pc = "dump"
        /\ \A c \in Ids \ {b} : record'[c] = record[c] /\ taking'[c] = taking[c]
    <3> DEFINE r == [status |-> "running", expired |-> FALSE]
    <3>1. r \in Recorded /\ r.status = "running" /\ ~r.expired
      BY DEF Recorded, Statuses
    <3>2. record' = [record EXCEPT ![b] = r]
      BY <1>1 DEF B!Begins
    <3> HIDE DEF r
    <3>3. record' \in [Ids -> {Nil} \cup Recorded] /\ record'[b] # Nil /\ record'[b].status = "running"
          /\ ~record'[b].expired /\ \A c \in Ids \ {b} : record'[c] = record[c]
      BY <3>1, <3>2, WritesRecord DEF StoreInv
    <3>4. /\ taking' \in [Ids -> [pc : {"none", "dump", "store", "complete"}, rows : Nat]]
          /\ taking'[b].pc = "dump" /\ \A c \in Ids \ {b} : taking'[c] = taking[c]
      BY <1>1 DEF B!Begins, StoreInv, BackupsTyped
    <3>5. UNCHANGED <<live, archive, drill, gone, pruning>> /\ record[b] = Nil /\ b \notin gone
      BY <1>1 DEF B!Begins
    <3> QED BY <3>3, <3>4, <3>5 DEF StoreInv, BackupsTyped, Recorded
  <2>2. \A d \in Drills : drill[d].id # b
    BY <2>1 DEF StoreInv, DrilledIsKept
  <2>3. <<b, "archive">> \notin pruning /\ <<b, "record">> \notin pruning
    BY <2>1 DEF StoreInv, PrunedIsExpired
  <2>4. TakenIsRunning'
    BY <2>1, <2>2, <2>3 DEF StoreInv, TakenIsRunning, Running
  <2>5. PrunedIsExpired'
    BY <2>1, <2>3 DEF StoreInv, PrunedIsExpired
  <2>6. DrilledIsKept'
    BY <2>1, <2>2 DEF StoreInv, DrilledIsKept, Kept
  <2>7. CompletedIsKept' /\ B!CompleteIsStored'
    BY <2>1, <2>2 DEF StoreInv, CompletedIsKept, B!CompleteIsStored, Kept
  <2> QED BY <2>1, <2>4, <2>5, <2>6, <2>7 DEF StoreInv
<1>2. CASE B!Dumps(b)
  <2>1. /\ UNCHANGED <<record, archive, drill, gone, pruning, live>> /\ taking[b].pc = "dump"
        /\ taking' = [taking EXCEPT ![b] = [pc |-> "store", rows |-> live]]
    BY <1>2 DEF B!Dumps, B!Takes, B!AfterStep
  <2>2. BackupsTyped' /\ taking'[b].pc = "store" /\ \A c \in Ids \ {b} : taking'[c] = taking[c]
    BY <2>1 DEF StoreInv, BackupsTyped
  <2>3. TakenIsRunning'
    BY <2>1, <2>2 DEF StoreInv, TakenIsRunning, Running
  <2>4. PrunedIsExpired' /\ DrilledIsKept' /\ B!CompleteIsStored'
    BY <2>1 DEF StoreInv, PrunedIsExpired, DrilledIsKept, B!CompleteIsStored, Kept
  <2>5. CompletedIsKept'
    BY <2>1, <2>2 DEF StoreInv, CompletedIsKept, Kept
  <2> QED BY <2>2, <2>3, <2>4, <2>5 DEF StoreInv
<1>3. CASE B!Stores(b)
  <2>1. /\ UNCHANGED <<record, drill, gone, pruning, live>> /\ taking[b].pc = "store"
        /\ taking' = [taking EXCEPT ![b] = [pc |-> "complete", rows |-> taking[b].rows]]
        /\ archive' = [archive EXCEPT ![b] = [rows |-> taking[b].rows, rotten |-> FALSE]]
    BY <1>3 DEF B!Stores, B!Takes, B!AfterStep, StoreInv, BackupsTyped
  <2>2. /\ BackupsTyped' /\ taking'[b].pc = "complete" /\ archive'[b] # Nil
        /\ \A c \in Ids \ {b} : taking'[c] = taking[c] /\ archive'[c] = archive[c]
    <3> DEFINE a == [rows |-> taking[b].rows, rotten |-> FALSE]
    <3>1. a \in Archived
      BY DEF Archived, StoreInv, BackupsTyped
    <3> HIDE DEF a
    <3>2. archive' \in [Ids -> {Nil} \cup Archived] /\ archive'[b] # Nil
          /\ \A c \in Ids \ {b} : archive'[c] = archive[c]
      BY <2>1, <3>1, WritesArchive DEF StoreInv, a
    <3>3. /\ taking' \in [Ids -> [pc : {"none", "dump", "store", "complete"}, rows : Nat]]
          /\ taking'[b].pc = "complete" /\ \A c \in Ids \ {b} : taking'[c] = taking[c]
      BY <2>1 DEF StoreInv, BackupsTyped
    <3> QED BY <2>1, <3>2, <3>3 DEF StoreInv, BackupsTyped, Archived
  <2>3. TakenIsRunning'
    BY <2>1, <2>2 DEF StoreInv, TakenIsRunning, Running
  <2>4. \A c \in Ids : Kept(c) => Kept(c)'
    BY <2>1, <2>2 DEF Kept
  <2>5. PrunedIsExpired' /\ DrilledIsKept' /\ B!CompleteIsStored'
    BY <2>1, <2>4 DEF StoreInv, PrunedIsExpired, DrilledIsKept, B!CompleteIsStored, Kept
  <2>6. CompletedIsKept'
    BY <2>1, <2>2, <2>4 DEF StoreInv, CompletedIsKept, Kept
  <2> QED BY <2>2, <2>3, <2>5, <2>6 DEF StoreInv
<1>4. ASSUME NEW s \in {"completed", "failed"}, record[b] # Nil, taking[b].pc # "none",
             UNCHANGED <<archive, drill, gone, pruning, live>>,
             taking' = [taking EXCEPT ![b] = B!NotTaken], record' = [record EXCEPT ![b].status = s],
             s = "completed" => Kept(b)
      PROVE  StoreInv'
  <2>1. /\ BackupsTyped' /\ taking'[b].pc = "none" /\ record'[b] # Nil /\ record'[b].status = s
        /\ record'[b].expired = record[b].expired
        /\ \A c \in Ids \ {b} : taking'[c] = taking[c] /\ record'[c] = record[c]
    BY <1>0, <1>4, NilIsNothing DEF StoreInv, BackupsTyped, Statuses
  <2>2. TakenIsRunning'
    BY <1>4, <2>1 DEF StoreInv, TakenIsRunning, Running
  <2>3. PrunedIsExpired'
    BY <1>4, <2>1 DEF StoreInv, PrunedIsExpired
  <2>4. DrilledIsKept'
    BY <1>4, <2>1 DEF StoreInv, DrilledIsKept, Kept
  <2>5. CompletedIsKept' /\ B!CompleteIsStored'
    BY <1>4, <2>1 DEF StoreInv, CompletedIsKept, B!CompleteIsStored, Kept
  <2> QED BY <2>1, <2>2, <2>3, <2>4, <2>5 DEF StoreInv
<1>5. CASE B!Completes(b)
  <2>1. taking[b].pc = "complete" /\ record[b] # Nil /\ Kept(b)
    BY <1>5 DEF B!Completes, B!Takes, StoreInv, TakenIsRunning, Running, CompletedIsKept
  <2> QED BY <1>4, <1>5, <2>1 DEF B!Completes, B!Takes, B!AfterStep
<1>6. CASE B!Fails(b)
  <2>1. taking[b].pc # "none"
    BY <1>6 DEF B!Fails, StoreInv, BackupsTyped
  <2>2. record[b] # Nil
    BY <2>1 DEF StoreInv, TakenIsRunning, Running
  <2> QED BY <1>4, <1>6, <2>1, <2>2 DEF B!Fails
<1> QED BY <1>1, <1>2, <1>3, <1>5, <1>6

\* prune, and what happens to records and archives beside it.
LEMMA PruningKeepsStore ==
  ASSUME StoreInv,
         B!Traffic \/ B!FindsExpired \/ B!Dies
           \/ \E b \in Ids : B!Rots(b) \/ B!Expires(b) \/ B!DeletesArchive(b) \/ B!DeletesRecord(b)
  PROVE  StoreInv'
<1>1. CASE B!Traffic
  BY <1>1 DEF B!Traffic, StoreInv, BackupsTyped, TakenIsRunning, Running, PrunedIsExpired, DrilledIsKept,
     CompletedIsKept, B!CompleteIsStored, Kept
<1>2. CASE B!FindsExpired
  <2>1. UNCHANGED <<live, record, archive, taking, drill, gone>>
        /\ \A b \in Ids : /\ <<b, "archive">> \in pruning' => record[b] # Nil /\ record[b].expired
                         /\ <<b, "record">> \notin pruning'
    BY <1>2 DEF B!FindsExpired
  <2>2. TakenIsRunning' /\ PrunedIsExpired'
    BY <2>1 DEF StoreInv, TakenIsRunning, Running, PrunedIsExpired
  <2>3. BackupsTyped' /\ DrilledIsKept' /\ CompletedIsKept' /\ B!CompleteIsStored'
    BY <2>1 DEF StoreInv, BackupsTyped, DrilledIsKept, CompletedIsKept, B!CompleteIsStored, Kept
  <2> QED BY <2>2, <2>3 DEF StoreInv
<1>3. CASE B!Dies
  <2>1. /\ B!NotTaken \in [pc : {"none"}, rows : Nat]
        /\ B!NoDrill \in [pc : {"none"}, id : {Nil}, name : {Nil}, rows : Nat, before : Nat,
                          created : {FALSE}, passed : {FALSE}]
    BY DEF B!NotTaken, B!NoDrill
  <2>2. /\ UNCHANGED <<live, record, archive, gone>> /\ pruning' = {}
        /\ \A b \in Ids : taking'[b].pc = "none"
        /\ \A d \in Drills : drill'[d].pc = "none" /\ drill'[d].id = Nil /\ ~drill'[d].passed
    BY <1>3, <2>1 DEF B!Dies
  <2>3. BackupsTyped'
    BY <1>3, <2>1 DEF B!Dies, StoreInv, BackupsTyped
  <2>4. TakenIsRunning' /\ PrunedIsExpired' /\ CompletedIsKept' /\ B!CompleteIsStored'
    BY <2>2 DEF StoreInv, TakenIsRunning, PrunedIsExpired, CompletedIsKept, B!CompleteIsStored
  <2>5. DrilledIsKept'
    BY <2>2, NilIsNothing DEF DrilledIsKept
  <2> QED BY <2>3, <2>4, <2>5 DEF StoreInv
<1>4. ASSUME NEW b \in Ids, B!Rots(b) PROVE StoreInv'
  <2>1. BackupsTyped' /\ UNCHANGED <<live, record, taking, drill, pruning, gone>>
        /\ \A c \in Ids : archive[c] # Nil => archive'[c] # Nil
    <3> DEFINE a == [archive[b] EXCEPT !.rotten = TRUE]
    <3>1. a \in Archived /\ archive' = [archive EXCEPT ![b] = a]
      <4>1. archive[b] \in Archived
        BY <1>4 DEF B!Rots, Archived, StoreInv, BackupsTyped
      <4>2. archive' = [archive EXCEPT ![b] = a]
        BY <1>4 DEF B!Rots
      <4> QED BY <4>1, <4>2 DEF Archived
    <3> HIDE DEF a
    <3>2. archive' \in [Ids -> {Nil} \cup Archived] /\ archive'[b] # Nil
          /\ \A c \in Ids \ {b} : archive'[c] = archive[c]
      BY <3>1, WritesArchive DEF StoreInv
    <3>3. UNCHANGED <<live, record, taking, drill, pruning, gone>>
      BY <1>4 DEF B!Rots
    <3> QED BY <3>2, <3>3 DEF StoreInv, BackupsTyped, Archived
  <2>2. \A c \in Ids : Kept(c) => Kept(c)'
    BY <2>1 DEF Kept
  <2> QED BY <2>1, <2>2 DEF StoreInv, TakenIsRunning, Running, PrunedIsExpired, DrilledIsKept, CompletedIsKept,
     B!CompleteIsStored, Kept
<1>5. ASSUME NEW b \in Ids, B!Expires(b) PROVE StoreInv'
  <2>1. /\ BackupsTyped' /\ UNCHANGED <<live, archive, taking, drill, pruning, gone>>
        /\ record[b] # Nil /\ record[b].status # "running"
        /\ record'[b] # Nil /\ record'[b].status = record[b].status /\ record'[b].expired
        /\ \A c \in Ids \ {b} : record'[c] = record[c]
    <3> DEFINE r == [record[b] EXCEPT !.expired = TRUE]
    <3>1. /\ r \in Recorded /\ record' = [record EXCEPT ![b] = r] /\ r.status = record[b].status /\ r.expired
      <4>1. record[b] \in Recorded
        BY <1>5 DEF B!Expires, Recorded, StoreInv, BackupsTyped
      <4>2. record' = [record EXCEPT ![b] = r]
        BY <1>5 DEF B!Expires
      <4> QED BY <4>1, <4>2 DEF Recorded
    <3> HIDE DEF r
    <3>2. record' \in [Ids -> {Nil} \cup Recorded] /\ record'[b] = r /\ r # Nil
          /\ \A c \in Ids \ {b} : record'[c] = record[c]
      BY <3>1, WritesRecord DEF StoreInv
    <3>3. /\ UNCHANGED <<live, archive, taking, drill, pruning, gone>>
          /\ record[b] # Nil /\ record[b].status # "running"
      BY <1>5 DEF B!Expires
    <3> QED BY <3>1, <3>2, <3>3 DEF StoreInv, BackupsTyped, Recorded
  <2>2. TakenIsRunning' /\ PrunedIsExpired'
    BY <2>1 DEF StoreInv, TakenIsRunning, Running, PrunedIsExpired
  <2>3. DrilledIsKept'
    BY <2>1 DEF StoreInv, DrilledIsKept, Kept
  <2>4. CompletedIsKept' /\ B!CompleteIsStored'
    BY <2>1 DEF StoreInv, CompletedIsKept, B!CompleteIsStored, Kept
  <2> QED BY <2>1, <2>2, <2>3, <2>4 DEF StoreInv
<1>6. ASSUME NEW b \in Ids, B!DeletesArchive(b) PROVE StoreInv'
  <2>1. /\ gone' = gone \cup {b} /\ UNCHANGED <<record, taking, drill, live>>
        /\ archive' = [archive EXCEPT ![b] = Nil] /\ <<b, "archive">> \in pruning
        /\ \A c \in Ids : (<<c, "archive">> \in pruning' <=> <<c, "archive">> \in pruning /\ c # b)
                         /\ (<<c, "record">> \in pruning' <=> <<c, "record">> \in pruning \/ c = b)
    BY <1>6 DEF B!DeletesArchive
  <2>2. BackupsTyped' /\ \A c \in Ids \ {b} : archive'[c] = archive[c]
    BY <2>1 DEF StoreInv, BackupsTyped
  <2>3. \A c \in Ids : Kept(c) => Kept(c)'
    BY <2>1, <2>2 DEF Kept
  <2>4. TakenIsRunning'
    BY <2>1 DEF StoreInv, TakenIsRunning, Running
  <2>5. PrunedIsExpired'
    BY <2>1 DEF StoreInv, PrunedIsExpired
  <2>6. DrilledIsKept' /\ CompletedIsKept' /\ B!CompleteIsStored'
    BY <2>1, <2>3 DEF StoreInv, DrilledIsKept, CompletedIsKept, B!CompleteIsStored, Kept
  <2> QED BY <2>2, <2>4, <2>5, <2>6 DEF StoreInv
<1>7. ASSUME NEW b \in Ids, B!DeletesRecord(b) PROVE StoreInv'
  <2>1. /\ UNCHANGED <<archive, gone, taking, drill, live>> /\ b \in gone
        /\ record' = [record EXCEPT ![b] = Nil] /\ <<b, "record">> \in pruning
        /\ \A c \in Ids : (<<c, "archive">> \in pruning' <=> <<c, "archive">> \in pruning)
                         /\ (<<c, "record">> \in pruning' <=> <<c, "record">> \in pruning /\ c # b)
    BY <1>7 DEF B!DeletesRecord, StoreInv, PrunedIsExpired
  <2>2. BackupsTyped' /\ record'[b] = Nil /\ \A c \in Ids \ {b} : record'[c] = record[c]
    BY <2>1 DEF StoreInv, BackupsTyped
  <2>3. TakenIsRunning' /\ PrunedIsExpired'
    BY <2>1, <2>2 DEF StoreInv, TakenIsRunning, Running, PrunedIsExpired
  <2>4. DrilledIsKept'
    BY <2>1, <2>2 DEF StoreInv, DrilledIsKept, Kept
  <2>5. CompletedIsKept' /\ B!CompleteIsStored'
    BY <2>1, <2>2 DEF StoreInv, CompletedIsKept, B!CompleteIsStored, Kept
  <2> QED BY <2>2, <2>3, <2>4, <2>5 DEF StoreInv
<1> QED BY <1>1, <1>2, <1>3, <1>4, <1>5, <1>6, <1>7

DrillRow == [pc : {"none", "fetch", "createdb", "restore", "write", "drop"}, id : Ids \cup {Nil},
             name : Names \cup {Nil}, rows : Nat, before : Nat, created : BOOLEAN, passed : BOOLEAN]
\* A step of a drill that writes no record.
LEMMA DrillStepKeepsStore ==
  ASSUME StoreInv, NEW d \in Drills, NEW t \in DrillRow, drill' = [drill EXCEPT ![d] = t],
         UNCHANGED <<live, record, archive, taking, pruning, gone>>,
         t.pc # "none" => t.id \in Ids,
         t.id \in Ids => record[t.id] # Nil \/ t.id \in gone,
         t.id \in Ids => taking[t.id].pc = "none",
         t.pc \in {"createdb", "restore"} \/ t.passed => t.id \in Ids /\ Kept(t.id)
  PROVE  StoreInv'
<1>1. BackupsTyped' /\ drill'[d] = t /\ \A e \in Drills \ {d} : drill'[e] = drill[e]
  BY DEF StoreInv, BackupsTyped, DrillRow
<1>2. TakenIsRunning'
  BY <1>1 DEF StoreInv, TakenIsRunning, Running
<1>3. PrunedIsExpired' /\ CompletedIsKept' /\ B!CompleteIsStored'
  BY DEF StoreInv, PrunedIsExpired, CompletedIsKept, B!CompleteIsStored, Kept
<1>4. DrilledIsKept'
  BY <1>1 DEF StoreInv, DrilledIsKept, Kept
<1> QED BY <1>1, <1>2, <1>3, <1>4 DEF StoreInv

LEMMA DrillsKeepStore ==
  ASSUME StoreInv, NEW d \in Drills,
         B!StartsDrill(d) \/ B!Fetches(d) \/ B!CreatesDatabase(d) \/ B!Restores(d)
           \/ B!WritesVerdict(d) \/ B!DropsDatabase(d)
  PROVE  StoreInv'
<1>0. drill[d] \in DrillRow /\ live \in Nat
  BY DEF StoreInv, BackupsTyped, DrillRow
<1>n. B!NoDrill \in DrillRow /\ B!NoDrill.pc = "none" /\ B!NoDrill.id = Nil /\ B!NoDrill.passed = FALSE
  BY DEF B!NoDrill, DrillRow
<1>i. drill[d].pc # "none" => /\ drill[d].id \in Ids
                              /\ record[drill[d].id] # Nil \/ drill[d].id \in gone
                              /\ taking[drill[d].id].pc = "none"
  BY DEF StoreInv, DrilledIsKept, TakenIsRunning
<1>k. drill[d].pc \in {"createdb", "restore"} \/ drill[d].passed => drill[d].id \in Ids /\ Kept(drill[d].id)
  BY DEF StoreInv, DrilledIsKept
<1>1. CASE B!StartsDrill(d)
  <2>1. PICK b \in Ids, n \in Names :
          /\ record[b] # Nil /\ record[b].status # "running"
          /\ drill' = [drill EXCEPT ![d] = [B!NoDrill EXCEPT !.pc = "fetch", !.id = b, !.name = n]]
    BY <1>1 DEF B!StartsDrill
  <2> DEFINE t == [B!NoDrill EXCEPT !.pc = "fetch", !.id = b, !.name = n]
  <2>2. t \in DrillRow /\ t.pc = "fetch" /\ t.id = b /\ ~t.passed
    BY <1>n DEF DrillRow
  <2>3. taking[b].pc = "none"
    BY <2>1 DEF StoreInv, TakenIsRunning, Running
  <2>4. UNCHANGED <<live, record, archive, taking, pruning, gone>>
    BY <1>1 DEF B!StartsDrill
  <2> HIDE DEF t
  <2> QED BY <2>1, <2>2, <2>3, <2>4, DrillStepKeepsStore DEF t
<1>2. CASE B!Fetches(d)
  <2> DEFINE fail == [drill[d] EXCEPT !.pc = "write", !.passed = FALSE]
             go == [drill[d] EXCEPT !.pc = "createdb", !.rows = archive[drill[d].id].rows]
  <2>1. drill[d].pc = "fetch" /\ UNCHANGED <<live, record, archive, taking, pruning, gone>>
    BY <1>2 DEF B!Fetches
  <2>2. \/ drill' = [drill EXCEPT ![d] = fail]
        \/ drill' = [drill EXCEPT ![d] = go] /\ archive[drill[d].id] # Nil
    BY <1>2 DEF B!Fetches, B!Judges
  <2>3. fail \in DrillRow /\ fail.pc = "write" /\ fail.id = drill[d].id /\ ~fail.passed
    BY <1>0 DEF DrillRow
  <2>4. archive[drill[d].id] # Nil =>
          go \in DrillRow /\ go.pc = "createdb" /\ go.id = drill[d].id /\ go.passed = drill[d].passed
    <3>1. archive[drill[d].id] # Nil => archive[drill[d].id].rows \in Nat
      BY <1>i, <2>1 DEF StoreInv, BackupsTyped
    <3> QED BY <1>0, <3>1 DEF DrillRow
  <2> HIDE DEF fail, go
  <2>5. CASE drill' = [drill EXCEPT ![d] = fail]
    BY <1>i, <2>1, <2>3, <2>5, DrillStepKeepsStore
  <2>6. CASE drill' = [drill EXCEPT ![d] = go] /\ archive[drill[d].id] # Nil
    BY <1>i, <2>1, <2>4, <2>6, DrillStepKeepsStore DEF Kept
  <2> QED BY <2>2, <2>5, <2>6
<1>3. CASE B!CreatesDatabase(d)
  <2> DEFINE taken == \E s \in scratch : s.name = drill[d].name
  <2>1. PICK t : /\ drill' = [drill EXCEPT ![d] = t]
                 /\ t = [(IF taken THEN [drill[d] EXCEPT !.pc = "write", !.passed = FALSE]
                          ELSE [drill[d] EXCEPT !.pc = "restore"])
                         EXCEPT !.created = ~taken, !.before = live]
    BY <1>3, Zenon DEF B!CreatesDatabase, B!Judges, B!Owns
  <2>2. drill[d].pc = "createdb" /\ UNCHANGED <<live, record, archive, taking, pruning, gone>>
    BY <1>3 DEF B!CreatesDatabase
  <2>3. taken \in BOOLEAN
    OBVIOUS
  <2> HIDE DEF taken
  <2>4. t \in DrillRow /\ t.id = drill[d].id /\ t.pc \in {"write", "restore"} /\ (t.passed => drill[d].passed)
    BY <1>0, <2>1, <2>3 DEF DrillRow
  <2> QED BY <1>i, <1>k, <2>1, <2>2, <2>4, DrillStepKeepsStore
<1>4. CASE B!Restores(d)
  <2>1. PICK ok \in BOOLEAN : drill' = [drill EXCEPT ![d] = [drill[d] EXCEPT !.pc = "write", !.passed = ok]]
    BY <1>4, Zenon DEF B!Restores, B!Judges
  <2> DEFINE t == [drill[d] EXCEPT !.pc = "write", !.passed = ok]
  <2>2. drill[d].pc = "restore" /\ UNCHANGED <<live, record, archive, taking, pruning, gone>>
    BY <1>4 DEF B!Restores
  <2>3. t \in DrillRow /\ t.id = drill[d].id /\ t.pc = "write"
    BY <1>0 DEF DrillRow
  <2> HIDE DEF t
  <2> QED BY <1>i, <1>k, <2>1, <2>2, <2>3, DrillStepKeepsStore DEF t
<1>6. CASE B!DropsDatabase(d)
  <2>1. UNCHANGED <<live, record, archive, taking, pruning, gone>> /\ drill' = [drill EXCEPT ![d] = B!NoDrill]
    BY <1>6 DEF B!DropsDatabase
  <2> QED BY <1>n, <2>1, NilIsNoBackup, DrillStepKeepsStore
<1>5. CASE B!WritesVerdict(d)
  <2>1. PICK b \in Ids : /\ b = drill[d].id /\ taking[b].pc = "none" /\ (record[b] # Nil \/ b \in gone)
                         /\ drill[d].passed => Kept(b)
    BY <1>5, <1>i, <1>k DEF B!WritesVerdict
  <2> DEFINE t == [drill[d] EXCEPT !.pc = "drop"]
             verdict == IF drill[d].passed THEN "verified" ELSE "unrestorable"
             r == [record[b] EXCEPT !.status = verdict]
  <2>2. /\ drill' = [drill EXCEPT ![d] = t] /\ UNCHANGED <<live, archive, taking, pruning, gone>>
        /\ record' = IF record[b] = Nil THEN record ELSE [record EXCEPT ![b] = r]
    <3>2. /\ drill' = [drill EXCEPT ![d] = t] /\ UNCHANGED <<live, archive, taking, pruning, gone>>
      BY <1>5 DEF B!WritesVerdict
    <3>3. record' = IF record[drill[d].id] = Nil THEN record
                    ELSE [record EXCEPT ![drill[d].id].status = IF drill[d].passed THEN "verified" ELSE "unrestorable"]
      BY <1>5 DEF B!WritesVerdict
    <3>4. record' = IF record[b] = Nil THEN record
                    ELSE [record EXCEPT ![b].status = IF drill[d].passed THEN "verified" ELSE "unrestorable"]
      BY <2>1, <3>3, Zenon
    <3> QED BY <3>2, <3>4
  <2>3. t \in DrillRow /\ t.id = b /\ t.pc = "drop" /\ t.passed = drill[d].passed
    <3>1. t \in DrillRow /\ t.id = drill[d].id /\ t.pc = "drop" /\ t.passed = drill[d].passed
      BY <1>0 DEF DrillRow
    <3> QED BY <2>1, <3>1
  <2>4. record[b] # Nil => r \in Recorded /\ r.status = verdict /\ r.expired = record[b].expired
    <3>1. record[b] # Nil => record[b] \in Recorded
      BY DEF StoreInv, BackupsTyped, Recorded
    <3> QED BY <3>1 DEF Recorded, Statuses
  <2>5. verdict \in {"verified", "unrestorable"} /\ (verdict = "verified" => Kept(b))
    BY <2>1
  <2> HIDE DEF t, r, verdict
  <2>6. /\ record' \in [Ids -> {Nil} \cup Recorded]
        /\ record'[b] # Nil <=> record[b] # Nil
        /\ record[b] # Nil => record'[b].status = verdict /\ record'[b].expired = record[b].expired
        /\ \A c \in Ids \ {b} : record'[c] = record[c]
    <3>1. CASE record[b] = Nil
      BY <2>2, <3>1 DEF StoreInv, BackupsTyped, Recorded
    <3>2. CASE record[b] # Nil
      BY <2>2, <2>4, <3>2, WritesRecord DEF StoreInv
    <3> QED BY <3>1, <3>2
  <2>7. /\ drill' \in [Drills -> DrillRow] /\ drill'[d] = t
        /\ \A e \in Drills \ {d} : drill'[e] = drill[e]
    BY <2>2, <2>3 DEF StoreInv, BackupsTyped, DrillRow
  <2>8. BackupsTyped'
    BY <2>2, <2>6, <2>7 DEF StoreInv, BackupsTyped, DrillRow, Recorded
  <2>9. TakenIsRunning'
    BY <2>1, <2>2, <2>3, <2>6, <2>7 DEF StoreInv, TakenIsRunning, Running
  <2>10. PrunedIsExpired'
    BY <2>2, <2>5, <2>6 DEF StoreInv, PrunedIsExpired
  <2>11. \A c \in Ids : record'[c] # Nil <=> record[c] # Nil
    BY <2>6
  <2>12. DrilledIsKept'
    BY <2>1, <2>2, <2>3, <2>7, <2>11 DEF StoreInv, DrilledIsKept, Kept
  <2>13. CompletedIsKept' /\ B!CompleteIsStored'
    BY <2>2, <2>5, <2>6 DEF StoreInv, CompletedIsKept, B!CompleteIsStored, Kept
  <2> QED BY <2>8, <2>9, <2>10, <2>12, <2>13 DEF StoreInv
<1> QED BY <1>1, <1>2, <1>3, <1>4, <1>5, <1>6

\* A step of a drill that makes and drops no database.
LEMMA DrillStepKeepsScratch ==
  ASSUME StoreInv, ScratchIsOwned, NEW d \in Drills, NEW t \in DrillRow, drill' = [drill EXCEPT ![d] = t],
         UNCHANGED scratch,
         t.created => drill[d].created /\ t.name = drill[d].name,
         t.pc = "restore" => t.created
  PROVE  ScratchIsOwned'
<1>1. drill'[d] = t /\ \A e \in Drills \ {d} : drill'[e] = drill[e]
  BY DEF StoreInv, BackupsTyped
<1> QED BY <1>1 DEF ScratchIsOwned

LEMMA DrillsKeepScratch ==
  ASSUME StoreInv, ScratchIsOwned, NEW d \in Drills,
         B!StartsDrill(d) \/ B!Fetches(d) \/ B!CreatesDatabase(d) \/ B!Restores(d)
           \/ B!WritesVerdict(d) \/ B!DropsDatabase(d)
  PROVE  ScratchIsOwned'
<1>0. drill[d] \in DrillRow /\ live \in Nat /\ drill[d].created \in BOOLEAN
  BY DEF StoreInv, BackupsTyped, DrillRow
<1>n. B!NoDrill \in DrillRow /\ B!NoDrill.pc = "none" /\ B!NoDrill.created = FALSE
  BY DEF B!NoDrill, DrillRow
<1>1. CASE B!StartsDrill(d)
  <2>1. PICK b \in Ids, n \in Names :
          drill' = [drill EXCEPT ![d] = [B!NoDrill EXCEPT !.pc = "fetch", !.id = b, !.name = n]]
    BY <1>1 DEF B!StartsDrill
  <2> DEFINE t == [B!NoDrill EXCEPT !.pc = "fetch", !.id = b, !.name = n]
  <2>2. t \in DrillRow /\ t.pc = "fetch" /\ t.created = FALSE
    BY <1>n DEF DrillRow
  <2>3. UNCHANGED scratch
    BY <1>1 DEF B!StartsDrill
  <2> HIDE DEF t
  <2> QED BY <2>1, <2>2, <2>3, DrillStepKeepsScratch DEF t
<1>2. CASE B!Fetches(d)
  <2> DEFINE fail == [drill[d] EXCEPT !.pc = "write", !.passed = FALSE]
             go == [drill[d] EXCEPT !.pc = "createdb", !.rows = archive[drill[d].id].rows]
  <2>1. drill[d].pc = "fetch" /\ UNCHANGED scratch
    BY <1>2 DEF B!Fetches
  <2>2. \/ drill' = [drill EXCEPT ![d] = fail]
        \/ drill' = [drill EXCEPT ![d] = go] /\ archive[drill[d].id] # Nil
    BY <1>2 DEF B!Fetches, B!Judges
  <2>3. fail \in DrillRow /\ fail.pc = "write" /\ fail.created = drill[d].created /\ fail.name = drill[d].name
    BY <1>0 DEF DrillRow
  <2>4. archive[drill[d].id] # Nil =>
          go \in DrillRow /\ go.pc = "createdb" /\ go.created = drill[d].created /\ go.name = drill[d].name
    <3>1. archive[drill[d].id] # Nil => archive[drill[d].id].rows \in Nat
      BY <2>1 DEF StoreInv, BackupsTyped, DrilledIsKept
    <3> QED BY <1>0, <3>1 DEF DrillRow
  <2> HIDE DEF fail, go
  <2>5. CASE drill' = [drill EXCEPT ![d] = fail]
    BY <2>1, <2>3, <2>5, DrillStepKeepsScratch
  <2>6. CASE drill' = [drill EXCEPT ![d] = go] /\ archive[drill[d].id] # Nil
    BY <2>1, <2>4, <2>6, DrillStepKeepsScratch
  <2> QED BY <2>2, <2>5, <2>6
<1>3. CASE B!CreatesDatabase(d)
  <2> DEFINE taken == \E s \in scratch : s.name = drill[d].name
  <2>1. PICK t : /\ drill' = [drill EXCEPT ![d] = t]
                 /\ t = [(IF taken THEN [drill[d] EXCEPT !.pc = "write", !.passed = FALSE]
                          ELSE [drill[d] EXCEPT !.pc = "restore"])
                         EXCEPT !.created = ~taken, !.before = live]
    BY <1>3, Zenon DEF B!CreatesDatabase, B!Judges, B!Owns
  <2>2. scratch' = scratch \cup IF taken THEN {} ELSE {[name |-> drill[d].name, by |-> d]}
    BY <1>3, Zenon DEF B!CreatesDatabase
  <2>3. taken \in BOOLEAN
    OBVIOUS
  <2>4. CASE taken
    <3>1. UNCHANGED scratch
      BY <2>2, <2>4
    <3> HIDE DEF taken
    <3>2. t \in DrillRow /\ t.pc = "write" /\ t.created = FALSE
      BY <1>0, <2>1, <2>4 DEF DrillRow
    <3> QED BY <2>1, <3>1, <3>2, DrillStepKeepsScratch
  <2>5. CASE ~taken
    <3>1. /\ scratch' = scratch \cup {[name |-> drill[d].name, by |-> d]}
          /\ \A s \in scratch : s.name # drill[d].name
      BY <2>2, <2>5
    <3> HIDE DEF taken
    <3>2. t \in DrillRow /\ t.created = TRUE /\ t.name = drill[d].name
      BY <1>0, <2>1, <2>5 DEF DrillRow
    <3>3. drill'[d] = t /\ \A e \in Drills \ {d} : drill'[e] = drill[e]
      BY <2>1 DEF StoreInv, BackupsTyped
    <3>4. \A s, u \in scratch' : s.name = u.name => s = u
      <4>1. \A s \in scratch : s # [name |-> drill[d].name, by |-> d]
        BY <3>1
      <4> QED BY <3>1 DEF ScratchIsOwned
    <3> QED BY <3>1, <3>2, <3>3, <3>4 DEF ScratchIsOwned
  <2> QED BY <2>4, <2>5
<1>4. CASE B!Restores(d)
  <2>1. PICK ok \in BOOLEAN : drill' = [drill EXCEPT ![d] = [drill[d] EXCEPT !.pc = "write", !.passed = ok]]
    BY <1>4, Zenon DEF B!Restores, B!Judges
  <2> DEFINE t == [drill[d] EXCEPT !.pc = "write", !.passed = ok]
  <2>2. UNCHANGED scratch
    BY <1>4 DEF B!Restores
  <2>3. t \in DrillRow /\ t.created = drill[d].created /\ t.pc = "write" /\ t.name = drill[d].name
    BY <1>0 DEF DrillRow
  <2> HIDE DEF t
  <2> QED BY <2>1, <2>2, <2>3, DrillStepKeepsScratch DEF t
<1>5. CASE B!WritesVerdict(d)
  <2> DEFINE t == [drill[d] EXCEPT !.pc = "drop"]
  <2>1. drill' = [drill EXCEPT ![d] = t] /\ UNCHANGED scratch
    BY <1>5 DEF B!WritesVerdict
  <2>2. t \in DrillRow /\ t.created = drill[d].created /\ t.pc = "drop" /\ t.name = drill[d].name
    BY <1>0 DEF DrillRow
  <2> HIDE DEF t
  <2> QED BY <2>1, <2>2, DrillStepKeepsScratch
<1>6. CASE B!DropsDatabase(d)
  <2>1. /\ drill' = [drill EXCEPT ![d] = B!NoDrill]
        /\ scratch' = {s \in scratch : ~drill[d].created \/ s.name # drill[d].name}
    BY <1>6 DEF B!DropsDatabase
  <2>2. drill'[d] = B!NoDrill /\ \A e \in Drills \ {d} : drill'[e] = drill[e]
    BY <2>1 DEF StoreInv, BackupsTyped
  <2>3. ASSUME NEW e \in Drills, drill'[e].created PROVE [name |-> drill'[e].name, by |-> e] \in scratch'
    <3>1. e # d /\ drill[e].created /\ drill'[e].name = drill[e].name
      BY <1>n, <2>2, <2>3
    <3>2. [name |-> drill[e].name, by |-> e] \in scratch
      BY <3>1 DEF ScratchIsOwned
    <3>3. ASSUME drill[d].created, drill[e].name = drill[d].name PROVE FALSE
      <4>1. [name |-> drill[d].name, by |-> d] \in scratch
        BY <3>3 DEF ScratchIsOwned
      <4>2. [name |-> drill[d].name, by |-> d] = [name |-> drill[e].name, by |-> e]
        BY <3>2, <3>3, <4>1 DEF ScratchIsOwned
      <4> QED BY <3>1, <4>2
    <3> QED BY <2>1, <3>1, <3>2, <3>3
  <2>4. \A e \in Drills : drill'[e].pc = "restore" => drill'[e].created
    BY <1>n, <2>2 DEF ScratchIsOwned
  <2>5. \A s, u \in scratch' : s.name = u.name => s = u
    BY <2>1 DEF ScratchIsOwned
  <2> QED BY <2>3, <2>4, <2>5 DEF ScratchIsOwned
<1> QED BY <1>1, <1>2, <1>3, <1>4, <1>5, <1>6

LEMMA BackupStep ==
  ASSUME BackupInv, B!Next
  PROVE  BackupInv'
<1>1. CASE \E d \in Drills : \/ B!StartsDrill(d) \/ B!Fetches(d) \/ B!CreatesDatabase(d) \/ B!Restores(d)
                           \/ B!WritesVerdict(d) \/ B!DropsDatabase(d)
  BY <1>1, DrillsKeepStore, DrillsKeepScratch DEF BackupInv
<1>2. CASE \E b \in Ids : B!Begins(b) \/ B!Dumps(b) \/ B!Stores(b) \/ B!Completes(b) \/ B!Fails(b)
  <2>1. StoreInv'
    BY <1>2, TakingKeepsStore DEF BackupInv
  <2>2. UNCHANGED <<drill, scratch>>
    BY <1>2 DEF B!Begins, B!Dumps, B!Stores, B!Completes, B!Fails, B!Takes
  <2> QED BY <2>1, <2>2 DEF BackupInv, ScratchIsOwned
<1>3. CASE B!Traffic \/ B!FindsExpired
             \/ \E b \in Ids : B!Rots(b) \/ B!Expires(b) \/ B!DeletesArchive(b) \/ B!DeletesRecord(b)
  <2>1. StoreInv'
    BY <1>3, PruningKeepsStore DEF BackupInv
  <2>2. UNCHANGED <<drill, scratch>>
    BY <1>3 DEF B!Traffic, B!FindsExpired, B!Rots, B!Expires, B!DeletesArchive, B!DeletesRecord
  <2> QED BY <2>1, <2>2 DEF BackupInv, ScratchIsOwned
<1>4. CASE B!Dies
  <2>1. StoreInv'
    BY <1>4, PruningKeepsStore DEF BackupInv
  <2>2. B!NoDrill.created = FALSE /\ B!NoDrill.pc = "none"
    BY DEF B!NoDrill
  <2>3. UNCHANGED scratch /\ \A d \in Drills : drill'[d] = B!NoDrill
    BY <1>4 DEF B!Dies
  <2> QED BY <2>1, <2>2, <2>3 DEF BackupInv, ScratchIsOwned
<1> QED BY <1>1, <1>2, <1>3, <1>4 DEF B!Next

\* A backup that is called complete is in the store until it is pruned, and no drill drops
\* the database another restores into, whatever dies (backup.service.ts:155-374, 432-460).
THEOREM BackupsHoldTheorem == AllSpec => []BackupsHold
<1>1. AllInit => BackupInv
  BY StartsEveryPart, BackupInit
<1>2. BackupInv /\ [AllNext]_AllVars => BackupInv'
  <2> SUFFICES ASSUME BackupInv, [AllNext]_AllVars PROVE BackupInv'
    OBVIOUS
  <2>1. CASE UNCHANGED backupVars
    BY <2>1 DEF backupVars, BackupInv, StoreInv, BackupsTyped, TakenIsRunning, Running, PrunedIsExpired,
       DrilledIsKept, CompletedIsKept, B!CompleteIsStored, Kept, ScratchIsOwned
  <2>2. CASE B!Next
    BY <2>2, BackupStep
  <2> QED BY <2>1, <2>2, StepsOnePart
<1>3. BackupInv => BackupsHold
  BY DEF BackupInv, StoreInv, ScratchIsOwned, BackupsHold, B!DrillsAreAlone
<1> QED BY <1>1, <1>2, <1>3, PTL DEF AllSpec

-------------------------------------------------------------------------------
(* The link with a CRM.                                                          *)

CrmRow == [setup : Setups, status : {"disconnected", "connected", "error"}, active : BOOLEAN]
CrmJob == [op : {"none", "rename", "connect", "test", "enable", "disable", "sync"},
           pc : {"none", "act", "page", "record", "fill"}, seen : CrmRow \cup {Nil},
           set : Setups \cup {Nil}, page : Nat, fill : BOOLEAN, stale : BOOLEAN]
CrmTyped ==
  /\ crm \in CrmRow
  /\ crmJob \in [Requests -> CrmJob]
  /\ \A r \in Requests : IF crmJob[r].pc = "none" THEN crmJob[r] = I!Idle ELSE crmJob[r].seen \in CrmRow
  /\ \A r \in Requests : crmJob[r].op = "connect" => crmJob[r].set \in Setups
  /\ overtaken \in BOOLEAN
\* A request that no other overtook has the row as it read it.
SeenIsFresh ==
  \A r \in Requests : crmJob[r].pc # "none" => crmJob[r].stale \/ crmJob[r].seen = crm
PagesAreProven ==
  \A r \in Requests : crmJob[r].page > 0 => crmJob[r].seen.setup \in proven
ConnectedIsProven == crm.status = "connected" => crm.setup \in proven \/ overtaken
CrmInv == CrmTyped /\ SeenIsFresh /\ PagesAreProven /\ ConnectedIsProven

LEMMA IdleCrmJob ==
  /\ I!Idle \in CrmJob /\ I!Idle.op = "none" /\ I!Idle.pc = "none" /\ I!Idle.page = 0
  /\ I!Idle.stale = FALSE /\ I!Idle.fill = FALSE
BY DEF I!Idle, CrmJob

LEMMA CrmInit == I!Init => CrmInv
<1> SUFFICES ASSUME I!Init PROVE CrmInv
  OBVIOUS
<1>1. /\ crm \in CrmRow /\ crm.status = "disconnected" /\ overtaken = FALSE
      /\ crmJob = [r \in Requests |-> I!Idle]
  BY DEF I!Init, CrmRow
<1>2. crmJob \in [Requests -> CrmJob] /\ \A r \in Requests : crmJob[r] = I!Idle
  BY <1>1, IdleCrmJob
<1>3. CrmTyped
  BY <1>1, <1>2, IdleCrmJob DEF CrmTyped
<1>4. SeenIsFresh /\ PagesAreProven /\ ConnectedIsProven
  BY <1>1, <1>2, IdleCrmJob DEF SeenIsFresh, PagesAreProven, ConnectedIsProven
<1> QED BY <1>3, <1>4 DEF CrmInv

\* A request that begins has read the row.
LEMMA BeginningKeepsCrm ==
  ASSUME CrmInv, NEW r \in Requests, I!Loads(r) \/ I!LoadsForUpdate(r) \/ I!SyncDue(r)
  PROVE  CrmInv'
<1>1. PICK t : /\ crmJob' = [crmJob EXCEPT ![r] = t] /\ t \in CrmJob /\ t.seen = crm /\ t.pc # "none"
               /\ t.page = 0 /\ (t.op = "connect" => t.set \in Setups)
  <2>0. crm \in CrmRow
    BY DEF CrmInv, CrmTyped
  <2>1. CASE I!Loads(r)
    <3>1. PICK op \in {"rename", "test", "enable", "disable", "sync"} :
            crmJob' = [crmJob EXCEPT ![r] = [I!Idle EXCEPT !.op = op, !.pc = IF op = "sync" THEN "page" ELSE "act",
                                                            !.seen = crm]]
      BY <2>1 DEF I!Loads
    <3> DEFINE pc == IF op = "sync" THEN "page" ELSE "act"
               t == [I!Idle EXCEPT !.op = op, !.pc = pc, !.seen = crm]
    <3>2. pc \in {"page", "act"}
      OBVIOUS
    <3> HIDE DEF pc
    <3>3. t \in CrmJob /\ t.seen = crm /\ t.pc = pc /\ t.op = op /\ t.page = 0
      BY <2>0, <3>2, IdleCrmJob DEF CrmJob
    <3> HIDE DEF t
    <3> QED BY <3>1, <3>2, <3>3 DEF t, pc
  <2>2. CASE I!LoadsForUpdate(r)
    <3>1. PICK s \in Setups :
            crmJob' = [crmJob EXCEPT ![r] = [I!Idle EXCEPT !.op = "connect", !.pc = "act", !.seen = crm, !.set = s]]
      BY <2>2 DEF I!LoadsForUpdate
    <3> DEFINE t == [I!Idle EXCEPT !.op = "connect", !.pc = "act", !.seen = crm, !.set = s]
    <3>3. t \in CrmJob /\ t.seen = crm /\ t.pc = "act" /\ t.set = s /\ t.page = 0
      BY <2>0, IdleCrmJob DEF CrmJob
    <3> HIDE DEF t
    <3> QED BY <3>1, <3>3 DEF t
  <2>3. CASE I!SyncDue(r)
    <3> DEFINE t == [I!Idle EXCEPT !.op = "sync", !.pc = "page", !.seen = crm]
    <3>1. crmJob' = [crmJob EXCEPT ![r] = t]
      BY <2>3 DEF I!SyncDue
    <3>3. t \in CrmJob /\ t.seen = crm /\ t.pc = "page" /\ t.op = "sync" /\ t.page = 0
      BY <2>0, IdleCrmJob DEF CrmJob
    <3> HIDE DEF t
    <3> QED BY <3>1, <3>3
  <2> QED BY <2>1, <2>2, <2>3
<1>2. UNCHANGED <<crm, proven, overtaken>>
  BY DEF I!Loads, I!LoadsForUpdate, I!SyncDue
<1>3. CrmTyped'
  BY <1>1, <1>2 DEF CrmInv, CrmTyped
<1>4. SeenIsFresh' /\ PagesAreProven' /\ ConnectedIsProven'
  BY <1>1, <1>2 DEF CrmInv, CrmTyped, SeenIsFresh, PagesAreProven, ConnectedIsProven
<1> QED BY <1>3, <1>4 DEF CrmInv

\* What a write makes of the row and of those that had read it.
LEMMA WritingKeepsCrm ==
  ASSUME CrmInv, NEW r \in Requests, NEW new \in CrmRow, I!Writes(r, new), proven \subseteq proven',
         new.status = "connected" => new.setup \in proven' \/ overtaken \/ crmJob[r].stale
  PROVE  CrmInv'
<1>1. crm' = new /\ overtaken' = (overtaken \/ crmJob[r].stale)
  BY DEF I!Writes
<1>2. ASSUME NEW q \in Requests
      PROVE  \/ crmJob'[q] = I!Idle
             \/ /\ crmJob'[q] = [crmJob[q] EXCEPT !.stale = crmJob[q].stale \/ (crmJob[q] # I!Idle /\ new # crm)]
                /\ crmJob[q].pc # "none"
  <2>1. CASE q = r
    BY <2>1 DEF I!Writes
  <2>2. CASE q # r /\ crmJob[q].pc = "none"
    <3>1. crmJob[q] = I!Idle
      BY <2>2 DEF CrmInv, CrmTyped
    <3>2. crmJob'[q] = [I!Idle EXCEPT !.stale = FALSE]
      BY <2>2, <3>1, IdleCrmJob DEF I!Writes
    <3>3. [I!Idle EXCEPT !.stale = FALSE] = I!Idle
      BY IdleCrmJob DEF CrmJob
    <3> QED BY <3>2, <3>3
  <2>3. CASE q # r /\ crmJob[q].pc # "none"
    BY <2>3 DEF I!Writes
  <2> QED BY <2>1, <2>2, <2>3
<1>3. ASSUME NEW q \in Requests
      PROVE  /\ crmJob'[q] \in CrmJob
             /\ \/ crmJob'[q] = I!Idle
                \/ /\ crmJob[q].pc # "none" /\ crmJob'[q].pc = crmJob[q].pc /\ crmJob'[q].op = crmJob[q].op
                   /\ crmJob'[q].seen = crmJob[q].seen /\ crmJob'[q].set = crmJob[q].set
                   /\ crmJob'[q].page = crmJob[q].page
                   /\ crmJob[q].stale \/ new # crm => crmJob'[q].stale
  <2>1. CASE crmJob'[q] = I!Idle
    BY <2>1, IdleCrmJob
  <2>2. CASE crmJob'[q] # I!Idle
    <3>1. crmJob[q] \in CrmJob /\ crmJob[q].pc # "none" /\ crmJob[q] # I!Idle
      BY <1>2, <2>2, IdleCrmJob DEF CrmInv, CrmTyped
    <3>2. PICK st \in BOOLEAN : /\ crmJob'[q] = [crmJob[q] EXCEPT !.stale = st]
                                /\ crmJob[q].stale \/ new # crm => st
      <4>1. (crmJob[q].stale \/ (crmJob[q] # I!Idle /\ new # crm)) \in BOOLEAN
        OBVIOUS
      <4> QED BY <1>2, <2>2, <3>1, <4>1, Zenon
    <3> QED BY <3>1, <3>2 DEF CrmJob
  <2> QED BY <2>1, <2>2
<1>4. DOMAIN crmJob' = Requests /\ crmJob' = [q \in Requests |-> crmJob'[q]]
  BY DEF I!Writes
<1>5. overtaken' \in BOOLEAN
  BY <1>1 DEF CrmInv, CrmTyped, CrmJob
<1>6. CrmTyped'
  <2>1. crmJob' \in [Requests -> CrmJob]
    BY <1>3, <1>4
  <2>2. \A q \in Requests : IF crmJob'[q].pc = "none" THEN crmJob'[q] = I!Idle ELSE crmJob'[q].seen \in CrmRow
    BY <1>3, IdleCrmJob DEF CrmInv, CrmTyped
  <2>3. \A q \in Requests : crmJob'[q].op = "connect" => crmJob'[q].set \in Setups
    BY <1>3, IdleCrmJob DEF CrmInv, CrmTyped
  <2> QED BY <1>1, <1>5, <2>1, <2>2, <2>3 DEF CrmTyped
<1>7. SeenIsFresh'
  BY <1>1, <1>3, IdleCrmJob DEF CrmInv, SeenIsFresh
<1>8. PagesAreProven'
  BY <1>3, IdleCrmJob DEF CrmInv, PagesAreProven
<1>9. ConnectedIsProven'
  BY <1>1 DEF ConnectedIsProven
<1> QED BY <1>6, <1>7, <1>8, <1>9 DEF CrmInv

\* update, setActive, test, and the end of a sync.
LEMMA EndingKeepsCrm ==
  ASSUME CrmInv, NEW r \in Requests,
         I!Update(r) \/ I!SetActive(r) \/ I!Tests(r) \/ I!Finishes(r) \/ I!Breaks(r)
  PROVE  CrmInv'
<1>0. crm \in CrmRow /\ crmJob[r] \in CrmJob
  BY DEF CrmInv, CrmTyped
<1>1. CASE I!Update(r)
  <2>0. crmJob[r].pc = "act" /\ proven' = proven /\ crmJob[r].seen \in CrmRow
    BY <1>1 DEF I!Update, CrmInv, CrmTyped
  <2>1. CASE crmJob[r].op = "connect"
    <3> DEFINE new == I!Untested([crm EXCEPT !.setup = crmJob[r].set])
    <3>1. I!Writes(r, new)
      BY <1>1, <2>1 DEF I!Update
    <3>2. crmJob[r].set \in Setups
      BY <2>1 DEF CrmInv, CrmTyped
    <3>3. new \in CrmRow /\ new.status = "disconnected"
      BY <1>0, <3>2 DEF I!Untested, CrmRow
    <3> HIDE DEF new
    <3> QED BY <2>0, <3>1, <3>3, WritingKeepsCrm
  <2>2. CASE crmJob[r].op # "connect"
    <3> DEFINE new == [crm EXCEPT !.setup = crmJob[r].seen.setup]
    <3>1. I!Writes(r, new)
      BY <1>1, <2>2 DEF I!Update
    <3>3. /\ new \in CrmRow /\ new.status = crm.status
          /\ crmJob[r].seen = crm => new.setup = crm.setup
      BY <1>0, <2>0 DEF CrmRow
    <3>4. crmJob[r].stale \/ crmJob[r].seen = crm
      BY <2>0 DEF CrmInv, SeenIsFresh
    <3> HIDE DEF new
    <3>5. new.status = "connected" => new.setup \in proven' \/ overtaken \/ crmJob[r].stale
      BY <2>0, <3>3, <3>4 DEF CrmInv, ConnectedIsProven
    <3> QED BY <2>0, <3>1, <3>3, <3>5, WritingKeepsCrm
  <2> QED BY <2>1, <2>2
<1>2. CASE I!SetActive(r)
  <2> DEFINE on == crmJob[r].op = "enable"
  <2>0. on \in BOOLEAN /\ proven' = proven
    BY <1>2 DEF I!SetActive
  <2>1. I!Writes(r, [crm EXCEPT !.active = on])
    BY <1>2 DEF I!SetActive
  <2> HIDE DEF on
  <2> DEFINE new == [crm EXCEPT !.active = on]
  <2>3. new \in CrmRow /\ new.status = crm.status /\ new.setup = crm.setup
    BY <1>0, <2>0 DEF CrmRow
  <2> HIDE DEF new
  <2>5. new.status = "connected" => new.setup \in proven' \/ overtaken \/ crmJob[r].stale
    BY <2>0, <2>3 DEF CrmInv, ConnectedIsProven
  <2> QED BY <2>0, <2>1, <2>3, <2>5, WritingKeepsCrm DEF new
<1>3. CASE I!Tests(r)
  <2>0. crmJob[r].stale \/ crmJob[r].seen = crm
    BY <1>3 DEF I!Tests, CrmInv, SeenIsFresh
  <2>1. CASE I!Answered(r) /\ I!Writes(r, [crm EXCEPT !.status = "connected"])
    <3> DEFINE new == [crm EXCEPT !.status = "connected"]
    <3>1. new \in CrmRow /\ new.setup = crm.setup
      BY <1>0 DEF CrmRow
    <3>2. proven' = proven \cup {crmJob[r].seen.setup}
      BY <2>1 DEF I!Answered
    <3> HIDE DEF new
    <3>3. new.status = "connected" => new.setup \in proven' \/ overtaken \/ crmJob[r].stale
      BY <2>0, <3>1, <3>2
    <3> QED BY <2>1, <3>1, <3>2, <3>3, WritingKeepsCrm DEF new
  <2>2. CASE I!Writes(r, [crm EXCEPT !.status = "error", !.active = FALSE]) /\ UNCHANGED proven
    <3> DEFINE new == [crm EXCEPT !.status = "error", !.active = FALSE]
    <3>1. new \in CrmRow /\ new.status = "error"
      BY <1>0 DEF CrmRow
    <3> HIDE DEF new
    <3> QED BY <2>2, <3>1, WritingKeepsCrm DEF new
  <2> QED BY <1>3, <2>1, <2>2 DEF I!Tests
<1>4. CASE I!Finishes(r)
  <2> DEFINE new == [crm EXCEPT !.status = "connected"]
  <2>1. new \in CrmRow /\ new.setup = crm.setup
    BY <1>0 DEF CrmRow
  <2>2. /\ crmJob[r].stale \/ crmJob[r].seen = crm
        /\ crmJob[r].seen.setup \in proven /\ UNCHANGED proven /\ I!Writes(r, new)
    BY <1>4 DEF I!Finishes, CrmInv, SeenIsFresh, PagesAreProven
  <2> HIDE DEF new
  <2>3. new.status = "connected" => new.setup \in proven' \/ overtaken \/ crmJob[r].stale
    BY <2>1, <2>2
  <2> QED BY <2>1, <2>2, <2>3, WritingKeepsCrm
<1>5. CASE I!Breaks(r)
  <2> DEFINE new == [crm EXCEPT !.status = "error"]
  <2>1. new \in CrmRow /\ new.status = "error"
    BY <1>0 DEF CrmRow
  <2>2. UNCHANGED proven /\ I!Writes(r, new)
    BY <1>5 DEF I!Breaks
  <2> HIDE DEF new
  <2> QED BY <2>1, <2>2, WritingKeepsCrm
<1> QED BY <1>1, <1>2, <1>3, <1>4, <1>5

\* A sync that goes on, and those who write the customer.
LEMMA SyncingKeepsCrm ==
  ASSUME CrmInv,
         I!AgentTypes \/ I!CustomerWrites
           \/ \E r \in Requests : I!FetchesPage(r) \/ I!UpsertCustomer(r) \/ I!WritesFill(r)
  PROVE  CrmInv'
<1>1. UNCHANGED <<crm, overtaken>> /\ proven \subseteq proven'
  BY DEF I!FetchesPage, I!UpsertCustomer, I!WritesFill, I!AgentTypes, I!CustomerWrites, I!Answered
\* Nothing but where it is, its pages and its mark of who typed.
<1> DEFINE Goes(q) == /\ crmJob[q].pc # "none" /\ crmJob'[q].pc # "none" /\ crmJob'[q].op = crmJob[q].op
                      /\ crmJob'[q].seen = crmJob[q].seen /\ crmJob'[q].set = crmJob[q].set
                      /\ crmJob'[q].stale = crmJob[q].stale
                      /\ crmJob'[q].page = crmJob[q].page \/ crmJob[q].seen.setup \in proven'
<1>2. crmJob' \in [Requests -> CrmJob] /\ \A q \in Requests : crmJob'[q] = crmJob[q] \/ Goes(q)
  <2>0. crmJob \in [Requests -> CrmJob]
    BY DEF CrmInv, CrmTyped
  <2>1. CASE I!CustomerWrites
    BY <2>0, <2>1 DEF I!CustomerWrites
  <2>2. CASE I!AgentTypes
    <3>1. crmJob' = [q \in Requests |-> [crmJob[q] EXCEPT !.fill = crmJob[q].fill \/ crmJob[q].pc = "fill"]]
      BY <2>2 DEF I!AgentTypes
    <3>2. ASSUME NEW q \in Requests PROVE crmJob'[q] \in CrmJob /\ (crmJob'[q] = crmJob[q] \/ Goes(q))
      <4>1. PICK b \in BOOLEAN : crmJob'[q] = [crmJob[q] EXCEPT !.fill = b]
                                  /\ (crmJob[q].pc # "fill" => b = crmJob[q].fill)
        <5>1. (crmJob[q].fill \/ crmJob[q].pc = "fill") \in BOOLEAN
          OBVIOUS
        <5>2. crmJob'[q] = [crmJob[q] EXCEPT !.fill = crmJob[q].fill \/ crmJob[q].pc = "fill"]
          BY <3>1
        <5>3. crmJob[q].fill \in BOOLEAN
          BY <2>0 DEF CrmJob
        <5>4. crmJob[q].pc # "fill" => (crmJob[q].fill \/ crmJob[q].pc = "fill") = crmJob[q].fill
          BY <5>3
        <5> QED BY <5>1, <5>2, <5>4, Zenon
      <4>2. crmJob[q] \in CrmJob
        BY <2>0
      <4>3. crmJob'[q] \in CrmJob
        BY <4>1, <4>2 DEF CrmJob
      <4>4. CASE crmJob[q].pc # "fill"
        BY <4>1, <4>2, <4>4 DEF CrmJob
      <4>5. CASE crmJob[q].pc = "fill"
        BY <4>1, <4>2, <4>5 DEF CrmJob
      <4> QED BY <4>3, <4>4, <4>5
    <3> QED BY <3>1, <3>2
  <2>3. ASSUME NEW r \in Requests, I!FetchesPage(r)
        PROVE  crmJob' \in [Requests -> CrmJob] /\ \A q \in Requests : crmJob'[q] = crmJob[q] \/ Goes(q)
    <3>1. PICK next \in {"record", "page"} :
            crmJob' = [crmJob EXCEPT ![r] = [crmJob[r] EXCEPT !.pc = next, !.page = crmJob[r].page + 1]]
      BY <2>0, <2>3 DEF I!FetchesPage
    <3>2. proven' = proven \cup {crmJob[r].seen.setup} /\ crmJob[r].pc = "page"
      BY <2>3 DEF I!FetchesPage, I!Answered
    <3>3. crmJob[r] \in CrmJob /\ crmJob[r].page + 1 \in Nat
      BY <2>0 DEF CrmJob
    <3> DEFINE t == [crmJob[r] EXCEPT !.pc = next, !.page = crmJob[r].page + 1]
    <3>4. /\ t \in CrmJob /\ t.pc = next /\ t.op = crmJob[r].op /\ t.seen = crmJob[r].seen
          /\ t.set = crmJob[r].set /\ t.stale = crmJob[r].stale
      BY <3>3 DEF CrmJob
    <3> HIDE DEF t
    <3> QED BY <2>0, <3>1, <3>2, <3>4 DEF t
  <2>4. ASSUME NEW r \in Requests, I!UpsertCustomer(r) \/ I!WritesFill(r)
        PROVE  crmJob' \in [Requests -> CrmJob] /\ \A q \in Requests : crmJob'[q] = crmJob[q] \/ Goes(q)
    <3>1. PICK next \in {"fill", "page"}, b \in BOOLEAN :
            crmJob' = [crmJob EXCEPT ![r] = [crmJob[r] EXCEPT !.pc = next, !.fill = b]]
      <4>1. CASE I!UpsertCustomer(r)
        <5>1. PICK next \in {"fill", "page"} : crmJob' = [crmJob EXCEPT ![r].pc = next]
          BY <4>1 DEF I!UpsertCustomer
        <5>2. crmJob[r].fill \in BOOLEAN
          BY <2>0 DEF CrmJob
        <5>3. [crmJob[r] EXCEPT !.pc = next] = [crmJob[r] EXCEPT !.pc = next, !.fill = crmJob[r].fill]
          BY <2>0 DEF CrmJob
        <5> QED BY <5>1, <5>2, <5>3
      <4>2. CASE I!WritesFill(r)
        BY <2>0, <4>2 DEF I!WritesFill
      <4> QED BY <2>4, <4>1, <4>2
    <3>2. crmJob[r].pc # "none" /\ crmJob[r] \in CrmJob
      BY <2>0, <2>4 DEF I!UpsertCustomer, I!WritesFill
    <3> DEFINE t == [crmJob[r] EXCEPT !.pc = next, !.fill = b]
    <3>4. /\ t \in CrmJob /\ t.pc = next /\ t.op = crmJob[r].op /\ t.seen = crmJob[r].seen
          /\ t.set = crmJob[r].set /\ t.stale = crmJob[r].stale /\ t.page = crmJob[r].page
      BY <3>2 DEF CrmJob
    <3> HIDE DEF t
    <3> QED BY <2>0, <3>1, <3>2, <3>4 DEF t
  <2> QED BY <2>1, <2>2, <2>3, <2>4
<1>3. CrmTyped'
  BY <1>1, <1>2 DEF CrmInv, CrmTyped
<1>4. SeenIsFresh' /\ ConnectedIsProven'
  BY <1>1, <1>2 DEF CrmInv, SeenIsFresh, ConnectedIsProven
<1>5. PagesAreProven'
  BY <1>1, <1>2 DEF CrmInv, PagesAreProven
<1> QED BY <1>3, <1>4, <1>5 DEF CrmInv

LEMMA CrmStep ==
  ASSUME CrmInv, I!Next
  PROVE  CrmInv'
BY BeginningKeepsCrm, EndingKeepsCrm, SyncingKeepsCrm DEF I!Next

-------------------------------------------------------------------------------
(* The control plane and the plane it operates.                                  *)

Answer == [version : Nat, config : Configs]
PlaneRow == [status : {"pending", "healthy", "degraded", "unreachable", "suspended"}, version : Nat,
             config : Configs, age : Nat]
PlaneJob == [op : {"none", "beat", "config"}, seen : Answer \cup {Nil},
             arg : {"healthy", "degraded", Nil} \cup Configs, stale : BOOLEAN]
PlaneTyped ==
  /\ plane \in PlaneRow
  /\ wire \subseteq {"healthy", "degraded"}
  /\ planeJob \in [Requests -> PlaneJob]
  /\ \A r \in Requests :
       /\ planeJob[r].op = "none" => planeJob[r] = P!Idle
       /\ planeJob[r].op # "none" => planeJob[r].seen \in Answer
       /\ planeJob[r].op = "beat" => planeJob[r].arg \in {"healthy", "degraded"}
       /\ planeJob[r].op = "config" => planeJob[r].arg \in Configs
  /\ wanted \in BOOLEAN /\ heardLate \in BOOLEAN /\ raced \in BOOLEAN
  /\ meant \subseteq Answer
\* A heartbeat let in while the operator wants the plane suspended was let in before that.
SuspensionInv ==
  /\ P!SuspensionHolds
  /\ wanted => \A r \in Requests : planeJob[r].op = "beat" => planeJob[r].stale \/ heardLate
\* What planes were told, and what heartbeats under way will tell them.
Heard == meant \cup {planeJob[r].seen : r \in {q \in Requests : planeJob[q].op = "beat"}}
VersionInv ==
  \/ raced
  \/ /\ \A a \in Heard : a.version <= plane.version /\ (a.version = plane.version => a.config = plane.config)
     /\ \A a, b \in Heard : a.version = b.version => a.config = b.config
PlaneInv == PlaneTyped /\ SuspensionInv /\ VersionInv

LEMMA IdlePlaneJob ==
  /\ P!Idle \in PlaneJob /\ P!Idle.op = "none" /\ P!Idle.stale = FALSE
BY DEF P!Idle, PlaneJob

LEMMA PlaneInit == P!Init => PlaneInv
<1> SUFFICES ASSUME P!Init PROVE PlaneInv
  OBVIOUS
<1>1. plane \in PlaneRow
  <2> DEFINE first == CHOOSE c \in Configs \ Content : TRUE
  <2>1. first \in Configs
    BY ConfigsExist
  <2>2. P!Never \in Nat
    BY LimitsAreNatural DEF P!Never
  <2>3. plane \in [status : {"pending"}, version : {1}, config : {first}, age : {P!Never}]
    BY DEF P!Init
  <2> HIDE DEF first
  <2> QED BY <2>1, <2>2, <2>3 DEF PlaneRow
<1>2. /\ planeJob \in [Requests -> PlaneJob] /\ \A r \in Requests : planeJob[r] = P!Idle
      /\ wire = {} /\ meant = {} /\ wanted = FALSE /\ heardLate = FALSE /\ raced = FALSE
  BY IdlePlaneJob DEF P!Init
<1>3. PlaneTyped
  BY <1>1, <1>2, IdlePlaneJob DEF PlaneTyped
<1>4. SuspensionInv
  BY <1>2, IdlePlaneJob DEF SuspensionInv, P!SuspensionHolds
<1>5. Heard = {}
  BY <1>2, IdlePlaneJob DEF Heard
<1> QED BY <1>3, <1>4, <1>5 DEF PlaneInv, VersionInv

\* receiveHeartbeat and updateConfig read the row.
LEMMA ReadingKeepsPlane ==
  ASSUME PlaneInv, NEW r \in Requests, P!ReadsPlane(r) \/ P!ReadsVersion(r)
  PROVE  PlaneInv'
<1>0. plane \in PlaneRow /\ planeJob \in [Requests -> PlaneJob]
  BY DEF PlaneInv, PlaneTyped
<1>1. /\ P!Instruction \in Answer
      /\ P!Instruction.version = plane.version /\ P!Instruction.config = plane.config
  BY <1>0 DEF P!Instruction, PlaneRow, Answer
<1>2. UNCHANGED <<plane, wanted, heardLate, meant, raced>> /\ wire' \subseteq wire
  BY DEF P!ReadsPlane, P!ReadsVersion
<1>3. PICK t \in PlaneJob :
        /\ planeJob' = [planeJob EXCEPT ![r] = t] /\ t.seen = P!Instruction
        /\ \/ t.op = "beat" /\ t.arg \in {"healthy", "degraded"} /\ plane.status # "suspended"
           \/ t.op = "config" /\ t.arg \in Configs
  <2>1. CASE P!ReadsPlane(r)
    <3>1. PICK s \in wire : planeJob' = [planeJob EXCEPT ![r] = [P!Idle EXCEPT !.op = "beat",
                                                                  !.seen = P!Instruction, !.arg = s]]
      BY <2>1 DEF P!ReadsPlane
    <3>2. s \in {"healthy", "degraded"}
      BY DEF PlaneInv, PlaneTyped
    <3>3. plane.status # "suspended"
      BY <2>1 DEF P!ReadsPlane, P!Hears
    <3> DEFINE t == [P!Idle EXCEPT !.op = "beat", !.seen = P!Instruction, !.arg = s]
    <3>4. t \in PlaneJob /\ t.op = "beat" /\ t.seen = P!Instruction /\ t.arg = s
      BY <1>1, <3>2, IdlePlaneJob DEF PlaneJob
    <3> HIDE DEF t
    <3> QED BY <3>1, <3>2, <3>3, <3>4 DEF t
  <2>2. CASE P!ReadsVersion(r)
    <3>1. PICK c \in Configs : planeJob' = [planeJob EXCEPT ![r] = [P!Idle EXCEPT !.op = "config",
                                                                    !.seen = P!Instruction, !.arg = c]]
      BY <2>2 DEF P!ReadsVersion
    <3> DEFINE t == [P!Idle EXCEPT !.op = "config", !.seen = P!Instruction, !.arg = c]
    <3>4. t \in PlaneJob /\ t.op = "config" /\ t.seen = P!Instruction /\ t.arg = c
      BY <1>1, IdlePlaneJob DEF PlaneJob
    <3> HIDE DEF t
    <3> QED BY <3>1, <3>4 DEF t
  <2> QED BY <2>1, <2>2
<1>4. /\ planeJob' \in [Requests -> PlaneJob] /\ planeJob'[r] = t
      /\ \A q \in Requests \ {r} : planeJob'[q] = planeJob[q]
  BY <1>0, <1>3
<1>5. PlaneTyped'
  BY <1>1, <1>2, <1>3, <1>4 DEF PlaneInv, PlaneTyped
<1>6. SuspensionInv'
  BY <1>2, <1>3, <1>4 DEF PlaneInv, PlaneTyped, SuspensionInv, P!SuspensionHolds
<1>7. Heard' \subseteq Heard \cup {P!Instruction}
  BY <1>2, <1>3, <1>4 DEF Heard
<1>8. VersionInv'
  BY <1>0, <1>1, <1>2, <1>7 DEF PlaneInv, VersionInv, PlaneRow
<1> QED BY <1>5, <1>6, <1>8 DEF PlaneInv

LEMMA HeartbeatKeepsPlane ==
  ASSUME PlaneInv, NEW r \in Requests, P!WritesHeartbeat(r)
  PROVE  PlaneInv'
<1>0. plane \in PlaneRow /\ planeJob \in [Requests -> PlaneJob]
  BY DEF PlaneInv, PlaneTyped
<1>1. /\ planeJob[r].op = "beat" /\ planeJob[r].seen \in Answer /\ planeJob[r].arg \in {"healthy", "degraded"}
      /\ planeJob[r].stale \in BOOLEAN
  BY <1>0 DEF P!WritesHeartbeat, PlaneInv, PlaneTyped, PlaneJob
<1>2. /\ plane' \in PlaneRow /\ plane'.version = plane.version /\ plane'.config = plane.config
      /\ meant' = meant \cup {planeJob[r].seen} /\ heardLate' = (heardLate \/ planeJob[r].stale)
      /\ UNCHANGED <<wire, wanted, raced>>
  BY <1>0, <1>1 DEF P!WritesHeartbeat, PlaneRow
<1>3. /\ planeJob' \in [Requests -> PlaneJob] /\ planeJob'[r] = P!Idle
      /\ \A q \in Requests \ {r} : planeJob'[q] = planeJob[q]
  BY <1>0, IdlePlaneJob DEF P!WritesHeartbeat
<1>4. heardLate' \in BOOLEAN /\ (heardLate => heardLate')
  BY <1>1, <1>2 DEF PlaneInv, PlaneTyped
<1>5. PlaneTyped'
  BY <1>1, <1>2, <1>3, <1>4, IdlePlaneJob DEF PlaneInv, PlaneTyped
<1>6. SuspensionInv'
  BY <1>1, <1>2, <1>3, <1>4, IdlePlaneJob DEF PlaneInv, SuspensionInv, P!SuspensionHolds
<1>7. Heard' \subseteq Heard
  BY <1>1, <1>2, <1>3, IdlePlaneJob DEF Heard
<1>8. VersionInv'
  BY <1>2, <1>7 DEF PlaneInv, VersionInv
<1> QED BY <1>5, <1>6, <1>8 DEF PlaneInv

LEMMA ConfigKeepsPlane ==
  ASSUME PlaneInv, NEW r \in Requests, P!WritesConfig(r)
  PROVE  PlaneInv'
<1>0. plane \in PlaneRow /\ planeJob \in [Requests -> PlaneJob]
  BY DEF PlaneInv, PlaneTyped
<1>1. /\ planeJob[r].op = "config" /\ planeJob[r].arg \in Configs
      /\ planeJob[r].seen.version \in Nat
  BY <1>0 DEF P!WritesConfig, PlaneInv, PlaneTyped, Answer
<1>2. /\ plane' \in PlaneRow /\ plane'.status = plane.status
      /\ plane'.version = planeJob[r].seen.version + 1
      /\ raced' = (raced \/ planeJob[r].seen.version # plane.version)
      /\ UNCHANGED <<wire, wanted, meant, heardLate>>
  <2>1. plane' = [plane EXCEPT !.config = planeJob[r].arg, !.version = planeJob[r].seen.version + 1]
    BY DEF P!WritesConfig, P!NextVersion
  <2>2. planeJob[r].seen.version + 1 \in Nat
    BY <1>1
  <2>3. /\ plane' \in PlaneRow /\ plane'.status = plane.status
        /\ plane'.version = planeJob[r].seen.version + 1
    BY <1>0, <1>1, <2>1, <2>2 DEF PlaneRow
  <2> QED BY <2>3 DEF P!WritesConfig
<1>3. /\ planeJob' \in [Requests -> PlaneJob] /\ planeJob'[r] = P!Idle
      /\ \A q \in Requests \ {r} : planeJob'[q] = planeJob[q]
  BY <1>0, IdlePlaneJob DEF P!WritesConfig
<1>4. raced' \in BOOLEAN /\ (raced => raced') /\ (~raced' => planeJob[r].seen.version = plane.version)
  BY <1>2 DEF PlaneInv, PlaneTyped
<1>5. PlaneTyped'
  BY <1>2, <1>3, <1>4, IdlePlaneJob DEF PlaneInv, PlaneTyped
<1>6. SuspensionInv'
  BY <1>2, <1>3, IdlePlaneJob DEF PlaneInv, SuspensionInv, P!SuspensionHolds
<1>7. Heard' \subseteq Heard /\ \A a \in Heard : a.version \in Nat
  <2>1. Heard' \subseteq Heard
    BY <1>2, <1>3, IdlePlaneJob DEF Heard
  <2>2. Heard \subseteq Answer
    BY DEF Heard, PlaneInv, PlaneTyped
  <2> QED BY <2>1, <2>2 DEF Answer
<1>8. VersionInv'
  <2>1. CASE raced'
    BY <2>1 DEF VersionInv
  <2>2. CASE ~raced'
    <3>1. plane.version \in Nat /\ plane'.version = plane.version + 1
      BY <1>0, <1>2, <1>4, <2>2 DEF PlaneRow
    <3>2. ~raced
      BY <1>4, <2>2
    <3> QED BY <1>7, <3>1, <3>2 DEF PlaneInv, VersionInv
  <2> QED BY <2>1, <2>2
<1> QED BY <1>5, <1>6, <1>8 DEF PlaneInv

\* The operator's suspension, the wire, the clock and the sweep.
LEMMA WatchingKeepsPlane ==
  ASSUME PlaneInv,
         P!SendHeartbeat \/ P!Loses \/ P!Tick \/ P!SweepUnreachable \/ \E b \in BOOLEAN : P!SuspendDataPlane(b)
  PROVE  PlaneInv'
<1>0. plane \in PlaneRow /\ planeJob \in [Requests -> PlaneJob]
  BY DEF PlaneInv, PlaneTyped
<1>1. CASE P!SendHeartbeat \/ P!Loses
  <2>1. UNCHANGED <<plane, planeJob, wanted, heardLate, meant, raced>> /\ wire' \subseteq {"healthy", "degraded"}
    BY <1>1 DEF P!SendHeartbeat, P!Loses, PlaneInv, PlaneTyped
  <2>2. Heard' = Heard
    BY <2>1 DEF Heard
  <2> QED BY <2>1, <2>2 DEF PlaneInv, PlaneTyped, SuspensionInv, P!SuspensionHolds, VersionInv
<1>2. CASE P!Tick \/ P!SweepUnreachable
  <2>1. /\ plane' \in PlaneRow /\ plane'.version = plane.version /\ plane'.config = plane.config
        /\ plane'.status = plane.status \/ plane.status # "suspended"
        /\ UNCHANGED <<wire, planeJob, wanted, heardLate, meant, raced>>
    BY <1>0, <1>2 DEF P!Tick, P!SweepUnreachable, PlaneRow
  <2>2. Heard' = Heard
    BY <2>1 DEF Heard
  <2>3. PlaneTyped'
    BY <2>1 DEF PlaneInv, PlaneTyped
  <2>4. SuspensionInv'
    BY <2>1 DEF PlaneInv, SuspensionInv, P!SuspensionHolds
  <2>5. VersionInv'
    BY <2>1, <2>2 DEF PlaneInv, VersionInv
  <2> QED BY <2>3, <2>4, <2>5 DEF PlaneInv
<1>3. ASSUME NEW b \in BOOLEAN, P!SuspendDataPlane(b) PROVE PlaneInv'
  <2>1. /\ plane' \in PlaneRow /\ plane'.version = plane.version /\ plane'.config = plane.config
        /\ (b => plane'.status = "suspended") /\ wanted' = b
        /\ UNCHANGED <<wire, heardLate, meant, raced>>
    BY <1>0, <1>3 DEF P!SuspendDataPlane, PlaneRow
  <2>2. ASSUME NEW q \in Requests
        PROVE  /\ planeJob'[q] \in PlaneJob /\ planeJob'[q].op = planeJob[q].op
               /\ planeJob'[q].seen = planeJob[q].seen /\ planeJob'[q].arg = planeJob[q].arg
               /\ b /\ planeJob[q].op = "beat" => planeJob'[q].stale
               /\ planeJob[q].op = "none" => planeJob'[q] = planeJob[q]
    <3>1. planeJob[q] \in PlaneJob
      BY <1>0
    <3>2. PICK st \in BOOLEAN : /\ planeJob'[q] = [planeJob[q] EXCEPT !.stale = st]
                                /\ b /\ planeJob[q].op = "beat" => st
                                /\ planeJob[q].op = "none" => st = planeJob[q].stale
      <4>1. planeJob'[q] = [planeJob[q] EXCEPT !.stale = planeJob[q].stale \/ (planeJob[q].op = "beat" /\ b)]
        BY <1>3 DEF P!SuspendDataPlane
      <4>2. (planeJob[q].stale \/ (planeJob[q].op = "beat" /\ b)) \in BOOLEAN /\ planeJob[q].stale \in BOOLEAN
        BY <3>1 DEF PlaneJob
      <4>3. planeJob[q].op = "none" => (planeJob[q].stale \/ (planeJob[q].op = "beat" /\ b)) = planeJob[q].stale
        BY <4>2
      <4> QED BY <4>1, <4>2, <4>3, Zenon
    <3> QED BY <3>1, <3>2 DEF PlaneJob
  <2>3. planeJob' \in [Requests -> PlaneJob]
    BY <2>2, <1>3 DEF P!SuspendDataPlane
  <2>4. PlaneTyped'
    BY <2>1, <2>2, <2>3 DEF PlaneInv, PlaneTyped
  <2>5. SuspensionInv'
    BY <2>1, <2>2 DEF SuspensionInv, P!SuspensionHolds
  <2>6. Heard' = Heard
    BY <2>1, <2>2 DEF Heard
  <2>7. VersionInv'
    BY <2>1, <2>6 DEF PlaneInv, VersionInv
  <2> QED BY <2>4, <2>5, <2>7 DEF PlaneInv
<1> QED BY <1>1, <1>2, <1>3

LEMMA PlaneStep ==
  ASSUME PlaneInv, P!Next
  PROVE  PlaneInv'
BY ReadingKeepsPlane, HeartbeatKeepsPlane, ConfigKeepsPlane, WatchingKeepsPlane DEF P!Next

\* An active integration was answered with the configuration it has, a plane that was
\* suspended stays so, and a version names one configuration, but for the overlaps each
\* names (integrations.service.ts:116-227, hybrid.service.ts:162-265).
THEOREM LinksAreProvenTheorem == AllSpec => []LinksAreProven
<1>1. AllInit => CrmInv /\ PlaneInv
  BY StartsEveryPart, CrmInit, PlaneInit
<1>2. CrmInv /\ [AllNext]_AllVars => CrmInv'
  <2> SUFFICES ASSUME CrmInv, [AllNext]_AllVars PROVE CrmInv'
    OBVIOUS
  <2>1. CASE UNCHANGED crmVars
    BY <2>1 DEF crmVars, CrmInv, CrmTyped, SeenIsFresh, PagesAreProven, ConnectedIsProven
  <2> QED BY <2>1, CrmStep, StepsOnePart
<1>3. PlaneInv /\ [AllNext]_AllVars => PlaneInv'
  <2> SUFFICES ASSUME PlaneInv, [AllNext]_AllVars PROVE PlaneInv'
    OBVIOUS
  <2>1. CASE UNCHANGED planeVars
    <3>1. Heard' = Heard
      BY <2>1 DEF planeVars, Heard
    <3> QED BY <2>1, <3>1 DEF planeVars, PlaneInv, PlaneTyped, SuspensionInv, P!SuspensionHolds, VersionInv
  <2> QED BY <2>1, PlaneStep, StepsOnePart
<1>4. CrmInv /\ PlaneInv => LinksAreProven
  <2> SUFFICES ASSUME CrmInv, PlaneInv PROVE LinksAreProven
    OBVIOUS
  <2>1. I!EnabledIsProven
    BY DEF CrmInv, ConnectedIsProven, I!EnabledIsProven
  <2>2. P!SuspensionHolds
    BY DEF PlaneInv, SuspensionInv
  <2>3. P!VersionNamesConfig
    BY DEF PlaneInv, VersionInv, Heard, P!VersionNamesConfig
  <2> QED BY <2>1, <2>2, <2>3 DEF LinksAreProven
<1> QED BY <1>1, <1>2, <1>3, <1>4, PTL DEF AllSpec
=============================================================================
