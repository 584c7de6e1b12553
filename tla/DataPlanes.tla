------------------------------ MODULE DataPlanes ------------------------------
(* A control plane and one data plane it operates: heartbeats arrive late, twice or  *)
(* not at all, operators suspend it, resume it and set its configuration, and a sweep *)
(* marks it when it has gone quiet.                                                    *)
EXTENDS Naturals, FiniteSets

CONSTANTS
  Requests,   \* handlers of the control plane
  Configs,
  Content,    \* configurations that carry customer data
  None,
  Grace,      \* intervals a plane may be silent
  MaxBeats, MaxEdits  \* bounds: heartbeats sent, edits of an operator

VARIABLES
  plane,    \* the DataPlane row: status, version, config, age of the last heartbeat
  sent,     \* heartbeats on the wire, by what they report
  job,
  beats, edits,
  wanted,   \* history: the operator wants the plane suspended
  late,     \* history: a heartbeat let in before a suspension was written after it
  meant,    \* history: configurations answered, with their versions
  raced     \* history: two edits of the configuration read the same version
vars == <<plane, sent, job, beats, edits, wanted, late, meant, raced>>

Never == Grace + 1  \* an age the sweep calls quiet, and that of a plane never heard
Idle == [op |-> "none", seen |-> None, arg |-> None, stale |-> FALSE]
Init ==
  /\ plane \in [status : {"pending"}, version : {1}, config : {CHOOSE c \in Configs \ Content : TRUE}, age : {Never}]
  /\ sent = {} /\ beats = 0 /\ edits = 0
  /\ job = [r \in Requests |-> Idle]
  /\ wanted = FALSE /\ late = FALSE /\ raced = FALSE
  /\ meant = {}

Instruction == [version |-> plane.version, config |-> plane.config]
CheckResidency(payload) == payload \notin Content

\* sendHeartbeat: only counts are sent, and at most once for each interval.
SendHeartbeat ==
  /\ beats < MaxBeats /\ beats' = beats + 1
  /\ \E s \in {"healthy", "degraded"} : sent' = sent \cup {s}
  /\ UNCHANGED <<plane, job, edits, wanted, late, meant, raced>>
\* The wire may lose a heartbeat or bring it twice.
Loses ==
  /\ \E s \in sent : sent' = sent \ {s}
  /\ UNCHANGED <<plane, job, beats, edits, wanted, late, meant, raced>>
\* receiveHeartbeat: a suspended plane is refused; the row is written by its id, and the
\* answer is the configuration that was read.
\* Mutant: a suspended plane is heard.
HearsAll(status) == TRUE
Hears(status) == status # "suspended"
ReadsPlane(r) ==
  /\ job[r] = Idle
  /\ \E s \in sent :
       /\ Hears(plane.status)
       /\ job' = [job EXCEPT ![r] = [Idle EXCEPT !.op = "beat", !.seen = Instruction, !.arg = s]]
       /\ sent' \in {sent, sent \ {s}}
  /\ UNCHANGED <<plane, beats, edits, wanted, late, meant, raced>>
WritesHeartbeat(r) ==
  /\ job[r].op = "beat"
  /\ plane' = [plane EXCEPT !.status = job[r].arg, !.age = 0]
  /\ meant' = meant \cup {job[r].seen}
  /\ late' = (late \/ job[r].stale)
  /\ job' = [job EXCEPT ![r] = Idle]
  /\ UNCHANGED <<sent, beats, edits, wanted, raced>>

Edits == edits < MaxEdits /\ edits' = edits + 1
SuspendDataPlane(suspended) ==
  /\ Edits
  /\ plane' = [plane EXCEPT !.status = IF suspended THEN "suspended" ELSE "pending"]
  /\ wanted' = suspended
  /\ job' = [r \in Requests |-> [job[r] EXCEPT !.stale = @ \/ (job[r].op = "beat" /\ suspended)]]
  /\ UNCHANGED <<sent, beats, late, meant, raced>>
\* updateConfig: the version is the one that was read, and one more.
ReadsVersion(r) ==
  /\ job[r] = Idle
  /\ Edits
  /\ \E c \in Configs :
       /\ CheckResidency(c)
       /\ job' = [job EXCEPT ![r] = [Idle EXCEPT !.op = "config", !.seen = Instruction, !.arg = c]]
  /\ UNCHANGED <<plane, sent, beats, wanted, late, meant, raced>>
\* Mutant: the version stays.
SameVersion(seen) == seen.version
NextVersion(seen) == seen.version + 1
WritesConfig(r) ==
  /\ job[r].op = "config"
  /\ plane' = [plane EXCEPT !.config = job[r].arg, !.version = NextVersion(job[r].seen)]
  /\ raced' = (raced \/ job[r].seen.version # plane.version)
  /\ job' = [job EXCEPT ![r] = Idle]
  /\ UNCHANGED <<sent, beats, edits, wanted, late, meant>>

Tick ==
  /\ plane.age < Never
  /\ plane' = [plane EXCEPT !.age = @ + 1]
  /\ UNCHANGED <<sent, job, beats, edits, wanted, late, meant, raced>>
SweepUnreachable ==
  /\ plane.status \in {"healthy", "degraded"} /\ plane.age > Grace
  /\ plane' = [plane EXCEPT !.status = "unreachable"]
  /\ UNCHANGED <<sent, job, beats, edits, wanted, late, meant, raced>>

Next ==
  \/ SendHeartbeat \/ Loses \/ Tick \/ SweepUnreachable
  \/ \E b \in BOOLEAN : SuspendDataPlane(b)
  \/ \E r \in Requests :
       \/ ReadsPlane(r) \/ WritesHeartbeat(r) \/ ReadsVersion(r) \/ WritesConfig(r)
Spec == Init /\ [][Next]_vars
-----------------------------------------------------------------------------
\* A plane its operator suspended stays suspended, whatever heartbeats are still on the
\* wire, except for one that had been let in before.
SuspensionHolds == wanted => plane.status = "suspended" \/ late

\* A version means one configuration: a plane told the same version twice was told the
\* same thing, unless two edits overlapped.
VersionNamesConfig ==
  \A a, b \in meant : a.version = b.version => a.config = b.config \/ raced
=============================================================================
