---------------------------- MODULE MCBackground ----------------------------
(* The work beside the requests, one part of each kind: a webhook endpoint, a   *)
(* queue with its dead letters, the gates in front of a write, a rule book, a   *)
(* backup with its drills, a CRM, a data plane. They share no state, so the     *)
(* first state chooses the part that moves; the others stay as they were made.  *)
EXTENDS Naturals, FiniteSets, Sequences, TLC

CONSTANTS
  Senders, Sweeps, Rows,             \* of Webhooks
  Jobs, Operators,                   \* of JobQueue
  Requests, Bodies, Limit, NoRow,    \* of RequestGates; Integrations and DataPlanes have Requests too
  Evaluations, Tickets,              \* of Automation
  Ids, Drills, Names,                \* of Backups
  Setups, Bad,                       \* of Integrations
  Configs, Content, Grace,           \* of DataPlanes
  Nil,
  MaxAttempts, MaxFailures, MaxCrashes, MaxRowEdits, MaxAsked, MaxStops, MaxEvents,
  MaxRows, MaxDeaths, MaxDrills, MaxPages, MaxBeats, MaxEdits   \* limits and bounds

ASSUME ActorsAreFinite == IsFiniteSet(Senders \cup Sweeps) /\ IsFiniteSet(Requests)
ASSUME LimitsAreNatural == {MaxAttempts, MaxFailures, Limit, Grace} \subseteq Nat
ASSUME NilIsNothing ==
  /\ Nil \notin Jobs /\ Nil \notin Ids
  /\ Nil \notin [rows : Nat, rotten : BOOLEAN]
  /\ Nil \notin [status : {"running", "failed", "completed", "verified", "unrestorable"}, expired : BOOLEAN]
ASSUME BodiesExist == Bodies # {}
ASSUME ConfigsExist == Configs \ Content # {}
ASSUME NoRowIsNoRow == NoRow \notin [body : Bodies, answered : BOOLEAN, expired : BOOLEAN]

\* Rules that tag and answer, one that breaks into two actions, two that meet each other.
Do(t, a) == [type |-> t, arg |-> a]
Book ==
  <<[id |-> "greet", trigger |-> "message", when |-> {"normal", "high"},
     actions |-> <<Do("send_message", Nil), Do("add_tag", "a")>>],
    [id |-> "open", trigger |-> "message", when |-> {"normal"},
     actions |-> <<Do("add_tag", "b"), Do("create_ticket", "normal")>>],
    [id |-> "breach", trigger |-> "sla_breach", when |-> {"normal"},
     actions |-> <<Do("set_priority", "high")>>],
    [id |-> "raise", trigger |-> "ticket_updated", when |-> {"normal"},
     actions |-> <<Do("set_priority", "high")>>]>>

VARIABLES
  part,
  endpoint, row, task, webCrashes, edits, sent, slack,
  job, letter, request, halts, missed, jobExcuse,
  window, key, req, asked, stops, gateEffects, purges, turned,
  priority, tags, pending, eval, runs, outside, ruleStops, added, acted, overlap,
  live, record, archive, taking, drill, scratch, pruning, deaths, drills, gone,
  crm, name, known, crmJob, crmAsked, proven, overtaken, typedOver,
  plane, wire, planeJob, beats, planeEdits, wanted, heardLate, meant, raced
webVars    == <<endpoint, row, task, webCrashes, edits, sent, slack>>
jobVars    == <<job, letter, request, halts, missed, jobExcuse>>
gateVars   == <<window, key, req, asked, stops, gateEffects, purges, turned>>
ruleVars   == <<priority, tags, pending, eval, runs, outside, ruleStops, added, acted, overlap>>
backupVars == <<live, record, archive, taking, drill, scratch, pruning, deaths, drills, gone>>
crmVars    == <<crm, name, known, crmJob, crmAsked, proven, overtaken, typedOver>>
planeVars  == <<plane, wire, planeJob, beats, planeEdits, wanted, heardLate, meant, raced>>

W == INSTANCE Webhooks WITH crashes <- webCrashes, MaxEdits <- MaxRowEdits
J == INSTANCE JobQueue WITH excuse <- jobExcuse, Nobody <- Nil
G == INSTANCE RequestGates WITH effects <- gateEffects
A == INSTANCE Automation WITH
       Rules <- Book, Priorities <- {"normal", "high"}, None <- Nil, stops <- ruleStops
B == INSTANCE Backups WITH None <- Nil
I == INSTANCE Integrations WITH None <- Nil, row <- crm, job <- crmJob, asked <- crmAsked
P == INSTANCE DataPlanes WITH
       None <- Nil, sent <- wire, job <- planeJob, edits <- planeEdits, late <- heardLate

AllVars == <<part, webVars, jobVars, gateVars, ruleVars, backupVars, crmVars, planeVars>>
AllInit ==
  /\ part \in {"webhooks", "jobs", "gates", "rules", "backups", "crm", "plane"}
  /\ W!Init /\ J!Init /\ G!Init /\ A!Init /\ B!Init /\ I!Init /\ P!Init
  /\ part # "rules" => priority["conversation"] = "normal"
  /\ part # "crm" => crm.setup = CHOOSE s \in Setups \ Bad : TRUE
AllNext ==
  /\ UNCHANGED part
  /\ \/ part = "webhooks" /\ W!Next
        /\ UNCHANGED <<jobVars, gateVars, ruleVars, backupVars, crmVars, planeVars>>
     \/ part = "jobs" /\ J!Next
        /\ UNCHANGED <<webVars, gateVars, ruleVars, backupVars, crmVars, planeVars>>
     \/ part = "gates" /\ G!Next
        /\ UNCHANGED <<webVars, jobVars, ruleVars, backupVars, crmVars, planeVars>>
     \/ part = "rules" /\ A!Next
        /\ UNCHANGED <<webVars, jobVars, gateVars, backupVars, crmVars, planeVars>>
     \/ part = "backups" /\ B!Next
        /\ UNCHANGED <<webVars, jobVars, gateVars, ruleVars, crmVars, planeVars>>
     \/ part = "crm" /\ I!Next
        /\ UNCHANGED <<webVars, jobVars, gateVars, ruleVars, backupVars, planeVars>>
     \/ part = "plane" /\ P!Next
        /\ UNCHANGED <<webVars, jobVars, gateVars, ruleVars, backupVars, crmVars>>
AllSpec ==
  /\ AllInit /\ [][AllNext]_AllVars
  /\ W!Fairness /\ J!Fairness /\ G!Fairness /\ A!Fairness

BudgetHolds == W!BudgetHolds
OncePerKey == G!OncePerKey
HeldKeysAreFreed == G!HeldKeysAreFreed
DiscardMeansNever == J!DiscardMeansNever
EachJobSettles == J!EachJobSettles
CascadesEnd == A!CascadesEnd
\* A backup that is called complete is in the store until it is pruned, and no drill drops
\* the database another restores into, whatever dies (backup.service.ts:155-374, 432-460).
BackupsHold == B!CompleteIsStored /\ B!DrillsAreAlone
\* What is connected is what was let connect: an active integration was answered with the
\* configuration it has, a plane that was suspended stays so, and a version names one
\* configuration (integrations.service.ts:116-227, hybrid.service.ts:162-265), but for the
\* overlaps each names.
LinksAreProven == I!EnabledIsProven /\ P!SuspensionHolds /\ P!VersionNamesConfig
=============================================================================
