------------------------------- MODULE Backups -------------------------------
(* Backups and the drills that restore them: an archive is dumped, stored and only  *)
(* then called complete; a drill restores it into a database of its own, judges it by *)
(* what the live database holds by then, and drops that database; expired archives    *)
(* are pruned. The process may die between any two steps.                              *)
EXTENDS Naturals, FiniteSets

CONSTANTS
  Ids, Drills,
  Names,   \* of scratch databases: two drills of one millisecond choose the same
  None,
  MaxRows, MaxDeaths, MaxDrills  \* bounds: live rows, deaths, drills begun

VARIABLES
  live,     \* rows in the witness tables
  record,   \* BackupRecord rows: status, expired
  archive,  \* what object storage holds: rows, rotten
  taking,   \* where create() stands for a backup, with the rows it dumped
  drill,    \* where verify() stands
  scratch,  \* databases besides the live one, with the drill that made each
  pruning,  \* records a prune has found expired, with what it does next
  deaths, drills,
  gone      \* history: backups whose archive a prune deleted
vars == <<live, record, archive, taking, drill, scratch, pruning, deaths, drills, gone>>

NotTaken == [pc |-> "none", rows |-> 0]
NoDrill == [pc |-> "none", id |-> None, name |-> None, rows |-> 0, before |-> 0, created |-> FALSE, passed |-> FALSE]
Init ==
  /\ live = 1 /\ deaths = 0 /\ drills = 0 /\ gone = {} /\ pruning = {}
  /\ record = [b \in Ids |-> None] /\ archive = [b \in Ids |-> None]
  /\ taking = [b \in Ids |-> NotTaken] /\ drill = [d \in Drills |-> NoDrill]
  /\ scratch = {}

Traffic ==
  /\ live' \in {live - 1, live + 1} \cap 1 .. MaxRows
  /\ UNCHANGED <<record, archive, taking, drill, scratch, pruning, deaths, drills, gone>>
Rots(b) ==
  /\ archive[b] # None /\ ~archive[b].rotten
  /\ archive' = [archive EXCEPT ![b].rotten = TRUE]
  /\ UNCHANGED <<live, record, taking, drill, scratch, pruning, deaths, drills, gone>>

\* create: the row, the dump, the store, the status; a failure is written on the row.
\* Mutant: the row is completed before the archive is stored.
CompletesFirst == [dump |-> "complete", complete |-> "store", store |-> "none"]
AfterStep == [dump |-> "store", store |-> "complete", complete |-> "none"]
Begins(b) ==
  /\ record[b] = None /\ taking[b] = NotTaken /\ b \notin gone
  /\ record' = [record EXCEPT ![b] = [status |-> "running", expired |-> FALSE]]
  /\ taking' = [taking EXCEPT ![b].pc = "dump"]
  /\ UNCHANGED <<live, archive, drill, scratch, pruning, deaths, drills, gone>>
Takes(b, step) ==
  /\ taking[b].pc = step
  /\ LET next == AfterStep[step] IN
     taking' = [taking EXCEPT ![b] = IF next = "none" THEN NotTaken
                                      ELSE [pc |-> next, rows |-> IF step = "dump" THEN live ELSE @.rows]]
  /\ UNCHANGED <<live, drill, scratch, pruning, deaths, drills, gone>>
Dumps(b) == Takes(b, "dump") /\ UNCHANGED <<record, archive>>
Stores(b) ==
  /\ Takes(b, "store")
  /\ archive' = [archive EXCEPT ![b] = [rows |-> taking[b].rows, rotten |-> FALSE]]
  /\ UNCHANGED record
Completes(b) ==
  /\ Takes(b, "complete")
  /\ record' = [record EXCEPT ![b].status = "completed"]
  /\ UNCHANGED archive
Fails(b) ==
  /\ taking[b] # NotTaken
  /\ taking' = [taking EXCEPT ![b] = NotTaken]
  /\ record' = [record EXCEPT ![b].status = "failed"]
  /\ UNCHANGED <<live, archive, drill, scratch, pruning, deaths, drills, gone>>

\* verify: any backup that is not being taken.
StartsDrill(d) ==
  /\ drill[d] = NoDrill /\ drills < MaxDrills
  /\ drills' = drills + 1
  /\ \E b \in Ids, n \in Names :
       /\ record[b] # None /\ record[b].status # "running"
       /\ drill' = [drill EXCEPT ![d] = [NoDrill EXCEPT !.pc = "fetch", !.id = b, !.name = n]]
  /\ UNCHANGED <<live, record, archive, taking, scratch, pruning, deaths, gone>>
Judges(d, ok) == [drill[d] EXCEPT !.pc = "write", !.passed = ok]
Fetches(d) ==
  /\ drill[d].pc = "fetch"
  /\ LET a == archive[drill[d].id] IN
     drill' = [drill EXCEPT ![d] =
                 IF a = None THEN Judges(d, FALSE)
                 ELSE IF a.rotten THEN Judges(d, FALSE)
                 ELSE [@ EXCEPT !.pc = "createdb", !.rows = a.rows]]
  /\ UNCHANGED <<live, record, archive, taking, scratch, pruning, deaths, drills, gone>>
\* Mutant: the drill takes the database for its own before it has made it.
OwnsAnyway(taken) == TRUE
Owns(taken) == ~taken
\* The live database is counted just before.
CreatesDatabase(d) ==
  /\ drill[d].pc = "createdb"
  /\ LET taken == \E s \in scratch : s.name = drill[d].name IN
     /\ scratch' = scratch \cup IF taken THEN {} ELSE {[name |-> drill[d].name, by |-> d]}
     /\ drill' = [drill EXCEPT ![d] = [(IF taken THEN Judges(d, FALSE) ELSE [@ EXCEPT !.pc = "restore"])
                                        EXCEPT !.created = Owns(taken), !.before = live]]
  /\ UNCHANGED <<live, record, archive, taking, pruning, deaths, drills, gone>>
\* The verdict is the count: fewer rows than the live database held is a failure.
Restores(d) ==
  /\ drill[d].pc = "restore"
  /\ \E after \in {0, drill[d].rows} :
       drill' = [drill EXCEPT ![d] =
                   Judges(d, after >= drill[d].before /\ \E s \in scratch : s.name = drill[d].name)]
  /\ UNCHANGED <<live, record, archive, taking, scratch, pruning, deaths, drills, gone>>
WritesVerdict(d) ==
  /\ drill[d].pc = "write"
  /\ record' = IF record[drill[d].id] = None THEN record
               ELSE [record EXCEPT ![drill[d].id].status = IF drill[d].passed THEN "verified" ELSE "unrestorable"]
  /\ drill' = [drill EXCEPT ![d].pc = "drop"]
  /\ UNCHANGED <<live, archive, taking, scratch, pruning, deaths, drills, gone>>
DropsDatabase(d) ==
  /\ drill[d].pc = "drop"
  /\ scratch' = {s \in scratch : ~drill[d].created \/ s.name # drill[d].name}
  /\ drill' = [drill EXCEPT ![d] = NoDrill]
  /\ UNCHANGED <<live, record, archive, taking, pruning, deaths, drills, gone>>

Expires(b) ==
  /\ record[b] # None /\ ~record[b].expired /\ record[b].status \notin {"running", "failed"}
  /\ record' = [record EXCEPT ![b].expired = TRUE]
  /\ UNCHANGED <<live, archive, taking, drill, scratch, pruning, deaths, drills, gone>>
\* prune: the expired are found once; each archive goes before its record.
FindsExpired ==
  /\ pruning = {}
  /\ pruning' = {<<b, "archive">> : b \in {b \in Ids : record[b] # None /\ record[b].expired}}
  /\ pruning' # {}
  /\ UNCHANGED <<live, record, archive, taking, drill, scratch, deaths, drills, gone>>
DeletesArchive(b) ==
  /\ <<b, "archive">> \in pruning
  /\ archive' = [archive EXCEPT ![b] = None]
  /\ gone' = gone \cup {b}
  /\ pruning' = (pruning \ {<<b, "archive">>}) \cup {<<b, "record">>}
  /\ UNCHANGED <<live, record, taking, drill, scratch, deaths, drills>>
DeletesRecord(b) ==
  /\ <<b, "record">> \in pruning
  /\ record' = [record EXCEPT ![b] = None]
  /\ pruning' = pruning \ {<<b, "record">>}
  /\ UNCHANGED <<live, archive, taking, drill, scratch, deaths, drills, gone>>

Dies ==
  /\ deaths < MaxDeaths /\ deaths' = deaths + 1
  /\ taking' = [b \in Ids |-> NotTaken] /\ drill' = [d \in Drills |-> NoDrill] /\ pruning' = {}
  /\ UNCHANGED <<live, record, archive, scratch, drills, gone>>

Next ==
  \/ Traffic \/ FindsExpired \/ Dies
  \/ \E b \in Ids : \/ Rots(b) \/ Begins(b) \/ Dumps(b) \/ Stores(b) \/ Completes(b) \/ Fails(b)
                    \/ Expires(b) \/ DeletesArchive(b) \/ DeletesRecord(b)
  \/ \E d \in Drills : \/ StartsDrill(d) \/ Fetches(d) \/ CreatesDatabase(d) \/ Restores(d)
                       \/ WritesVerdict(d) \/ DropsDatabase(d)
Spec == Init /\ [][Next]_vars
-----------------------------------------------------------------------------
\* A backup that is called complete, or verified, is in the store, whatever died in
\* between: only a prune takes an archive away, and readiness counts on it until then.
CompleteIsStored ==
  \A b \in Ids :
    record[b] # None /\ record[b].status \in {"completed", "verified"} => archive[b] # None \/ b \in gone

\* A drill that restores has the database it made: another drill, even one that chose
\* the same name, never drops it under it.
DrillsAreAlone ==
  \A d \in Drills :
    drill[d].pc = "restore" => [name |-> drill[d].name, by |-> d] \in scratch
=============================================================================
