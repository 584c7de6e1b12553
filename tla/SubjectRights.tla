--------------------------- MODULE SubjectRights ---------------------------
(* What the platform holds about one customer, its export and its erasure: the plan
   runs table by table, without a transaction, over ids it read first, while rows
   still arrive and the process may stop; an erasure that stopped is asked for again. *)
EXTENDS Naturals, Sequences

CONSTANTS
  Arriving,               \* kinds of rows that arrive
  Erasers,                \* erase requests in flight
  MaxErasures, MaxWrites  \* bounds: erasures begun, rows that arrive

VARIABLES
  customer,   \* the customer row exists
  data,       \* the row of each kind: "none", "held" with personal data, "erased"
  linked,     \* rows whose customerId is the customer's
  object,     \* kinds whose stored object exists
  archive,    \* the export archive exists
  erase,      \* erasures in flight
  export,     \* an export read the tables and has yet to store them
  begun, writes,
  late,       \* history: rows that arrived when they could not be found any more
  excuse      \* history: an export beside an erasure, an object the store kept
vars == <<customer, data, linked, object, archive, erase, export, begun, writes, late, excuse>>

Roots == {"conversation", "ticket", "call"}
Parent == [message |-> "conversation", participant |-> "conversation", attachment |-> "message",
           comment |-> "ticket", event |-> "call", recording |-> "call", segment |-> "call"]
\* Notes, memory, activities and contact methods are the customer's own.
Kinds == Roots \cup {"own"} \cup DOMAIN Parent
Stored == {"attachment", "recording"}

\* Mutant: conversations are taken from their customer before their messages are redacted.
EagerPlan == <<"own", "attachment", "recording", "conversation", "message", "participant",
               "event", "call", "ticket", "customer">>
Plan == <<"own", "attachment", "recording", "message", "participant",
          "event", "call", "conversation", "ticket", "customer">>
Planned == {Plan[n] : n \in DOMAIN Plan} \ {"customer"}

NoErasure == [pc |-> "idle", n |-> 0, scope |-> {}]
Init ==
  /\ customer = TRUE
  /\ data = [k \in Kinds |-> "none"] /\ linked = {} /\ object = {}
  /\ archive = FALSE /\ export = FALSE
  /\ erase = [e \in Erasers |-> NoErasure]
  /\ begun = 0 /\ writes = 0 /\ late = {} /\ excuse = {}

Erasing == \E e \in Erasers : erase[e] # NoErasure
\* The rows an erasure that begins now comes upon: what is the customer's own, and what
\* hangs off a row of his.
RootOf(k) ==
  LET up(j) == IF j \in DOMAIN Parent THEN Parent[j] ELSE j IN up(up(k))
Found(k) == customer /\ (k = "own" \/ RootOf(k) \in linked)

-----------------------------------------------------------------------------
\* A row arrives, whatever happens to its customer meanwhile.
Arrives(k) ==
  /\ writes < MaxWrites /\ data[k] = "none"
  /\ IF k \in DOMAIN Parent THEN data[Parent[k]] # "none" ELSE customer
  /\ data' = [data EXCEPT ![k] = "held"]
  /\ linked' = linked \cup ({k} \cap Roots)
  /\ object' = object \cup ({k} \cap Stored)
  /\ late' = IF Erasing \/ (k \in DOMAIN Parent /\ ~Found(Parent[k])) THEN late \cup {k} ELSE late
  /\ writes' = writes + 1
  /\ UNCHANGED <<customer, archive, erase, export, begun, excuse>>

ExportReads ==
  /\ customer /\ ~export
  /\ export' = TRUE
  /\ excuse' = IF Erasing THEN excuse \cup {"export"} ELSE excuse
  /\ UNCHANGED <<customer, data, linked, object, archive, erase, begun, writes, late>>
ExportStores ==
  /\ export
  /\ archive' = TRUE /\ export' = FALSE
  /\ UNCHANGED <<customer, data, linked, object, erase, begun, writes, late, excuse>>

-----------------------------------------------------------------------------
At(e, pc) == erase[e].pc = pc
Goes(e, t) == erase' = [erase EXCEPT ![e] = t]
\* erase needs the customer, then reads the ids of what hangs off him.
Begins(e) ==
  /\ At(e, "idle") /\ begun < MaxErasures /\ customer
  /\ begun' = begun + 1
  /\ Goes(e, [NoErasure EXCEPT !.pc = "conversation"])
  /\ excuse' = IF export THEN excuse \cup {"export"} ELSE excuse
  /\ UNCHANGED <<customer, data, linked, object, archive, export, writes, late>>
ReadsIds(e) ==
  \E k \in Roots :
    /\ At(e, k)
    /\ Goes(e, [erase[e] EXCEPT !.scope = @ \cup ({k} \cap linked),
                  !.pc = [conversation |-> "ticket", ticket |-> "call", call |-> "message"][k]])
    /\ UNCHANGED <<customer, data, linked, object, archive, export, begun, writes, late, excuse>>
ReadsMessages(e) ==
  /\ At(e, "message")
  /\ Goes(e, [erase[e] EXCEPT !.pc = "archive",
                !.scope = IF "conversation" \in @ /\ data["message"] # "none" THEN @ \cup {"message"} ELSE @])
  /\ UNCHANGED <<customer, data, linked, object, archive, export, begun, writes, late, excuse>>
DropsArchive(e) ==
  /\ At(e, "archive")
  /\ archive' = FALSE
  /\ Goes(e, [erase[e] EXCEPT !.pc = "step", !.n = 1])
  /\ UNCHANGED <<customer, data, linked, object, export, begun, writes, late, excuse>>

\* whereFor: the rows a step covers are those of the ids read before.
Covers(e, k) ==
  /\ data[k] # "none"
  /\ k = "own" \/ k \in erase[e].scope \/ (k \in DOMAIN Parent \ {"message"} /\ Parent[k] \in erase[e].scope)
Passed(e) == [erase[e] EXCEPT !.pc = "step", !.n = @ + 1]
\* One statement deletes the rows of a kind, or redacts them and unlinks them.
Erases(e) ==
  /\ At(e, "step")
  /\ LET k == Plan[erase[e].n] IN
     /\ k \notin Stored \cup {"customer"}
     /\ IF Covers(e, k)
        THEN data' = [data EXCEPT ![k] = IF k = "own" THEN "none" ELSE "erased"] /\ linked' = linked \ {k}
        ELSE UNCHANGED <<data, linked>>
  /\ Goes(e, Passed(e))
  /\ UNCHANGED <<customer, object, archive, export, begun, writes, late, excuse>>
\* The objects of the rows found go before these rows; the store may keep one.
DropsObject(e, k) ==
  /\ At(e, "step") /\ Covers(e, k)
  /\ \/ object' = object \ {k} /\ UNCHANGED excuse
     \/ excuse' = excuse \cup {"store"} /\ UNCHANGED object
  /\ Goes(e, [erase[e] EXCEPT !.pc = "row", !.scope = @ \cup {k}])
  /\ UNCHANGED data
\* The rows go by their ids: not those that another erasure deleted, nor their successors.
DropsRow(e, k) ==
  /\ At(e, "row") /\ UNCHANGED <<object, excuse>>
  /\ IF k \in erase[e].scope
     THEN /\ data' = [data EXCEPT ![k] = "none"]
          /\ erase' = [f \in Erasers |-> [(IF f = e THEN Passed(e) ELSE erase[f]) EXCEPT !.scope = @ \ {k}]]
     ELSE Goes(e, Passed(e)) /\ UNCHANGED data
ErasesStored(e) ==
  /\ \E k \in Stored :
       /\ erase[e].n > 0 /\ Plan[erase[e].n] = k
       /\ \/ DropsObject(e, k) \/ DropsRow(e, k)
          \/ At(e, "step") /\ ~Covers(e, k) /\ Goes(e, Passed(e)) /\ UNCHANGED <<data, object, excuse>>
  /\ UNCHANGED <<customer, linked, archive, export, begun, writes, late>>
\* The customer goes last: what is his own goes with him, the rest is unlinked.
ErasesCustomer(e) ==
  /\ At(e, "step") /\ Plan[erase[e].n] = "customer"
  /\ customer' = FALSE
  /\ data' = [data EXCEPT !["own"] = "none"]
  /\ linked' = linked \cap {"call"}
  /\ Goes(e, NoErasure)
  /\ UNCHANGED <<object, archive, export, begun, writes, late, excuse>>
Stops(e) ==
  /\ ~At(e, "idle")
  /\ Goes(e, NoErasure)
  /\ UNCHANGED <<customer, data, linked, object, archive, export, begun, writes, late, excuse>>

Next ==
  \/ \E k \in Arriving : Arrives(k)
  \/ ExportReads \/ ExportStores
  \/ \E e \in Erasers :
       \/ Begins(e) \/ ReadsIds(e) \/ ReadsMessages(e) \/ DropsArchive(e)
       \/ Erases(e) \/ ErasesStored(e) \/ ErasesCustomer(e) \/ Stops(e)
Spec == Init /\ [][Next]_vars

-----------------------------------------------------------------------------
\* Rows, links and erasures have their types.
TypeOK ==
  /\ data \in [Kinds -> {"none", "held", "erased"}] /\ linked \subseteq Roots
  /\ object \subseteq Stored
  /\ \A e \in Erasers : erase[e].n \in 0 .. Len(Plan) /\ erase[e].scope \subseteq Kinds

\* Wherever an erasure stops, what it left of the tables in its plan is found by the next
\* one: no row is cut off from its customer before it is erased, but those that arrive
\* meanwhile; a stored object has a row that leads to it, unless the store kept it; and
\* no archive outlives the customer, unless an export ran beside (erasure-plan.ts:126-137,
\* subject-rights.service.ts:155-289).
NothingStranded ==
  /\ \A k \in Planned : data[k] = "held" /\ k \notin late => Found(k)
  /\ \A k \in object : data[k] = "none" => "store" \in excuse
  /\ archive /\ ~customer => "export" \in excuse

\* Erasing a person takes every word they wrote or said (erasure-plan.ts:76-119).
NothingIsLeft == ~customer /\ late = {} /\ excuse = {} => \A k \in Kinds : data[k] # "held"
=============================================================================
