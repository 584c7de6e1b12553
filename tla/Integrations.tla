----------------------------- MODULE Integrations -----------------------------
(* One integration with a CRM and a customer it brings in: how it connects may be     *)
(* changed, tested, enabled and synchronized by requests that each read the row, call  *)
(* the provider, and write the row by its id.                                           *)
EXTENDS Naturals, FiniteSets

CONSTANTS
  Requests,
  Setups,      \* configurations and credentials, as one
  Bad,         \* those the provider refuses
  None,
  MaxPages, MaxAsked  \* bounds: pages of the provider, requests begun

VARIABLES
  row,      \* setup, status, active
  name,     \* of the customer: None, or who wrote it
  known,    \* the customer exists
  job,
  asked,
  proven,   \* history: setups the provider has answered
  overtaken,  \* history: a request wrote what it had read before another changed how to connect
  typedOver   \* history: an agent typed between a sync's reading and its writing
vars == <<row, name, known, job, asked, proven, overtaken, typedOver>>

Idle == [op |-> "none", pc |-> "none", seen |-> None, set |-> None, page |-> 0, fill |-> FALSE, stale |-> FALSE]
Init ==
  /\ row \in [setup : Setups, status : {"disconnected"}, active : {FALSE}]
  /\ name = None /\ known = FALSE
  /\ job = [r \in Requests |-> Idle]
  /\ asked = 0 /\ proven = {} /\ overtaken = FALSE /\ typedOver = FALSE

Kept == UNCHANGED <<name, known, typedOver>>
\* load: the row as it is, for all that follows. A sync is of an enabled integration.
Loads(r) ==
  /\ job[r] = Idle /\ asked < MaxAsked
  /\ asked' = asked + 1
  /\ \E op \in {"rename", "test", "enable", "disable", "sync"} :
       /\ (op = "sync" => row.active) /\ (op = "enable" => row.status = "connected")
       /\ job' = [job EXCEPT ![r] = [Idle EXCEPT !.op = op, !.pc = IF op = "sync" THEN "page" ELSE "act", !.seen = row]]
  /\ UNCHANGED <<row, proven, overtaken>> /\ Kept
LoadsForUpdate(r) ==
  /\ job[r] = Idle /\ asked < MaxAsked
  /\ asked' = asked + 1
  /\ \E s \in Setups : job' = [job EXCEPT ![r] = [Idle EXCEPT !.op = "connect", !.pc = "act", !.seen = row, !.set = s]]
  /\ UNCHANGED <<row, proven, overtaken>> /\ Kept
\* The sweep takes what is enabled and connected.
SyncDue(r) ==
  /\ job[r] = Idle /\ asked < MaxAsked
  /\ asked' = asked + 1
  /\ row.active /\ row.status = "connected"
  /\ job' = [job EXCEPT ![r] = [Idle EXCEPT !.op = "sync", !.pc = "page", !.seen = row]]
  /\ UNCHANGED <<row, proven, overtaken>> /\ Kept

\* Whoever loaded the row before this write will write what is stale.
Writes(r, new) ==
  /\ row' = new
  /\ job' = [q \in Requests |-> IF q = r THEN Idle
                                ELSE [job[q] EXCEPT !.stale = @ \/ (job[q] # Idle /\ new # row)]]
  /\ overtaken' = (overtaken \/ job[r].stale)

\* update: the configuration that was read is written back even when it is not patched;
\* what changes how to connect takes back the last test.
\* Mutant: the flag that enables it stays.
StaysOn(new) == new
Untested(new) == [new EXCEPT !.status = "disconnected", !.active = FALSE]
Update(r) ==
  /\ job[r].pc = "act" /\ job[r].op \in {"rename", "connect"}
  /\ IF job[r].op = "connect" THEN Writes(r, Untested([row EXCEPT !.setup = job[r].set]))
     ELSE Writes(r, [row EXCEPT !.setup = job[r].seen.setup])
  /\ UNCHANGED <<asked, proven>> /\ Kept
SetActive(r) ==
  /\ job[r].pc = "act" /\ job[r].op \in {"enable", "disable"}
  /\ Writes(r, [row EXCEPT !.active = job[r].op = "enable"])
  /\ UNCHANGED <<asked, proven>> /\ Kept

Answers(s) == s \notin Bad
Answered(r) == proven' = proven \cup {job[r].seen.setup}
\* test: one page.
Tests(r) ==
  /\ job[r].pc = "act" /\ job[r].op = "test"
  /\ \/ /\ Answers(job[r].seen.setup) /\ Answered(r)
        /\ Writes(r, [row EXCEPT !.status = "connected"])
     \/ /\ Writes(r, [row EXCEPT !.status = "error", !.active = FALSE])
        /\ UNCHANGED proven
  /\ UNCHANGED asked /\ Kept

\* sync: page after page, each record matched to a customer and filled in.
FetchesPage(r) ==
  /\ job[r].pc = "page" /\ job[r].page < MaxPages
  /\ Answers(job[r].seen.setup) /\ Answered(r)
  /\ \E next \in {"record", "page"} : job' = [job EXCEPT ![r].pc = next, ![r].page = @ + 1]
  /\ UNCHANGED <<row, asked, overtaken>> /\ Kept
\* Mutant: what the provider says is always written.
FillsAnyway(written) == TRUE
Fills(written) == written = None
UpsertCustomer(r) ==
  /\ job[r].pc = "record"
  /\ known' = TRUE
  /\ IF known
     THEN /\ job' = [job EXCEPT ![r].pc = IF Fills(name) THEN "fill" ELSE "page"]
          /\ UNCHANGED name
     ELSE /\ name' = "provider"
          /\ job' = [job EXCEPT ![r].pc = "page"]
  /\ UNCHANGED <<row, asked, proven, overtaken, typedOver>>
WritesFill(r) ==
  /\ job[r].pc = "fill"
  /\ name' = "provider"
  /\ typedOver' = (typedOver \/ job[r].fill)
  /\ job' = [job EXCEPT ![r].pc = "page", ![r].fill = FALSE]
  /\ UNCHANGED <<row, known, asked, proven, overtaken>>
Finishes(r) ==
  /\ job[r].pc = "page" /\ job[r].page > 0
  /\ Writes(r, [row EXCEPT !.status = "connected"])
  /\ UNCHANGED <<asked, proven>> /\ Kept
Breaks(r) ==
  /\ job[r].pc = "page"
  /\ Writes(r, [row EXCEPT !.status = "error"])
  /\ UNCHANGED <<asked, proven>> /\ Kept

\* A conversation makes the customer known without a name; an agent types one.
CustomerWrites ==
  /\ ~known /\ known' = TRUE
  /\ UNCHANGED <<row, name, job, asked, proven, overtaken, typedOver>>
AgentTypes ==
  /\ known /\ name # "agent" /\ name' = "agent"
  /\ job' = [r \in Requests |-> [job[r] EXCEPT !.fill = @ \/ job[r].pc = "fill"]]
  /\ UNCHANGED <<row, known, asked, proven, overtaken, typedOver>>

Next ==
  \/ CustomerWrites \/ AgentTypes
  \/ \E r \in Requests :
       \/ Loads(r) \/ LoadsForUpdate(r) \/ SyncDue(r) \/ Update(r) \/ SetActive(r) \/ Tests(r)
       \/ FetchesPage(r) \/ UpsertCustomer(r) \/ WritesFill(r) \/ Finishes(r) \/ Breaks(r)
Spec == Init /\ [][Next]_vars
-----------------------------------------------------------------------------
\* An integration the sweep would synchronize has been answered by the provider with
\* the very configuration it has now, unless a request wrote what it had read before
\* that was changed.
EnabledIsProven ==
  row.active /\ row.status = "connected" => row.setup \in proven \/ overtaken

\* What an agent typed is never overwritten by the provider, except when it was typed
\* while a sync stood between its reading and its writing.
AgentsWordStays ==
  [][name = "agent" /\ name' # "agent" => typedOver']_vars
=============================================================================
