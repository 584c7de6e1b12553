----------------------------- MODULE MCContacts -----------------------------
(* The people who write: the desk that routes conversations (Desk), customers   *)
(* and their contact methods (Customers), what is kept of a customer and erased *)
(* on request (SubjectRights). They share no state: the first state chooses the *)
(* part that moves.                                                             *)
EXTENDS Desk, TLC

CONSTANTS
  People, NoCustomer, Erased,   \* of Customers
  Arriving, Erasers,            \* of SubjectRights
  MaxAsked, MaxErasures, MaxWrites

\* Every agent takes one chat.
OneChat  == [a \in Agents |-> 1]
Symmetry == Permutations(Conversations) \cup Permutations(Messages) \cup Permutations(Handlers)

VARIABLES
  part,
  customer, contact, talk, merging, mergesAsked, known, mergeExcuse,
  subject, data, linked, object, archive, erase, export, begun, writes, late, rightsExcuse
customerVars == <<customer, contact, talk, merging, mergesAsked, known, mergeExcuse>>
rightsVars == <<subject, data, linked, object, archive, erase, export, begun, writes, late, rightsExcuse>>

\* Requests and contacts have the names of handlers and messages, and some people those
\* of conversations, so that the symmetry of the desk is theirs.
C == INSTANCE Customers WITH
       Requests <- Handlers, Contacts <- Messages, Nobody <- NoCustomer, Gone <- Erased,
       task <- merging, asked <- mergesAsked, excuse <- mergeExcuse
R == INSTANCE SubjectRights WITH customer <- subject, excuse <- rightsExcuse

\* Nobody and a deleted customer are no people; rows of the customer's kinds arrive.
ASSUME ContactsAssumption ==
  /\ IsFiniteSet(People) /\ {NoCustomer, Erased} \cap People = {} /\ NoCustomer # Erased
  /\ Arriving \subseteq R!Kinds

AllVars == <<vars, part, customerVars, rightsVars>>
AllInit == part \in {"desk", "customers", "rights"} /\ Init /\ C!Init /\ R!Init
AllNext ==
  \/ part = "desk" /\ Next /\ UNCHANGED <<part, customerVars, rightsVars>>
  \/ part = "customers" /\ C!Next /\ UNCHANGED <<part, vars, rightsVars>>
  \/ part = "rights" /\ R!Next /\ UNCHANGED <<part, vars, customerVars>>
AllSpec == AllInit /\ [][AllNext]_AllVars

\* A contact leads to a living customer, and so does a conversation
\* (customers.service.ts:297-316, 347-442), but for the overlaps the property names.
ContactsLead == C!ContactsLead
\* What an erasure left is found by the next one (erasure-plan.ts:126-137,
\* subject-rights.service.ts:155-289), but for what it names.
NothingStranded == R!NothingStranded
=============================================================================
