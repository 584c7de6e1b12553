----------------------------- MODULE Customers -----------------------------
(* Customers, their contact methods and the conversations opened with them:
   find-or-create by contact, contacts added and removed, deletion, and the merge of
   two records, which reads both outside the transaction that moves what they own. *)
EXTENDS Naturals, FiniteSets

CONSTANTS
  Requests,    \* requests in flight
  People,      \* customer ids that may be used
  Contacts,    \* contact values, normalised
  Nobody,      \* no customer
  Gone,        \* the id of a deleted customer, which is not given again
  MaxAsked     \* bound: requests

VARIABLES
  customer,    \* the record each was merged into, itself while it lives; Nobody, then Gone
  contact,     \* the owner of each contact method
  talk,        \* the customer of the conversation opened by each contact
  task, asked,
  known,       \* history: contacts that were attached, and not removed since
  excuse       \* history: a merge of a record that was merged, requests that overlapped
vars == <<customer, contact, talk, task, asked, known, excuse>>

NoTask == [pc |-> "idle", k |-> Nobody, id |-> Nobody, to |-> Nobody, mine |-> {}, theirs |-> {}]
Init ==
  /\ customer = [c \in People |-> Nobody]
  /\ contact = [k \in Contacts |-> Nobody]
  /\ talk = [k \in Contacts |-> Nobody]
  /\ task = [r \in Requests |-> NoTask]
  /\ asked = 0 /\ known = {} /\ excuse = {}

Made == {c \in People : customer[c] \in People}
Lives(c) == customer[c] = c    \* mergedIntoId is null
\* get follows the chain to the survivor; a chain that never ends is an error.
Chain(c) ==
  LET at[i \in 0 .. Cardinality(People)] ==
        IF i = 0 THEN c ELSE IF at[i - 1] \in People THEN customer[at[i - 1]] ELSE Gone
  IN at
Survivor(c) ==
  LET last == Chain(c)[Cardinality(People)] IN
  IF last \in People /\ Lives(last) THEN last ELSE Nobody
Owned(c) == {k \in Contacts : contact[k] = c}

Begins(r, t) == task[r] = NoTask /\ asked < MaxAsked /\ asked' = asked + 1 /\ task' = [task EXCEPT ![r] = t]
At(r, pc) == task[r].pc = pc
Goes(r, t) == task' = [task EXCEPT ![r] = t]
Busy(r) == \E q \in Requests \ {r} : task[q] # NoTask
Overlap(r) == IF Busy(r) THEN {"overlap"} ELSE {}

-----------------------------------------------------------------------------
\* findOrCreateByContact: a contact that is known leads to its owner's survivor.
Finds(r, k) ==
  /\ IF contact[k] # Nobody
     THEN Survivor(contact[k]) # Nobody
          /\ Begins(r, [NoTask EXCEPT !.pc = "open", !.k = k, !.id = Survivor(contact[k])])
     ELSE Begins(r, [NoTask EXCEPT !.pc = "create", !.k = k])
  /\ UNCHANGED <<customer, contact, talk, known, excuse>>
\* create inserts the customer and the contact together; a contact is unique.
Creates(r, c) ==
  LET k == task[r].k IN
  /\ At(r, "create") /\ customer[c] = Nobody
  /\ IF contact[k] # Nobody THEN Goes(r, NoTask) /\ UNCHANGED <<customer, contact, known>>
     ELSE /\ customer' = [customer EXCEPT ![c] = c]
          /\ contact' = [contact EXCEPT ![k] = c]
          /\ known' = known \cup {k}
          /\ Goes(r, [NoTask EXCEPT !.pc = "open", !.k = k, !.id = c])
  /\ UNCHANGED <<talk, asked, excuse>>
\* The caller opens a conversation with the customer he was given.
Opens(r) ==
  /\ At(r, "open")
  /\ talk' = [talk EXCEPT ![task[r].k] = IF task[r].id \in Made THEN task[r].id ELSE Nobody]
  /\ excuse' = excuse \cup Overlap(r)
  /\ Goes(r, NoTask)
  /\ UNCHANGED <<customer, contact, asked, known>>

\* addContactMethod writes to the id it is given, whoever survives it.
Adds(r, c, k) ==
  /\ contact[k] = Nobody /\ c \in Made
  /\ Begins(r, [NoTask EXCEPT !.pc = "add", !.k = k, !.id = c])
  /\ UNCHANGED <<customer, contact, talk, known, excuse>>
Attaches(r) ==
  LET k == task[r].k IN
  /\ At(r, "add")
  /\ IF contact[k] = Nobody /\ task[r].id \in Made
     THEN contact' = [contact EXCEPT ![k] = task[r].id] /\ known' = known \cup {k}
     ELSE UNCHANGED <<contact, known>>
  /\ excuse' = excuse \cup Overlap(r)
  /\ Goes(r, NoTask)
  /\ UNCHANGED <<customer, talk, asked>>
Removes(k) ==
  /\ contact[k] # Nobody
  /\ contact' = [contact EXCEPT ![k] = Nobody]
  /\ known' = known \ {k}
  /\ UNCHANGED <<customer, talk, task, asked, excuse>>
\* delete takes the row of the id, with its contacts; conversations lose their customer.
Deletes(c) ==
  /\ c \in Made /\ Survivor(c) # Nobody
  /\ customer' = [p \in People |-> IF p = c THEN Gone ELSE customer[p]]
  /\ contact' = [k \in Contacts |-> IF contact[k] = c THEN Nobody ELSE contact[k]]
  /\ talk' = [k \in Contacts |-> IF talk[k] = c THEN Nobody ELSE talk[k]]
  /\ known' = known \ Owned(c)
  /\ excuse' = excuse \cup {"deleted"}
  /\ UNCHANGED <<task, asked>>

-----------------------------------------------------------------------------
\* merge reads the survivors of both ids, and writes to the ids themselves.
Reads(r, s, t) ==
  /\ s # t /\ Survivor(s) # Nobody /\ Survivor(t) # Nobody
  /\ Begins(r, [NoTask EXCEPT !.pc = "merge", !.id = s, !.to = t,
                              !.mine = Owned(Survivor(s)), !.theirs = Owned(Survivor(t))])
  /\ excuse' = IF Lives(s) /\ Lives(t) THEN excuse ELSE excuse \cup {"again"}
  /\ UNCHANGED <<customer, contact, talk, known>>
\* A contact both have is dropped from the source; the others move.
\* Mutant: conversations stay with the source.
StaysWith(s, t) == s
MovesTo(s, t) == t
Merges(r) ==
  LET s == task[r].id  t == task[r].to IN
  /\ At(r, "merge")
  /\ IF s \in Made /\ t \in Made /\ \A k \in task[r].mine : contact[k] # Nobody
     THEN /\ contact' = [k \in Contacts |-> IF k \in task[r].mine
                                            THEN (IF k \in task[r].theirs THEN Nobody ELSE t)
                                            ELSE contact[k]]
          /\ talk' = [k \in Contacts |-> IF talk[k] = s THEN MovesTo(s, t) ELSE talk[k]]
          /\ customer' = [customer EXCEPT ![s] = t]
     ELSE UNCHANGED <<customer, contact, talk>>
  /\ excuse' = excuse \cup Overlap(r)
  /\ Goes(r, NoTask)
  /\ UNCHANGED <<asked, known>>

Next ==
  \/ \E r \in Requests :
       \/ \E k \in Contacts : Finds(r, k) \/ \E c \in People : Adds(r, c, k)
       \/ \E c \in People : Creates(r, c)
       \/ Opens(r) \/ Attaches(r) \/ Merges(r)
       \/ \E s, t \in People : Reads(r, s, t)
  \/ \E k \in Contacts : Removes(k)
  \/ \E c \in People : Deletes(c)
Spec == Init /\ [][Next]_vars

-----------------------------------------------------------------------------
\* Records, contacts and requests have their types.
TypeOK ==
  /\ customer \in [People -> People \cup {Nobody, Gone}]
  /\ contact \in [Contacts -> People \cup {Nobody}]
  /\ known \subseteq Contacts

\* A contact that was not removed still leads to a living customer, and a conversation
\* is with one, unless a merged record was merged again, a customer was deleted, or
\* requests overlapped (customers.service.ts:297-316, 347-442).
ContactsLead ==
  excuse = {} =>
    /\ \A k \in known : contact[k] # Nobody /\ Survivor(contact[k]) # Nobody
    /\ \A k \in Contacts : talk[k] # Nobody => Lives(talk[k])

\* What merge promises: contact methods move, and links keep resolving
\* (customers.service.ts:357-362).
MergeKeepsContacts ==
  excuse \subseteq {"again"} => \A k \in known : contact[k] # Nobody
=============================================================================
