--------------------------- MODULE AtLeastOnceBus ---------------------------
(***************************************************************************)
(* What the outbox promises the listeners of domain events, without saying *)
(* who delivers: an event may be delivered as often as the system likes,   *)
(* once its row is committed and never before, and it is delivered at      *)
(* least once.                                                             *)
(***************************************************************************)
EXTENDS Naturals

CONSTANT Events

VARIABLES
  committed,  \* events whose row is committed
  delivered   \* how often the listeners were called, per event

busVars == <<committed, delivered>>

Init ==
  /\ committed = {}
  /\ delivered = [e \in Events |-> 0]

Commit(e) ==
  /\ e \notin committed
  /\ committed' = committed \cup {e}
  /\ UNCHANGED delivered

Deliver(e) ==
  /\ e \in committed
  /\ delivered' = [delivered EXCEPT ![e] = @ + 1]
  /\ UNCHANGED committed

Next == \E e \in Events : Commit(e) \/ Deliver(e)

\* At least once: an event still undelivered is not left so for ever.
Fairness == \A e \in Events : WF_busVars(delivered[e] = 0 /\ Deliver(e))

Spec == Init /\ [][Next]_busVars /\ Fairness
=============================================================================
