---------------------------- MODULE AiGovernance ----------------------------
(* One organisation's AI policy, read through one cache by every call to a model *)
(* or a tool, the chain of providers such a call tries, and the monthly budget.  *)
EXTENDS Naturals, Sequences, SequencesExt

CONSTANTS
  Callers, Updaters,  \* requests in flight
  Kinds,              \* what callers ask for, of "complete", "stream", "rerank", "tool"
  Configured,         \* the providers with credentials, as a sequence, the last one local
  Policies,           \* what a policy may say
  MaxAttempts,        \* MAX_ATTEMPTS
  MaxAsked, MaxEdits, \* bounds: calls begun, changes of policy and of route
  Nothing

VARIABLES
  policy,  \* the row
  cached,  \* the cached row, or Nothing
  route,   \* the providers of the model route, in order
  spend,   \* AiUsage of the month
  total,   \* the cached sum of it, or Nothing
  call,    \* calls in flight
  update,  \* updates in flight
  asked, edits,
  slack    \* history: since the cache last expired with no call in flight, a change found
           \* a reader with the old row in its hands, or stopped before it dropped the cache
vars == <<policy, cached, route, spend, total, call, update, asked, edits, slack>>

NoCall == [pc |-> "idle", kind |-> Nothing, hand |-> Nothing, chain |-> <<>>,
           left |-> {}, attempt |-> 0, window |-> {}]
NoUpdate == [pc |-> "idle", policy |-> Nothing, before |-> Nothing]
Init ==
  /\ policy \in Policies /\ ~policy.limited /\ policy.providers = {}
  /\ cached = Nothing /\ route = <<>>
  /\ spend = 0 /\ total = Nothing
  /\ call = [c \in Callers |-> NoCall] /\ update = [u \in Updaters |-> NoUpdate]
  /\ asked = 0 /\ edits = 0 /\ slack = FALSE

\* Calls other than c see policy q come into force.
Seen(q) == call' = [c \in Callers |-> IF call[c].pc = "idle" THEN NoCall
                                      ELSE [call[c] EXCEPT !.window = @ \cup {q}]]
Lingering == {update[u].before : u \in {v \in Updaters : update[v].pc = "drop"}}

-----------------------------------------------------------------------------
\* update reads, validates and writes the row, then drops the cached one.
UpdateReads(u, q) ==
  /\ update[u] = NoUpdate /\ edits < MaxEdits
  /\ q.providers \subseteq Range(Configured)
  /\ edits' = edits + 1
  /\ update' = [update EXCEPT ![u] = [pc |-> "write", policy |-> q, before |-> Nothing]]
  /\ UNCHANGED <<policy, cached, route, spend, total, call, asked, slack>>
\* Mutant: the cache is dropped before the row is written.
DropsFirst(u) ==
  /\ \/ /\ update[u].pc = "write" /\ cached' = Nothing
        /\ update' = [update EXCEPT ![u].pc = "drop", ![u].before = policy]
        /\ UNCHANGED <<policy, call, slack>>
     \/ /\ update[u].pc = "drop" /\ policy' = update[u].policy /\ Seen(policy')
        /\ slack' = (slack \/ \E c \in Callers : call[c].hand # Nothing)
        /\ update' = [update EXCEPT ![u] = NoUpdate]
        /\ UNCHANGED cached
  /\ UNCHANGED <<route, spend, total, asked, edits>>
UpdateWrites(u) ==
  /\ \/ /\ update[u].pc = "write" /\ policy' = update[u].policy /\ Seen(policy')
        /\ slack' = (slack \/ \E c \in Callers : call[c].hand # Nothing)
        /\ update' = [update EXCEPT ![u].pc = "drop", ![u].before = policy]
        /\ UNCHANGED cached
     \/ /\ update[u].pc = "drop" /\ cached' = Nothing
        /\ update' = [update EXCEPT ![u] = NoUpdate]
        /\ UNCHANGED <<policy, call, slack>>
  /\ UNCHANGED <<route, spend, total, asked, edits>>
UpdateStops(u) ==
  /\ update[u].pc \in {"write", "drop"}
  /\ slack' = (slack \/ update[u].pc = "drop")
  /\ update' = [update EXCEPT ![u] = NoUpdate]
  /\ UNCHANGED <<policy, cached, route, spend, total, call, asked, edits>>
\* upsertRoute: a route and its fallbacks.
SetsRoute(p) ==
  /\ edits < MaxEdits
  /\ edits' = edits + 1
  /\ route' = <<p>>
  /\ UNCHANGED <<policy, cached, spend, total, call, update, asked, slack>>
PolicyExpires ==
  /\ cached # Nothing
  /\ cached' = Nothing
  /\ slack' = (slack /\ \E c \in Callers : call[c] # NoCall)
  /\ UNCHANGED <<policy, route, spend, total, call, update, asked, edits>>
TotalExpires ==
  /\ total # Nothing
  /\ total' = Nothing
  /\ UNCHANGED <<policy, cached, route, spend, call, update, asked, edits, slack>>

-----------------------------------------------------------------------------
At(c, pc) == call[c].pc = pc
Goes(c, r) == call' = [call EXCEPT ![c] = r]
Ends(c) == Goes(c, NoCall)
Budgeted(k) == k \in {"complete", "stream"}
Asks(c, k) ==
  /\ At(c, "idle") /\ asked < MaxAsked
  /\ asked' = asked + 1
  /\ Goes(c, [NoCall EXCEPT !.pc = IF Budgeted(k) THEN "budget" ELSE "chain", !.kind = k,
                            !.window = {policy} \cup Lingering])
  /\ UNCHANGED <<policy, cached, route, spend, total, update, edits, slack>>

\* chain: the tenant's route, then whatever is configured, each provider once.
Chain == route \o SelectSeq(Configured, LAMBDA p : p \notin Range(route))
Permits(q, k, p) == IF k = "tool" THEN q.tools ELSE q.providers = {} \/ p \in q.providers
Order(k) == IF k = "tool" THEN <<"tool">> ELSE Chain
\* The places in that order that the policy permits, and who is asked of those left.
Permitted(q, k) == {i \in 1 .. Len(Order(k)) : Permits(q, k, Order(k)[i])}
Serving(c) == call[c].chain[Min(call[c].left)]
Others(c) == call[c].left \ {Min(call[c].left)}
\* What a call does with the policy it was given.
Obeys(c, q) ==
  LET k == call[c].kind IN
  IF At(c, "budget")
  THEN Goes(c, [call[c] EXCEPT !.pc = IF q.limited THEN "total" ELSE "chain", !.hand = Nothing])
  ELSE IF Permitted(q, k) = {} THEN Ends(c)
  ELSE Goes(c, [call[c] EXCEPT !.pc = "try", !.chain = Order(k), !.left = Permitted(q, k),
                               !.attempt = 1, !.hand = Nothing])
\* redis.remember: the cached row, or the row read and then stored.
FindsPolicy(c) ==
  /\ call[c].pc \in {"budget", "chain"} /\ call[c].hand = Nothing /\ cached # Nothing
  /\ Obeys(c, cached)
  /\ UNCHANGED <<policy, cached, route, spend, total, update, asked, edits, slack>>
ReadsPolicy(c) ==
  /\ call[c].pc \in {"budget", "chain"} /\ call[c].hand = Nothing /\ cached = Nothing
  /\ Goes(c, [call[c] EXCEPT !.hand = policy])
  /\ UNCHANGED <<policy, cached, route, spend, total, update, asked, edits, slack>>
StoresPolicy(c) ==
  /\ call[c].pc \in {"budget", "chain"} /\ call[c].hand # Nothing
  /\ cached' = call[c].hand
  /\ Obeys(c, call[c].hand)
  /\ UNCHANGED <<policy, route, spend, total, update, asked, edits, slack>>

\* assertWithinBudget: the month's sum, cached for a minute, against a limit of one.
Admits(c, sum) == IF sum >= 1 THEN Ends(c) ELSE Goes(c, [call[c] EXCEPT !.pc = "chain", !.hand = Nothing])
ReadsTotal(c) ==
  /\ At(c, "total")
  /\ IF total # Nothing THEN Admits(c, total)
     ELSE Goes(c, [call[c] EXCEPT !.pc = "sum", !.attempt = spend])
  /\ UNCHANGED <<policy, cached, route, spend, total, update, asked, edits, slack>>
StoresTotal(c) ==
  /\ At(c, "sum")
  /\ total' = call[c].attempt
  /\ Admits(c, call[c].attempt)
  /\ UNCHANGED <<policy, cached, route, spend, update, asked, edits, slack>>

\* The provider answers, is tried again where that may help, or is passed over.
Retried(k) == k = "complete"
Answers(c) ==
  /\ At(c, "try")
  /\ IF Budgeted(call[c].kind) THEN Goes(c, [call[c] EXCEPT !.pc = "record"]) ELSE Ends(c)
  /\ UNCHANGED <<policy, cached, route, spend, total, update, asked, edits, slack>>
TriesAgain(c) ==
  /\ At(c, "try") /\ Retried(call[c].kind) /\ call[c].attempt < MaxAttempts
  /\ Goes(c, [call[c] EXCEPT !.attempt = @ + 1])
  /\ UNCHANGED <<policy, cached, route, spend, total, update, asked, edits, slack>>
PassesOver(c) ==
  /\ At(c, "try")
  /\ IF Others(c) = {} THEN Ends(c)
     ELSE Goes(c, [call[c] EXCEPT !.left = Others(c), !.attempt = 1])
  /\ UNCHANGED <<policy, cached, route, spend, total, update, asked, edits, slack>>
\* A usage that cannot be recorded does not break the call. A stream may fail after it
\* reported its usage, and the next provider starts it over.
Records(c) ==
  /\ At(c, "record")
  /\ spend' \in {spend, spend + 1}
  /\ \/ Ends(c)
     \/ /\ call[c].kind = "stream" /\ Others(c) # {}
        /\ Goes(c, [call[c] EXCEPT !.pc = "try", !.left = Others(c), !.attempt = 1])
  /\ UNCHANGED <<policy, cached, route, total, update, asked, edits, slack>>

Next ==
  \/ \E u \in Updaters :
       \/ \E q \in Policies : UpdateReads(u, q)
       \/ UpdateWrites(u) \/ UpdateStops(u)
  \/ \E p \in Range(Configured) : SetsRoute(p)
  \/ PolicyExpires \/ TotalExpires
  \/ \E c \in Callers :
       \/ \E k \in Kinds : Asks(c, k)
       \/ FindsPolicy(c) \/ ReadsPolicy(c) \/ StoresPolicy(c) \/ ReadsTotal(c) \/ StoresTotal(c)
       \/ Answers(c) \/ TriesAgain(c) \/ PassesOver(c) \/ Records(c)
Spec == Init /\ [][Next]_vars

-----------------------------------------------------------------------------
\* Rows, caches and calls have their types.
TypeOK ==
  /\ policy \in Policies /\ cached \in Policies \cup {Nothing}
  /\ spend \in 0 .. 2 * MaxAsked /\ total \in 0 .. 2 * MaxAsked \cup {Nothing}
  /\ \A c \in Callers : call[c].window \subseteq Policies

\* Whoever is being asked was permitted by a policy in force since the call began: a
\* change takes effect at once for every call that begins after it, and no call is served
\* from outside the policy by a fallback, unless a reader held the old row when it was
\* written, or the update stopped before it dropped the cache (governance.service.ts:134-138,
\* gateway.service.ts:168-204, redis.service.ts:72-78).
ChangesBind ==
  \A c \in Callers : At(c, "try") /\ ~slack =>
    \E q \in call[c].window : Permits(q, call[c].kind, Serving(c))
=============================================================================
