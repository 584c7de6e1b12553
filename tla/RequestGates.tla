---------------------------- MODULE RequestGates ----------------------------
(* What a POST request passes before its handler: the fixed-window rate limit,
   counted in Redis, and the idempotency key, a row with the answer once there is
   one. Requests of one caller with one key; the process may stop at any of them. *)
EXTENDS Naturals, FiniteSets

CONSTANTS
  Requests,    \* requests in flight
  Bodies,      \* request bodies, told apart by their hash
  Limit,       \* the bucket's limit
  NoRow,       \* no idempotency row
  MaxAsked, MaxStops   \* bounds: requests, process stops

VARIABLES
  window,    \* the counter and whether it has a time to live
  key,       \* the idempotency row, or NoRow
  req,       \* what each request is doing
  asked, stops,
  effects,   \* history: handlers that ran to the end
  purges,    \* history: rows the purge took
  turned     \* history: a request was refused with no window running
vars == <<window, key, req, asked, stops, effects, purges, turned>>

Idle == [pc |-> "idle", body |-> CHOOSE b \in Bodies : TRUE, over |-> FALSE]
Row(b) == [body |-> b, answered |-> FALSE, expired |-> FALSE]

Init ==
  /\ window = [count |-> 0, running |-> FALSE]
  /\ key = NoRow
  /\ req = [r \in Requests |-> Idle]
  /\ asked = 0 /\ stops = 0 /\ effects = 0 /\ purges = 0 /\ turned = FALSE

At(r, pc) == req[r].pc = pc
Goes(r, pc) == req' = [req EXCEPT ![r].pc = pc]
Ends(r) == req' = [req EXCEPT ![r] = Idle]

-----------------------------------------------------------------------------
(* RateLimitGuard and incrementWindow. *)

\* INCR and TTL run together; whoever finds no time to live sets one.
\* Mutant: only the first request of a window sets it.
FirstSetsTtl == window.count = 0
SetsTtl == ~window.running
Counts(r, b) ==
  /\ At(r, "idle") /\ asked < MaxAsked
  /\ asked' = asked + 1
  /\ window' = [window EXCEPT !.count = @ + 1]
  /\ LET over == window.count + 1 > Limit
     IN IF SetsTtl
        THEN /\ req' = [req EXCEPT ![r] = [pc |-> "expire", body |-> b, over |-> over]]
             /\ UNCHANGED turned
        ELSE IF over THEN turned' = (turned \/ ~window.running) /\ UNCHANGED req
        ELSE /\ req' = [req EXCEPT ![r] = [pc |-> "look", body |-> b, over |-> FALSE]]
             /\ UNCHANGED turned
  /\ UNCHANGED <<key, stops, effects, purges>>
\* EXPIRE does nothing to a key that is gone; the count is judged as it was.
StartsWindow(r) ==
  /\ At(r, "expire")
  /\ window' = [window EXCEPT !.running = window.count > 0]
  /\ IF req[r].over THEN Ends(r) ELSE Goes(r, "look")
  /\ UNCHANGED <<key, asked, stops, effects, purges, turned>>
WindowEnds ==
  /\ window.running
  /\ window' = [count |-> 0, running |-> FALSE]
  /\ UNCHANGED <<key, req, asked, stops, effects, purges, turned>>

-----------------------------------------------------------------------------
(* IdempotencyInterceptor. *)

\* A row answers with what it holds, or with a conflict; no row lets the request on.
\* Mutant: a key still in flight does not stop a second request.
OnlyAnswersStop == key # NoRow /\ key.answered
Stops409 == key # NoRow
Looks(r) ==
  /\ At(r, "look")
  /\ IF Stops409 THEN Ends(r) ELSE Goes(r, "create")
  /\ UNCHANGED <<window, key, asked, stops, effects, purges, turned>>
\* The row is unique: the loser of two inserts fails.
Creates(r) ==
  /\ At(r, "create")
  /\ IF Stops409 THEN Ends(r) /\ UNCHANGED key
     ELSE Goes(r, "run") /\ key' = Row(req[r].body)
  /\ UNCHANGED <<window, asked, stops, effects, purges, turned>>
Runs(r) ==
  /\ At(r, "run")
  /\ \/ Goes(r, "save") /\ effects' = effects + 1
     \/ Goes(r, "release") /\ UNCHANGED effects
  /\ UNCHANGED <<window, key, asked, stops, purges, turned>>
\* Both writes go by the key, whoever's row it is by now, and swallow a failure.
Saves(r) ==
  /\ At(r, "save")
  /\ key' = IF key = NoRow THEN NoRow ELSE [key EXCEPT !.answered = TRUE]
  /\ Ends(r)
  /\ UNCHANGED <<window, asked, stops, effects, purges, turned>>
Releases(r) ==
  /\ At(r, "release")
  /\ key' = NoRow
  /\ Ends(r)
  /\ UNCHANGED <<window, asked, stops, effects, purges, turned>>

-----------------------------------------------------------------------------
\* A day passes; the hourly purge takes the row. No answer is as old as a purge.
Ages ==
  /\ key # NoRow /\ ~key.expired
  /\ key' = [key EXCEPT !.expired = TRUE]
  /\ UNCHANGED <<window, req, asked, stops, effects, purges, turned>>
\* Mutant: only answered keys are purged.
AnsweredOnly == key # NoRow /\ key.expired /\ key.answered
Purgeable == key # NoRow /\ key.expired
Purges ==
  /\ Purgeable
  /\ key' = NoRow
  /\ purges' = purges + 1
  /\ UNCHANGED <<window, req, asked, stops, effects, turned>>

ProcessStops(r) ==
  /\ ~At(r, "idle") /\ stops < MaxStops
  /\ stops' = stops + 1
  /\ Ends(r)
  /\ UNCHANGED <<window, key, asked, effects, purges, turned>>

Serves(r) ==
  \/ StartsWindow(r) \/ Looks(r) \/ Creates(r) \/ Runs(r) \/ Saves(r) \/ Releases(r)
Next ==
  \/ \E r \in Requests : Serves(r) \/ ProcessStops(r) \/ \E b \in Bodies : Counts(r, b)
  \/ WindowEnds \/ Ages \/ Purges

\* A request is served, a day passes, the purge comes every hour.
Fairness ==
  /\ \A r \in Requests : WF_vars(Serves(r))
  /\ WF_vars(Ages)
  /\ WF_vars(Purges)
Spec == Init /\ [][Next]_vars /\ Fairness

-----------------------------------------------------------------------------
\* The counter, the row and the requests have their types.
TypeOK ==
  /\ window \in [count : 0 .. MaxAsked, running : BOOLEAN]
  /\ key = NoRow \/ key \in [body : Bodies, answered : BOOLEAN, expired : BOOLEAN]
  /\ \A r \in Requests : req[r].body \in Bodies

\* However often a request is sent with one key, its handler completes once, and
\* once more for each purge of the key (idempotency.interceptor.ts:44-90).
OncePerKey == effects <= 1 + purges

\* A key a stopped process left in flight is free again one day
\* (idempotency.interceptor.ts:57-70, workers.service.ts:169-178).
HeldKeysAreFreed == (key # NoRow /\ ~key.answered) ~> (key = NoRow \/ key.answered)

\* Whoever is refused for the rate may come back: a window is running, whichever
\* request died before it gave the counter a time to live (redis.service.ts:81-99).
RefusedMayReturn == ~turned
=============================================================================
