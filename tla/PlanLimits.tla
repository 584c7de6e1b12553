------------------------------ MODULE PlanLimits ------------------------------
(* The plan of one organisation and the seats it allows: the subscription is created *)
(* by whoever reads it first, limits are read before they are enforced, and plans,    *)
(* negotiated exceptions and memberships change in between.                            *)
EXTENDS Naturals, Sequences

CONSTANTS
  Requests,
  Tiers,       \* plans by rank
  SeatsOf,     \* the seats each rank allows
  Overrides,   \* records of negotiated limits, keys left out are not touched
  None,
  MaxSeats, MaxAsked  \* bounds: members, requests begun

Keys == {"seats", "workflows"}

VARIABLES
  subs,     \* Subscription rows in order of creation: plan (its rank), limits
  orgPlan,  \* the plan on the organization row
  seats,    \* memberships
  job, asked,
  joined,   \* history: somebody joined by a way that asks for no limit
  overtaken,  \* history: a request acted on what another had changed since it read it
  lowered,    \* history: a negotiated limit was set below the seats in use
  promised    \* history: the last value negotiated for each key
vars == <<subs, orgPlan, seats, job, asked, joined, overtaken, lowered, promised>>

Idle == [op |-> "none", pc |-> "none", tier |-> 0, over |-> None, sub |-> 0, seen |-> None, stale |-> FALSE]
Nothing == [k \in Keys |-> None]
Init ==
  /\ subs = <<>> /\ orgPlan \in 1 .. Len(Tiers) /\ seats = 1
  /\ job = [r \in Requests |-> Idle]
  /\ asked = 0 /\ joined = FALSE /\ overtaken = FALSE /\ lowered = FALSE
  /\ promised = Nothing

\* An exception of unlimited seats is a number no membership reaches.
Effective(sub) == IF sub.limits["seats"] # None THEN sub.limits["seats"] ELSE SeatsOf[sub.plan]
Latest == subs[Len(subs)]

\* Whoever has read and not acted yet is overtaken by a change.
HasRead(q) == job[q].pc \notin {"none", "find"}
Overtakes(r, x) ==
  job' = [q \in Requests |-> IF q = r THEN x ELSE [job[q] EXCEPT !.stale = @ \/ HasRead(q)]]
Goes(r, x) == job' = [job EXCEPT ![r] = x]

Begins(r) ==
  /\ job[r] = Idle /\ asked < MaxAsked
  /\ asked' = asked + 1
  /\ \/ Goes(r, [Idle EXCEPT !.op = "invite", !.pc = "find"])
     \/ \E t \in 1 .. Len(Tiers) : Goes(r, [Idle EXCEPT !.op = "change", !.pc = "find", !.tier = t])
     \/ \E o \in Overrides : Goes(r, [Idle EXCEPT !.op = "override", !.pc = "find", !.over = o])
  /\ UNCHANGED <<subs, orgPlan, seats, joined, overtaken, lowered, promised>>

\* subscription(): the newest row, or one made from the plan of the organization.
Finds(r) ==
  /\ job[r].pc = "find"
  /\ Goes(r, IF subs = <<>> THEN [job[r] EXCEPT !.pc = "organization"]
             ELSE [job[r] EXCEPT !.pc = "check", !.sub = Len(subs), !.seen = Latest])
  /\ UNCHANGED <<subs, orgPlan, seats, asked, joined, overtaken, lowered, promised>>
ReadsOrganization(r) ==
  /\ job[r].pc = "organization"
  /\ Goes(r, [job[r] EXCEPT !.pc = "create", !.seen = [plan |-> orgPlan, limits |-> Nothing]])
  /\ UNCHANGED <<subs, orgPlan, seats, asked, joined, overtaken, lowered, promised>>
Creates(r) ==
  /\ job[r].pc = "create"
  /\ subs' = Append(subs, job[r].seen)
  /\ overtaken' = (overtaken \/ subs # <<>>)
  /\ Overtakes(r, [job[r] EXCEPT !.pc = "check", !.sub = Len(subs) + 1])
  /\ UNCHANGED <<orgPlan, seats, asked, joined, lowered, promised>>

\* assertWithinLimit: counted with the one to come, against the row read before.
\* Mutant: the count is taken as it is.
FullAlready(limit) == seats > limit
WouldExceed(limit) == seats + 1 > limit
ChecksSeats(r) ==
  /\ job[r].op = "invite" /\ job[r].pc = "check"
  /\ Goes(r, IF WouldExceed(Effective(job[r].seen)) THEN Idle ELSE [job[r] EXCEPT !.pc = "join"])
  /\ UNCHANGED <<subs, orgPlan, seats, asked, joined, overtaken, lowered, promised>>
Joins(r) ==
  /\ job[r].pc = "join" /\ seats < MaxSeats
  /\ seats' = seats + 1
  /\ overtaken' = (overtaken \/ job[r].stale)
  /\ Overtakes(r, Idle)
  /\ UNCHANGED <<subs, orgPlan, asked, joined, lowered, promised>>
\* A directory or a first sign-on adds a member without asking billing.
JoinsByDirectory ==
  /\ seats < MaxSeats
  /\ seats' = seats + 1 /\ joined' = TRUE
  /\ job' = [q \in Requests |-> [job[q] EXCEPT !.stale = @ \/ HasRead(q)]]
  /\ UNCHANGED <<subs, orgPlan, asked, overtaken, lowered, promised>>
RemoveUser ==
  /\ seats > 1 /\ seats' = seats - 1
  /\ UNCHANGED <<subs, orgPlan, job, asked, joined, overtaken, lowered, promised>>

\* changePlan: a smaller plan than the usage is refused, by the plan's own limits.
Breaches(tier) == seats > SeatsOf[tier]
ChecksPlan(r) ==
  /\ job[r].op = "change" /\ job[r].pc = "check"
  /\ Goes(r, IF Breaches(job[r].tier) /\ job[r].tier < job[r].seen.plan THEN Idle
             ELSE [job[r] EXCEPT !.pc = "write"])
  /\ UNCHANGED <<subs, orgPlan, seats, asked, joined, overtaken, lowered, promised>>
WritesPlan(r) ==
  /\ job[r].pc = "write"
  /\ subs' = [subs EXCEPT ![job[r].sub].plan = job[r].tier]
  /\ overtaken' = (overtaken \/ job[r].stale)
  /\ Overtakes(r, [job[r] EXCEPT !.pc = "column"])
  /\ UNCHANGED <<orgPlan, seats, asked, joined, lowered, promised>>
WritesColumn(r) ==
  /\ job[r].pc = "column"
  /\ orgPlan' = job[r].tier
  /\ Goes(r, Idle)
  /\ UNCHANGED <<subs, seats, asked, joined, overtaken, lowered, promised>>

\* setLimitOverrides: what was read, with the new keys over it.
\* Mutant: the new keys replace what was negotiated before.
Replaces(limits, over) == [k \in Keys |-> over[k]]
Merges(limits, over) == [k \in Keys |-> IF over[k] # None THEN over[k] ELSE limits[k]]
SetsOverrides(r) ==
  /\ job[r].op = "override" /\ job[r].pc = "check"
  /\ LET new == Merges(job[r].seen.limits, job[r].over) IN
     /\ subs' = [subs EXCEPT ![job[r].sub].limits = new]
     /\ lowered' = (lowered \/ (new["seats"] # None /\ new["seats"] < seats))
  /\ promised' = [k \in Keys |-> IF job[r].over[k] # None THEN job[r].over[k] ELSE promised[k]]
  /\ overtaken' = (overtaken \/ job[r].stale)
  /\ Overtakes(r, Idle)
  /\ UNCHANGED <<orgPlan, seats, asked, joined>>

Next ==
  \/ JoinsByDirectory \/ RemoveUser
  \/ \E r \in Requests :
       \/ Begins(r) \/ Finds(r) \/ ReadsOrganization(r) \/ Creates(r)
       \/ ChecksSeats(r) \/ Joins(r) \/ ChecksPlan(r) \/ WritesPlan(r) \/ WritesColumn(r)
       \/ SetsOverrides(r)
Spec == Init /\ [][Next]_vars
-----------------------------------------------------------------------------
\* There are more members than seats only where somebody joined through the directory,
\* a limit was negotiated below what was in use, or two requests overlapped: one after
\* another, invitations, changes of plan and exceptions never cross the limit.
SeatsWithinLimit ==
  subs # <<>> /\ seats > Effective(Latest) => joined \/ overtaken \/ lowered

\* Every exception negotiated is in the subscription that counts, unless a request that
\* had read before it wrote after it.
ExceptionsAreKept ==
  subs # <<>> /\ ~overtaken => \A k \in Keys : Latest.limits[k] = promised[k]
=============================================================================
