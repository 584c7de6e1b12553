------------------------------ MODULE MCStaff ------------------------------
(* Who may do what, how many, and what may answer: agent versions and their      *)
(* release (AgentRelease), accounts with their sessions and roles (Accounts), a  *)
(* single sign-on connection (SingleSignOn), seats and plans (PlanLimits). They  *)
(* share no state: the first state chooses the part that moves.                  *)
EXTENDS AgentRelease, TLC

CONSTANTS
  Roles, Codes, SystemRoles, AccessTtl, RefreshTtl, MinMark, MaxFailed, LockBase,  \* of Members
  Logins, States, Uris,                                                           \* of SingleSignOn
  Tiers, SeatsOf, Overrides,                                                      \* of PlanLimits
  NoKeys,
  MaxTime, MaxSessions, MaxCalls, MaxGrants, MaxRotations, MaxChanges, MaxSeats, MaxAsked  \* bounds

\* Nobody is no role, some key URI may be configured, and plans are ranked by what
\* they allow, a seat for the owner at least.
ASSUME StaffAssumption ==
  /\ NoOne \notin Roles /\ Uris # {}
  /\ {AccessTtl, RefreshTtl, MinMark, MaxFailed, LockBase} \subseteq Nat
  /\ Tiers \in Seq({Tiers[i] : i \in DOMAIN Tiers})
  /\ SeatsOf \in [DOMAIN Tiers -> Nat \ {0}]
  /\ \A i, j \in DOMAIN Tiers : i <= j => SeatsOf[i] <= SeatsOf[j]
  /\ \A over \in Overrides : over \in [{"seats", "workflows"} -> Nat \cup {NoKeys}]

(* Values of the parameters. *)

TwoTiers   == <<"starter", "business">>
TwoAndThree == <<2, 3>>
SomeLimits == {[seats |-> 3, workflows |-> NoKeys], [seats |-> NoKeys, workflows |-> 1],
               [seats |-> 1, workflows |-> 2]}

\* Users, and requests of one kind, are interchangeable.
Symmetry == Permutations(Users) \cup Permutations(Operators) \cup Permutations(Builders)

VARIABLES
  part,
  clock, account, member, grants, sessions, mark, links, job, requests, cut, spent, owner, drift,
  conn, provider, cache, pending, codes, person, login, admin, changes, shown, told,
  subs, orgPlan, seats, planJob, plansAsked, joined, overtaken, lowered, promised
memberVars == <<clock, account, member, grants, sessions, mark, links, job, requests, cut, spent, owner, drift>>
ssoVars == <<conn, provider, cache, pending, codes, person, login, admin, changes, shown, told>>
planVars == <<subs, orgPlan, seats, planJob, plansAsked, joined, overtaken, lowered, promised>>

\* The requests of the other parts have the names of requests of the first, so that its
\* symmetry is theirs.
M == INSTANCE Accounts WITH Handlers <- Builders, asked <- requests, MaxRequests <- MaxCalls
S == INSTANCE SingleSignOn WITH Admins <- Builders
L == INSTANCE PlanLimits WITH Requests <- Builders, None <- NoKeys, job <- planJob, asked <- plansAsked

AllVars == <<vars, part, memberVars, ssoVars, planVars>>
AllInit ==
  /\ part \in {"release", "accounts", "sso", "plans"}
  /\ Init /\ M!Init /\ S!Init /\ L!Init
  /\ part # "release" => ver = <<Draft(CHOOSE t \in Texts : TRUE, CHOOSE u \in Users : TRUE)>>
  /\ part # "accounts" => member = NoOne /\ owner = FALSE
  /\ part # "sso" => person.known
  /\ part # "plans" => orgPlan = 1
AllNext ==
  \/ part = "release" /\ Next /\ UNCHANGED <<part, memberVars, ssoVars, planVars>>
  \/ part = "accounts" /\ M!Next /\ UNCHANGED <<part, vars, ssoVars, planVars>>
  \/ part = "sso" /\ S!Next /\ UNCHANGED <<part, vars, memberVars, planVars>>
  \/ part = "plans" /\ L!Next /\ UNCHANGED <<part, vars, memberVars, ssoVars>>
AllSpec == AllInit /\ [][AllNext]_AllVars
\* The agent release alone.
ReleaseSpec == AllInit /\ part = "release" /\ [][AllNext]_AllVars

\* A revoked token stays out, a sign-in has one live session and none once it was revoked,
\* a recovery code is accepted once, and tokens carry the role that is
\* (auth.service.ts:354-441, 646-653, auth.guard.ts:107-110, iam.service.ts:305-375),
\* but for the overlaps each names.
AccountsAreGuarded ==
  M!RevokedStayOut /\ M!RevokedForGood /\ M!CodesSpentOnce /\ M!TokensFollowTheRole
\* What an administrator changed of a connection stays changed, and no login is refused
\* for its key while the provider publishes it (sso.service.ts:111-192, 310-433).
SignOnHolds == S!ChangesTakeEffect /\ S!RotationIsNoOutage
\* Seats stay within the limit and negotiated exceptions in force
\* (billing.service.ts:97-199), but for the overlaps each names.
PlansBind == L!SeatsWithinLimit /\ L!ExceptionsAreKept
=============================================================================
