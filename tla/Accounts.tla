------------------------------ MODULE Accounts ------------------------------
(* Sign-in, refresh rotation, revocation and recovery for one account of one
   organization, as the auth service and the auth guard do them, and the account's
   membership, as administrators (the IAM service) and the directory (SCIM) change
   it. A request is a handler; every database or Redis write of a handler is a step
   of its own, and what it read before it may be stale by then. Time is in seconds,
   the unit of a token's iat and of the revocation watermark. An administrator's
   change is followed by a revocation of its own, two steps later; a change by the
   directory is followed by none. *)
EXTENDS Naturals, Sequences, FiniteSets

CONSTANTS
  Handlers,      \* requests that may be in flight together
  Roles,         \* roles of the organization
  Codes,         \* recovery codes handed out when MFA is confirmed
  NoOne,         \* no membership
  AccessTtl,     \* seconds an access token lives
  RefreshTtl,    \* seconds a session lives
  MinMark,       \* the watermark's minimal life (60 s)
  MaxFailed,     \* MAX_FAILED_LOGINS
  LockBase,      \* LOCKOUT_BASE_SECONDS
  SystemRoles,   \* roles whose permissions cannot be edited
  MaxTime, MaxSessions, MaxRequests,  \* bounds of an instance
  MaxGrants      \* bound: how often permissions are edited

VARIABLES
  clock,     \* now
  account,   \* the user row
  member,    \* role the membership row names, or NoOne
  grants,    \* version of each role's permissions
  sessions,  \* session rows in the order they were created
  mark,      \* revoked-before:<user> in Redis
  links,     \* verification tokens by purpose: [open, used]
  job,       \* what each handler is doing
  asked,     \* requests so far
  cut,       \* history: second of the last finished revocation, and the rows then
  spent,     \* history: how often each recovery code was accepted, and stale writes
  owner,     \* the membership's isOwner
  drift      \* history: the directory changed a role or a status
authVars == <<clock, account, member, grants, sessions, mark, links, job, asked, cut, spent>>
vars == <<authVars, owner, drift>>

LargerOf(a, b) == IF a > b THEN a ELSE b
SmallerOf(a, b) == IF a < b THEN a ELSE b

Statuses == {"none", "invited", "active", "suspended", "deactivated"}
Purposes == {"password_reset", "email_verification", "invitation"}
Idle == [pc |-> "idle", row |-> 0, fails |-> 0, codes |-> {}, code |-> "none",
         role |-> NoOne, grant |-> 0, raced |-> FALSE, then |-> "idle"]
NoMark == [at |-> 0, dies |-> 0]

Known == [status |-> "active", password |-> TRUE, fails |-> 0, until |-> 0,
          secret |-> FALSE, mfa |-> FALSE, codes |-> {}]
Unknown == [Known EXCEPT !.status = "none", !.password = FALSE]

WithMfa == [Known EXCEPT !.secret = TRUE, !.mfa = TRUE, !.codes = Codes]
FirstSession == [iat |-> 1, live |-> TRUE, root |-> 1, role |-> member, grant |-> 0, clean |-> TRUE]

\* What register leaves behind, session included, a second factor perhaps set up
\* since; or an address nobody registered.
AuthInit ==
  /\ clock = 1
  /\ \/ account \in {Known, WithMfa} /\ member \in Roles /\ sessions = <<FirstSession>>
     \/ account = Unknown /\ member = NoOne /\ sessions = <<>>
  /\ grants = [r \in Roles |-> 0]
  /\ mark = NoMark
  /\ links = [p \in Purposes |-> [open |-> FALSE, used |-> 0]]
  /\ job = [h \in Handlers |-> Idle]
  /\ asked = 0
  /\ cut = [at |-> 0, rows |-> 0]
  /\ spent = [times |-> [c \in Codes |-> 0], stale |-> 0]

-----------------------------------------------------------------------------
(* The guard. *)

WatermarkAllows(iat) == ~(clock < mark.dies /\ iat < mark.at)
Accepts(s) == clock < sessions[s].iat + AccessTtl /\ WatermarkAllows(sessions[s].iat)

-----------------------------------------------------------------------------
(* Requests. *)

Begins(h, j) ==
  /\ job[h].pc = "idle" /\ asked < MaxRequests
  /\ job' = [job EXCEPT ![h] = j]
  /\ asked' = asked + 1
Goes(h, j) == job' = [job EXCEPT ![h] = j]
Ends(h) == Goes(h, Idle)

\* What a request that may issue a session has read of the membership.
SignedIn(next) == [Idle EXCEPT !.pc = next, !.role = member, !.grant = grants[member]]
Locked == account.until > clock
Refused == account.status \in {"suspended", "deactivated"}

\* login, up to its first write: what it read of the user goes with it.
LogsIn(h) ==
  /\ account.password /\ ~Locked
  /\ \/ Begins(h, [Idle EXCEPT !.pc = "miss", !.fails = account.fails])
     \/ /\ ~Refused /\ member # NoOne
        /\ \/ Begins(h, SignedIn("clear"))      \* no second factor, or a right TOTP code
           \/ /\ account.mfa
              /\ Begins(h, [Idle EXCEPT !.pc = "miss", !.fails = account.fails])
           \/ /\ account.mfa
              /\ \E c \in account.codes :
                   Begins(h, [SignedIn("spend") EXCEPT !.code = c, !.codes = account.codes,
                                                       !.then = "clear"])
  /\ UNCHANGED <<clock, account, member, grants, sessions, mark, links, cut, spent>>

\* recordFailedLogin writes one more than the count login read.
LockedUntil(count) ==
  IF count >= MaxFailed THEN clock + LockBase * 2 ^ SmallerOf(count - MaxFailed, 6) ELSE 0
Misses(h) ==
  /\ job[h].pc = "miss"
  /\ account' = [account EXCEPT !.fails = job[h].fails + 1, !.until = LockedUntil(job[h].fails + 1)]
  /\ Ends(h)
  /\ UNCHANGED <<clock, member, grants, sessions, mark, links, asked, cut, spent>>

\* verifyMfaCode takes the code out of the list it was given, not of the row.
\* Mutant: the code is accepted and left in the list.
CodesKept(h) == job[h].codes
CodesLeft(h) == job[h].codes \ {job[h].code}
Spends(h) ==
  /\ job[h].pc = "spend"
  /\ account' = [account EXCEPT !.codes = CodesLeft(h)]
  /\ spent' = [times |-> [spent.times EXCEPT ![job[h].code] = @ + 1],
               stale |-> spent.stale + IF account.codes = job[h].codes THEN 0 ELSE 1]
  /\ Goes(h, [job[h] EXCEPT !.pc = job[h].then, !.codes = {}, !.code = "none", !.then = "idle"])
  /\ UNCHANGED <<clock, member, grants, sessions, mark, links, asked, cut>>

Clears(h) ==
  /\ job[h].pc = "clear"
  /\ account' = [account EXCEPT !.fails = 0, !.until = 0]
  /\ Goes(h, [job[h] EXCEPT !.pc = "issue"])
  /\ UNCHANGED <<clock, member, grants, sessions, mark, links, asked, cut, spent>>

Federates(h) ==
  /\ account.status # "none" /\ ~Refused /\ member # NoOne
  /\ Begins(h, SignedIn("issue"))
  /\ UNCHANGED <<clock, account, member, grants, sessions, mark, links, cut, spent>>

\* issueSession: the token is signed and the row inserted.
Issued(h) ==
  LET p == job[h].row IN
  [iat |-> clock, live |-> TRUE, root |-> IF p = 0 THEN Len(sessions) + 1 ELSE sessions[p].root,
   role |-> job[h].role, grant |-> job[h].grant,
   clean |-> ~job[h].raced /\ (p = 0 \/ sessions[p].clean)]
Issues(h) ==
  /\ job[h].pc = "issue" /\ Len(sessions) < MaxSessions
  /\ sessions' = Append(sessions, Issued(h))
  /\ Ends(h)
  /\ UNCHANGED <<clock, account, member, grants, mark, links, asked, cut, spent>>

-----------------------------------------------------------------------------
(* Refresh, sign-out and revocation. *)

\* The other refreshes of a session that have read it as live.
Overtaken(h, s, j) ==
  [g \in Handlers |->
     IF g = h THEN j ELSE [job[g] EXCEPT !.raced = @ \/ (job[g].pc = "rotate" /\ job[g].row = s)]]

Expired(s) == clock > sessions[s].iat + RefreshTtl
\* Mutant: a rotated token is refreshed again.
NeverReused(s) == FALSE
Reused(s) == ~sessions[s].live
Refreshes(h, s) ==
  /\ \/ Reused(s) /\ Begins(h, [Idle EXCEPT !.pc = "sweep"])
     \/ ~Reused(s) /\ ~Expired(s) /\ Begins(h, [Idle EXCEPT !.pc = "rotate", !.row = s])
  /\ UNCHANGED <<clock, account, member, grants, sessions, mark, links, cut, spent>>

\* The row is revoked by its id, whether or not somebody did so first.
Rotates(h) ==
  LET s == job[h].row IN
  /\ job[h].pc = "rotate"
  /\ IF member = NoOne
     THEN Ends(h) /\ UNCHANGED sessions
     ELSE /\ sessions' = [sessions EXCEPT ![s].live = FALSE]
          /\ job' = Overtaken(h, s, [SignedIn("issue") EXCEPT !.row = s, !.raced = job[h].raced])
  /\ UNCHANGED <<clock, account, member, grants, mark, links, asked, cut, spent>>

LogsOut(h, s) ==
  /\ job[h].pc = "idle" /\ asked < MaxRequests
  /\ job' = Overtaken(h, s, Idle) /\ asked' = asked + 1
  /\ sessions' = [sessions EXCEPT ![s].live = FALSE]
  /\ UNCHANGED <<clock, account, member, grants, mark, links, cut, spent>>

\* revokeAllSessions, asked for by the user; other operations enter it at "sweep".
RevokesAll(h) ==
  /\ Begins(h, [Idle EXCEPT !.pc = "sweep"])
  /\ UNCHANGED <<clock, account, member, grants, sessions, mark, links, cut, spent>>

Holding == {"spend", "clear", "rotate", "issue"}
Sweeps(h) ==
  /\ job[h].pc = "sweep"
  /\ sessions' = [s \in DOMAIN sessions |-> [sessions[s] EXCEPT !.live = FALSE]]
  /\ job' = [g \in Handlers |->
               IF g = h THEN [Idle EXCEPT !.pc = "mark", !.row = Len(sessions)]
               ELSE [job[g] EXCEPT !.raced = @ \/ job[g].pc \in Holding]]
  /\ UNCHANGED <<clock, account, member, grants, mark, links, asked, cut, spent>>

\* Mutant: the key dies before the tokens it refuses.
ShortMarkLife == MinMark
MarkLife == LargerOf(AccessTtl, MinMark)
Marks(h) ==
  /\ job[h].pc = "mark"
  /\ mark' = [at |-> clock, dies |-> clock + MarkLife]
  /\ cut' = [at |-> clock, rows |-> LargerOf(cut.rows, job[h].row)]
  /\ Ends(h)
  /\ UNCHANGED <<clock, account, member, grants, sessions, links, asked, spent>>

-----------------------------------------------------------------------------
(* Passwords, links and the second factor. *)

SendsLink(h, p) ==
  /\ p # "invitation" /\ account.status # "none"
  /\ Begins(h, Idle)
  /\ links' = [links EXCEPT ![p] = [open |-> TRUE, used |-> 0]]
  /\ UNCHANGED <<clock, account, member, grants, sessions, mark, cut, spent>>

\* consumeToken reads the link and marks it used in two statements.
OpensLink(h, p) ==
  /\ p # "invitation" /\ links[p].open
  /\ Begins(h, [Idle EXCEPT !.pc = "consume", !.then = p])
  /\ UNCHANGED <<clock, account, member, grants, sessions, mark, links, cut, spent>>
Consumes(h) ==
  /\ job[h].pc = "consume"
  /\ links' = [links EXCEPT ![job[h].then] = [open |-> FALSE, used |-> @.used + 1]]
  /\ Goes(h, [Idle EXCEPT !.pc = job[h].then])
  /\ UNCHANGED <<clock, account, member, grants, sessions, mark, asked, cut, spent>>

Resets(h) ==
  /\ job[h].pc = "password_reset"
  /\ account' = [account EXCEPT !.password = TRUE, !.fails = 0, !.until = 0]
  /\ Goes(h, [Idle EXCEPT !.pc = "sweep"])
  /\ UNCHANGED <<clock, member, grants, sessions, mark, links, asked, cut, spent>>
Verifies(h) ==
  /\ job[h].pc = "email_verification"
  /\ account' = [account EXCEPT !.status = "active"]
  /\ Ends(h)
  /\ UNCHANGED <<clock, member, grants, sessions, mark, links, asked, cut, spent>>

\* changePassword; beginMfaSetup, confirmMfaSetup and disableMfa.
ChangesPassword(h) ==
  /\ account.password
  /\ Begins(h, [Idle EXCEPT !.pc = "sweep"])
  /\ UNCHANGED <<clock, account, member, grants, sessions, mark, links, cut, spent>>
BeginsMfa(h) ==
  /\ account.status # "none"
  /\ Begins(h, Idle)
  /\ account' = [account EXCEPT !.secret = TRUE]
  /\ UNCHANGED <<clock, member, grants, sessions, mark, links, cut, spent>>
ConfirmsMfa(h) ==
  /\ account.secret
  /\ Begins(h, Idle)
  /\ account' = [account EXCEPT !.mfa = TRUE, !.codes = Codes]
  /\ spent' = [times |-> [c \in Codes |-> 0], stale |-> 0]
  /\ UNCHANGED <<clock, member, grants, sessions, mark, links, cut>>
DisablesMfa(h) ==
  /\ \/ account.secret /\ Begins(h, [Idle EXCEPT !.pc = "disable"])
     \/ \E c \in account.codes :
          Begins(h, [Idle EXCEPT !.pc = "spend", !.code = c, !.codes = account.codes,
                                 !.then = "disable"])
  /\ UNCHANGED <<clock, account, member, grants, sessions, mark, links, cut, spent>>
Disables(h) ==
  /\ job[h].pc = "disable"
  /\ account' = [account EXCEPT !.mfa = FALSE, !.secret = FALSE, !.codes = {}]
  /\ Ends(h)
  /\ UNCHANGED <<clock, member, grants, sessions, mark, links, asked, cut, spent>>

Ticks ==
  /\ clock < MaxTime
  /\ clock' = clock + 1
  /\ UNCHANGED <<account, member, grants, sessions, mark, links, job, asked, cut, spent>>

AuthNext ==
  \/ Ticks
  \/ \E h \in Handlers :
       \/ LogsIn(h) \/ Misses(h) \/ Spends(h) \/ Clears(h) \/ Federates(h) \/ Issues(h)
       \/ \E s \in DOMAIN sessions : Refreshes(h, s) \/ LogsOut(h, s)
       \/ Rotates(h) \/ RevokesAll(h) \/ Sweeps(h) \/ Marks(h)
       \/ \E p \in Purposes : SendsLink(h, p) \/ OpensLink(h, p)
       \/ Consumes(h) \/ Resets(h) \/ Verifies(h)
       \/ ChangesPassword(h) \/ BeginsMfa(h) \/ ConfirmsMfa(h) \/ DisablesMfa(h) \/ Disables(h)

-----------------------------------------------------------------------------
(* The membership. *)

\* An owner's membership is made when the organization is registered.
Init ==
  /\ AuthInit
  /\ owner \in {FALSE, member # NoOne}
  /\ drift = FALSE

\* inviteUser: somebody unknown becomes an invited user; a user only a member.
Invites(h, r) ==
  /\ member = NoOne
  /\ Begins(h, Idle)
  /\ member' = r
  /\ account' = IF account.status = "none" THEN [account EXCEPT !.status = "invited"] ELSE account
  /\ links' = [links EXCEPT !["invitation"] = [open |-> TRUE, used |-> 0]]
  /\ UNCHANGED <<clock, grants, sessions, mark, cut, spent, owner, drift>>

\* acceptInvite reads the link, then sets password, status and usedAt together and signs in.
ReadsInvite(h) ==
  /\ links["invitation"].open
  /\ Begins(h, [Idle EXCEPT !.pc = "accept"])
  /\ UNCHANGED <<clock, account, member, grants, sessions, mark, links, cut, spent, owner, drift>>
AcceptsInvite(h) ==
  /\ job[h].pc = "accept"
  /\ account' = [account EXCEPT !.password = TRUE, !.status = "active"]
  /\ links' = [links EXCEPT !["invitation"] = [open |-> FALSE, used |-> @.used + 1]]
  /\ IF member = NoOne \/ Locked \/ account.mfa THEN Ends(h) ELSE Goes(h, SignedIn("clear"))
  /\ UNCHANGED <<clock, member, grants, sessions, mark, asked, cut, spent, owner, drift>>

Revoking == [Idle EXCEPT !.pc = "sweep"]

\* updateUser with another role, or with a status; removeUser.
\* Mutant: the role is changed and the old tokens are left alone.
NothingAfterRole == Idle
AfterRole == Revoking
ChangesRole(h, r) ==
  /\ member # NoOne /\ r # member
  /\ Begins(h, AfterRole)
  /\ member' = r
  /\ UNCHANGED <<clock, account, grants, sessions, mark, links, cut, spent, owner, drift>>
SetsStatus(h, s) ==
  /\ member # NoOne
  /\ Begins(h, IF s \in {"suspended", "deactivated"} THEN Revoking ELSE Idle)
  /\ account' = [account EXCEPT !.status = s]
  /\ UNCHANGED <<clock, member, grants, sessions, mark, links, cut, spent, owner, drift>>
Removes(h) ==
  /\ member # NoOne /\ ~owner
  /\ Begins(h, Revoking)
  /\ member' = NoOne
  /\ UNCHANGED <<clock, account, grants, sessions, mark, links, cut, spent, owner, drift>>

\* updateRole: the permissions first, then a look at who holds the role.
EditsRole(h, r) ==
  /\ r \notin SystemRoles /\ grants[r] < MaxGrants
  /\ Begins(h, [Idle EXCEPT !.pc = "holders", !.role = r])
  /\ grants' = [grants EXCEPT ![r] = @ + 1]
  /\ UNCHANGED <<clock, account, member, sessions, mark, links, cut, spent, owner, drift>>
FindsHolders(h) ==
  /\ job[h].pc = "holders"
  /\ Goes(h, IF member = job[h].role THEN Revoking ELSE Idle)
  /\ UNCHANGED <<clock, account, member, grants, sessions, mark, links, asked, cut, spent, owner, drift>>

-----------------------------------------------------------------------------
(* The directory. *)

ScimCreates(h, r, active) ==
  /\ member = NoOne
  /\ Begins(h, Idle)
  /\ member' = r
  /\ account' = IF account.status # "none" THEN account
                ELSE [account EXCEPT !.status = IF active THEN "active" ELSE "deactivated"]
  /\ UNCHANGED <<clock, grants, sessions, mark, links, cut, spent, owner, drift>>

\* replaceUser and patchUser: the user row, then the role, which an owner keeps.
ScimPatches(h, active) ==
  /\ member # NoOne
  /\ \/ Begins(h, Idle)
     \/ \E r \in Roles : Begins(h, [Idle EXCEPT !.pc = "applyRole", !.role = r])
  /\ account' = [account EXCEPT !.status = IF active THEN "active" ELSE "deactivated"]
  /\ drift' = (drift \/ ~active)
  /\ UNCHANGED <<clock, member, grants, sessions, mark, links, cut, spent, owner>>
ScimAppliesRole(h) ==
  /\ job[h].pc = "applyRole"
  /\ IF owner \/ member = NoOne THEN UNCHANGED <<member, drift>>
     ELSE member' = job[h].role /\ drift' = (drift \/ member # job[h].role)
  /\ Ends(h)
  /\ UNCHANGED <<clock, account, grants, sessions, mark, links, asked, cut, spent, owner>>

\* deleteUser: the account is deactivated when this was its last membership.
ScimDeletes(h, last) ==
  /\ member # NoOne
  /\ Begins(h, Idle)
  /\ member' = NoOne /\ owner' = FALSE
  /\ account' = IF last THEN [account EXCEPT !.status = "deactivated"] ELSE account
  /\ drift' = TRUE
  /\ UNCHANGED <<clock, grants, sessions, mark, links, cut, spent>>

Next ==
  \/ AuthNext /\ UNCHANGED <<owner, drift>>
  \/ \E h \in Handlers :
       \/ ReadsInvite(h) \/ AcceptsInvite(h) \/ Removes(h) \/ FindsHolders(h) \/ ScimAppliesRole(h)
       \/ \E r \in Roles : Invites(h, r) \/ ChangesRole(h, r) \/ EditsRole(h, r)
       \/ \E s \in {"active", "suspended", "deactivated"} : SetsStatus(h, s)
       \/ \E b \in BOOLEAN :
            ScimPatches(h, b) \/ ScimDeletes(h, b) \/ \E r \in Roles : ScimCreates(h, r, b)

Spec == Init /\ [][Next]_vars

-----------------------------------------------------------------------------
(* Properties. *)

\* The rows, the watermark and the handlers have their types.
TypeOK ==
  /\ clock \in 1 .. MaxTime
  /\ account \in [status : Statuses, password : BOOLEAN, fails : 0 .. MaxRequests, until : Nat,
                  secret : BOOLEAN, mfa : BOOLEAN, codes : SUBSET Codes]
  /\ member \in Roles \cup {NoOne}
  /\ grants \in [Roles -> Nat]
  /\ Len(sessions) <= MaxSessions
  /\ \A s \in DOMAIN sessions :
       sessions[s] \in [iat : 1 .. MaxTime, live : BOOLEAN, root : 1 .. s,
                        role : Roles, grant : Nat, clean : BOOLEAN]
  /\ \A p \in Purposes : links[p].open \in BOOLEAN /\ links[p].used \in 0 .. Cardinality(Handlers)
  /\ \A h \in Handlers : job[h].row \in 0 .. Len(sessions)
  /\ owner \in BOOLEAN /\ drift \in BOOLEAN /\ (owner => member # NoOne)

\* Rotation and reuse detection: a sign-in has one live session, and none once
\* every session was revoked, unless a refresh ran while another request revoked
\* what it had read (auth.service.ts:354-399, 428-441).
RevokedForGood ==
  LET Clean(r) == {s \in DOMAIN sessions : sessions[s].root = r /\ sessions[s].clean /\ sessions[s].live} IN
  \A r \in DOMAIN sessions :
    /\ Cardinality(Clean(r)) <= 1
    /\ r <= cut.rows => Clean(r) = {}

\* An access token issued in an earlier second than a finished revocation is
\* refused for as long as it would verify (auth.guard.ts:107-110).
RevokedStayOut == \A s \in DOMAIN sessions : sessions[s].iat < cut.at => ~Accepts(s)

\* A recovery code is accepted once, or once more for each request that wrote
\* back a list of codes it had read before another change (auth.service.ts:646-653).
CodesSpentOnce == \A c \in Codes : spent.times[c] <= 1 + spent.stale

\* What the guard accepts is what the membership grants: an administrator who
\* changed a role, its permissions or the status has taken effect everywhere once
\* the revocation is through, but for tokens of the same second and of requests
\* that had read the membership before (iam.service.ts:305-375, 457-469).
Underway == \E h \in Handlers : job[h].pc \in {"holders", "sweep", "mark"}
Follows(s) ==
  /\ member = sessions[s].role
  /\ grants[member] = sessions[s].grant
  /\ ~Refused
TokensFollowTheRole ==
  \A s \in DOMAIN sessions :
    Accepts(s) /\ sessions[s].clean /\ sessions[s].iat # cut.at /\ ~Underway /\ ~drift => Follows(s)
=============================================================================
