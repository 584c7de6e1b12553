---------------------------- MODULE AccessRights ----------------------------
(* How rights are handed on (the rights, roles and routes are in Permissions). A *)
(* bearer token and an API key carry the rights they were made with; whoever     *)
(* invites, gives a role, makes or edits a role or a key may hand on only what   *)
(* they hold.                                                                    *)
EXTENDS Permissions

CONSTANTS
  People, Founder,   \* users, and the one who registered the organization
  Customs,           \* roles an administrator may make
  ApiKeys, Handlers, \* keys that may be made, requests that give a role
  Given, Offers,     \* bound: the system roles given here, the sets of rights offered
  Mapped,            \* the roles the directory's groups map to
  Nobody             \* no role, no token, no such key or role

VARIABLES
  role,     \* user -> the role of the membership
  custom,   \* made role -> its rights
  token,    \* user -> the rights in the bearer token
  key,      \* API key -> its rights
  req,      \* request that gives a role -> what it read and checked
  due,      \* users whose sessions a request is about to revoke
  edited,   \* made roles whose holders a request is about to look up
  handed,   \* history: a right only owners hold was handed on by one who holds it
  more,     \* history: users and keys that held more than rights to read
  wrote     \* history: users and keys that passed a route that writes and held no more
vars == <<role, custom, token, key, req, due, edited, handed, more, wrote>>

-----------------------------------------------------------------------------
Init ==
  /\ role = [p \in People |-> IF p = Founder THEN "owner" ELSE Nobody]
  /\ custom = [c \in Customs |-> Nobody]
  /\ token = [p \in People |-> Nobody]
  /\ key = [k \in ApiKeys |-> Nobody]
  /\ req = [h \in Handlers |-> Nobody]
  /\ due = {} /\ edited = {} /\ handed = FALSE /\ more = {} /\ wrote = {}

RightsOf(r) == IF r \in ROLE_KEYS THEN SYSTEM_ROLES[r] ELSE custom[r]
Exists(r) == r \in ROLE_KEYS \cup {c \in Customs : custom[c] # Nobody}

\* The guard's principals: a bearer token, an API key, a directory's token.
ScimToken == [who |-> Nobody, rights |-> Of("user", {"manage"}) \cup Of("organization", {"read"})]
Principals ==
  {[who |-> p, rights |-> token[p]] : p \in {x \in People : token[x] # Nobody}}
  \cup {[who |-> k, rights |-> key[k]] : k \in {x \in ApiKeys : key[x] # Nobody}}
  \cup {ScimToken}

Passes(by, route) == route \in Routes /\ HasAllPermissions(by.rights, route.asks)
Managing(resource) == Route("writes", Of(resource, {"manage"}))
MayGrant(by, rights) == HasAllPermissions(by.rights, rights)

OnlyOwners == SYSTEM_ROLES["owner"] \ SYSTEM_ROLES["administrator"]
\* Whether whoever hands them on holds them: what their right to do so rests on.
Hands(by, rights) ==
  handed' = (handed \/ (OnlyOwners \cap rights # {} /\ MayGrant(by, OnlyOwners \cap rights)))
ToRead == {"read", "read_all", "read_own", "export"}
Carries(x, rights) == more' = IF \A p \in rights : p[2] \in ToRead THEN more ELSE more \cup {x}

\* Signing in, or refreshing: the token takes the rights of the role as it is.
SignsIn(p) ==
  /\ role[p] # Nobody
  /\ token' = [token EXCEPT ![p] = RightsOf(role[p])]
  /\ Carries(p, RightsOf(role[p]))
  /\ UNCHANGED <<role, custom, key, req, due, edited, handed, wrote>>

\* Requests to whatever routes the rights reach.
Calls(by) ==
  /\ by.who # Nobody
  /\ wrote' = IF by.who \notin more /\ \E r \in WritingRoutes : Passes(by, r)
                THEN wrote \cup {by.who} ELSE wrote
  /\ UNCHANGED <<role, custom, token, key, req, due, edited, handed, more>>

\* inviteUser, and updateUser with another role: the role is read and checked, then given.
GivesRole(h, by, p, r) ==
  /\ req[h] = Nobody /\ role[p] # r /\ Exists(r)
  /\ Passes(by, Managing("user"))
  /\ p = Founder => by.who = Founder
  /\ MayGrant(by, RightsOf(r))
  /\ req' = [req EXCEPT ![h] = [to |-> p, role |-> r, member |-> role[p] # Nobody]]
  /\ Hands(by, RightsOf(r))
  /\ UNCHANGED <<role, custom, token, key, due, edited, more, wrote>>
WritesRole(h) ==
  /\ req[h] # Nobody
  /\ LET q == req[h] IN
       IF Exists(q.role) /\ q.member = (role[q.to] # Nobody)
       THEN /\ role' = [role EXCEPT ![q.to] = q.role]
            /\ due' = IF q.member THEN due \cup {q.to} ELSE due
       ELSE UNCHANGED <<role, due>>
  /\ req' = [req EXCEPT ![h] = Nobody]
  /\ UNCHANGED <<custom, token, key, edited, handed, more, wrote>>
Removes(by, p) ==
  /\ role[p] # Nobody /\ p # Founder
  /\ Passes(by, Managing("user"))
  /\ role' = [role EXCEPT ![p] = Nobody]
  /\ due' = due \cup {p}
  /\ UNCHANGED <<custom, token, key, req, edited, handed, more, wrote>>
Revokes(p) ==
  /\ p \in due
  /\ due' = due \ {p}
  /\ token' = [token EXCEPT ![p] = Nobody]
  /\ UNCHANGED <<role, custom, key, req, edited, handed, more, wrote>>

\* createRole and updateRole: a role may be given no right its maker has not.
\* Mutant: an edit is not checked, as if only a new role were.
SetsRightsUnchecked(by, c, rights) ==
  /\ custom[c] # rights
  /\ Passes(by, Managing("role"))
  /\ custom[c] # Nobody \/ MayGrant(by, rights)
  /\ edited' = IF custom[c] # Nobody THEN edited \cup {c} ELSE edited
  /\ custom' = [custom EXCEPT ![c] = rights]
  /\ Hands(by, rights)
  /\ UNCHANGED <<role, token, key, req, due, more, wrote>>
SetsRights(by, c, rights) ==
  /\ custom[c] # rights /\ rights \subseteq PERMISSIONS
  /\ Passes(by, Managing("role"))
  /\ MayGrant(by, rights)
  /\ edited' = IF custom[c] # Nobody THEN edited \cup {c} ELSE edited
  /\ custom' = [custom EXCEPT ![c] = rights]
  /\ Hands(by, rights)
  /\ UNCHANGED <<role, token, key, req, due, more, wrote>>
FindsHolders(c) ==
  /\ c \in edited
  /\ edited' = edited \ {c}
  /\ due' = due \cup {p \in People : role[p] = c}
  /\ UNCHANGED <<role, custom, token, key, req, handed, more, wrote>>
\* deleteRole: not while somebody holds it.
DeletesRole(by, c) ==
  /\ custom[c] # Nobody /\ c \notin edited
  /\ Passes(by, Managing("role"))
  /\ \A p \in People : role[p] # c
  /\ custom' = [custom EXCEPT ![c] = Nobody]
  /\ UNCHANGED <<role, token, key, req, due, edited, handed, more, wrote>>

\* createApiKey; revokeApiKey, and a key past its date.
MakesKey(by, k, rights) ==
  /\ key[k] = Nobody /\ rights \subseteq PERMISSIONS
  /\ Passes(by, Managing("apikey"))
  /\ MayGrant(by, rights)
  /\ key' = [key EXCEPT ![k] = rights]
  /\ Hands(by, rights)
  /\ Carries(k, rights)
  /\ UNCHANGED <<role, custom, token, req, due, edited, wrote>>
RevokesKey(k) ==
  /\ key[k] # Nobody
  /\ key' = [key EXCEPT ![k] = Nobody]
  /\ UNCHANGED <<role, custom, token, req, due, edited, handed, more, wrote>>

\* Single sign-on and the directory give the role their groups map to, but to an owner.
DirectoryGives(p, r) ==
  /\ p # Founder /\ role[p] # r /\ Exists(r)
  /\ role' = [role EXCEPT ![p] = r]
  /\ handed' = (handed \/ OnlyOwners \cap RightsOf(r) # {})
  /\ UNCHANGED <<custom, token, key, req, due, edited, more, wrote>>

Next ==
  \/ \E p \in People : SignsIn(p) \/ Revokes(p) \/ \E r \in Mapped : DirectoryGives(p, r)
  \/ \E c \in Customs : FindsHolders(c)
  \/ \E k \in ApiKeys : RevokesKey(k)
  \/ \E h \in Handlers : WritesRole(h)
  \/ \E by \in Principals :
       \/ Calls(by)
       \/ \E p \in People : Removes(by, p)
                         \/ \E h \in Handlers, r \in Given \cup Customs : GivesRole(h, by, p, r)
       \/ \E c \in Customs : DeletesRole(by, c) \/ \E o \in Offers : SetsRights(by, c, o)
       \/ \E k \in ApiKeys, o \in Offers : MakesKey(by, k, o)

Spec == Init /\ [][Next]_vars

-----------------------------------------------------------------------------
TypeOK ==
  /\ role \in [People -> ROLE_KEYS \cup Customs \cup {Nobody}]
  /\ \A x \in People : token[x] = Nobody \/ token[x] \subseteq PERMISSIONS
  /\ due \subseteq People /\ edited \subseteq Customs /\ handed \in BOOLEAN
  /\ more \cup wrote \subseteq People \cup ApiKeys

\* However invitations, roles, edits of roles and keys follow and overlap, and whatever
\* old tokens are still about: a right that owners alone are given is carried by
\* nobody else until one who has it, or the directory, hands it on
\* (iam.service.ts:128-132, 272-281, 385-420, 464-480; permission-matrix.md rule 4).
Carried(holders, rights) == UNION {rights[x] : x \in {y \in holders : rights[y] # Nobody}}
Held == Carried(People \ {Founder}, token) \cup Carried(ApiKeys, key) \cup Carried(Customs, custom)
OwnersKeepTheirs == handed \/ OnlyOwners \cap Held = {}

\* Who never carried more than rights to read has never passed a route that writes:
\* not by any controller's route, nor by a role or key made for reading
\* (permissions.guard.ts:18-40, permissions.ts:270-300, the routes of the controllers).
ReadersOnlyRead == wrote = {}
=============================================================================
