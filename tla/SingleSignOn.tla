---------------------------- MODULE SingleSignOn ----------------------------
(* One organization's OIDC connection: its configuration, the cached signing keys,
   the logins that run through it and the person they provision. Every read of the
   row, the cache or the provider is followed by writes that may find it changed. *)
EXTENDS Naturals, FiniteSets

CONSTANTS
  Logins, Admins,   \* callbacks and configuration requests in flight
  States,           \* login states that may be begun
  Uris,             \* JWKS URIs an administrator may configure
  NoKeys,           \* nothing cached
  MaxRotations, MaxChanges   \* bounds: key rotations, administrators' requests

VARIABLES
  conn,      \* the connection row
  provider,  \* external: the key each URI publishes
  cache,     \* sso:jwks:<connection>
  pending,   \* sso:login:<state>: "new", "open" or "gone"
  codes,     \* external: authorization codes not yet exchanged, by state
  person,    \* the user and membership the claims name
  login,     \* what each callback is doing
  admin,     \* what each configuration request is doing
  changes,   \* administrators' requests so far
  shown,     \* history: the SCIM token last handed out
  told       \* history: what was decided, and which stale writes undid something
vars == <<conn, provider, cache, pending, codes, person, login, admin, changes, shown, told>>

Quiet == [pc |-> "idle", uri |-> CHOOSE u \in Uris : TRUE, scim |-> 0]
NoLogin == [pc |-> "idle", state |-> "none", uri |-> Quiet.uri, sig |-> NoKeys, keys |-> NoKeys,
            pass |-> 1, active |-> TRUE]

Init ==
  /\ conn = [exists |-> TRUE, enabled |-> TRUE, uri |-> Quiet.uri, scim |-> 0]
  /\ provider = [u \in Uris |-> 0]
  /\ cache = NoKeys
  /\ pending = [s \in States |-> "new"]
  /\ codes = [s \in States |-> 0]
  /\ person \in {[known |-> FALSE, active |-> TRUE], [known |-> TRUE, active |-> TRUE]}
  /\ login = [l \in Logins |-> NoLogin]
  /\ admin = [a \in Admins |-> Quiet]
  /\ changes = 0 /\ shown = 0
  /\ told = [suspended |-> FALSE, outage |-> FALSE, stale |-> {}]

Published(uri) == [uri |-> uri, key |-> provider[uri]]

-----------------------------------------------------------------------------
(* A login. *)

Becomes(l, j) == login' = [login EXCEPT ![l] = j]
Fails(l) == Becomes(l, NoLogin)
OwnStep == UNCHANGED <<conn, provider, admin, changes, shown>>

\* begin mints a state; the person signs in at the provider, perhaps twice.
Begins(s) ==
  /\ conn.exists /\ conn.enabled /\ pending[s] = "new"
  /\ pending' = [pending EXCEPT ![s] = "open"]
  /\ codes' = [codes EXCEPT ![s] = 1]
  /\ OwnStep /\ UNCHANGED <<cache, person, login, told>>

\* complete reads the state and deletes it in two commands.
CallsBack(l, s) ==
  /\ login[l].pc = "idle" /\ pending[s] = "open"
  /\ Becomes(l, [NoLogin EXCEPT !.pc = "delete", !.state = s])
  /\ OwnStep /\ UNCHANGED <<cache, pending, codes, person, told>>
Consumes(l) ==
  /\ login[l].pc = "delete"
  /\ pending' = [pending EXCEPT ![login[l].state] = "gone"]
  /\ Becomes(l, [login[l] EXCEPT !.pc = "connect"])
  /\ OwnStep /\ UNCHANGED <<cache, codes, person, told>>

\* The connection is read and the code exchanged; the provider takes a code once.
Connects(l) ==
  LET s == login[l].state IN
  /\ login[l].pc = "connect"
  /\ IF conn.exists /\ conn.enabled /\ codes[s] > 0
     THEN /\ codes' = [codes EXCEPT ![s] = @ - 1]
          /\ Becomes(l, [login[l] EXCEPT !.pc = "verify", !.uri = conn.uri,
                                         !.sig = Published(conn.uri)])
     ELSE Fails(l) /\ UNCHANGED codes
  /\ OwnStep /\ UNCHANGED <<cache, pending, person, told>>

\* verify: the cached keys first, and once more with fresh ones after a key mismatch.
\* Mutant: cached keys are the last word.
ShortLastPass == 1
LastPass == 2
Judged(l, keys) ==
  IF keys = login[l].sig
  THEN Becomes(l, [login[l] EXCEPT !.pc = "provision", !.keys = NoKeys]) /\ UNCHANGED told
  ELSE IF login[l].pass < LastPass
  THEN Becomes(l, [login[l] EXCEPT !.pc = "verify", !.keys = NoKeys, !.pass = 2]) /\ UNCHANGED told
  ELSE /\ Fails(l)
       /\ told' = [told EXCEPT !.outage = @ \/ login[l].sig = Published(login[l].uri)]
UsesCache(l) ==
  /\ login[l].pc = "verify" /\ login[l].pass = 1 /\ cache # NoKeys
  /\ Judged(l, cache)
  /\ OwnStep /\ UNCHANGED <<cache, pending, codes, person>>
Fetches(l) ==
  /\ login[l].pc = "verify" /\ (login[l].pass = 2 \/ cache = NoKeys)
  /\ Becomes(l, [login[l] EXCEPT !.pc = "store", !.keys = Published(login[l].uri)])
  /\ OwnStep /\ UNCHANGED <<cache, pending, codes, person, told>>

Stores(keys) == cache' = keys
Stale(keys) == IF keys.uri # conn.uri THEN {"keys"} ELSE {}
Caches(l) ==
  /\ login[l].pc = "store"
  /\ Stores(login[l].keys)
  /\ Becomes(l, [login[l] EXCEPT !.pc = "judge"])
  /\ told' = [told EXCEPT !.stale = @ \cup Stale(login[l].keys)]
  /\ OwnStep /\ UNCHANGED <<pending, codes, person>>
Judges(l) ==
  /\ login[l].pc = "judge"
  /\ Judged(l, login[l].keys)
  /\ OwnStep /\ UNCHANGED <<cache, pending, codes, person>>

\* provision looks the person up; an inactive one is refused, an unknown one made.
MayEnter == ~person.known \/ person.active
Provisions(l) ==
  /\ login[l].pc = "provision"
  /\ IF ~MayEnter THEN Fails(l) /\ UNCHANGED person
     ELSE IF person.known THEN Becomes(l, [login[l] EXCEPT !.pc = "activate"]) /\ UNCHANGED person
     ELSE person' = [known |-> TRUE, active |-> TRUE] /\ Becomes(l, [login[l] EXCEPT !.pc = "issue"])
  /\ OwnStep /\ UNCHANGED <<cache, pending, codes, told>>
\* A known person is written as active, whatever the row says by now.
Activates(l) ==
  /\ login[l].pc = "activate"
  /\ person' = [person EXCEPT !.active = TRUE]
  /\ told' = [told EXCEPT !.stale = @ \cup IF login[l].active THEN {} ELSE {"person"}]
  /\ Becomes(l, [login[l] EXCEPT !.pc = "issue"])
  /\ OwnStep /\ UNCHANGED <<cache, pending, codes>>
\* completeFederatedLogin looks at the status again.
Enters(l) ==
  /\ login[l].pc = "issue"
  /\ Fails(l)   \* with a session when person.active; the callback is over either way
  /\ OwnStep /\ UNCHANGED <<cache, pending, codes, person, told>>

-----------------------------------------------------------------------------
(* Administration. *)

Asks(a, j) ==
  /\ admin[a].pc = "idle" /\ changes < MaxChanges
  /\ admin' = [admin EXCEPT ![a] = j]
  /\ changes' = changes + 1
Proceeds(a, j) == admin' = [admin EXCEPT ![a] = j] /\ UNCHANGED changes
Loaded(pc) == [pc |-> pc, uri |-> conn.uri, scim |-> conn.scim]
AdminStep == UNCHANGED <<provider, pending, codes, login>>

\* update merges a patch into the row it loaded and writes the whole configuration.
Loads(a) ==
  /\ conn.exists
  /\ \E pc \in {"update", "rotate", "enable", "disable", "remove"} : Asks(a, Loaded(pc))
  /\ AdminStep /\ UNCHANGED <<conn, cache, person, shown, told>>

Overtaken(a) == IF admin[a].uri = conn.uri /\ admin[a].scim = conn.scim THEN {} ELSE {"config"}
\* Mutant: a new URI leaves the keys of the old one.
KeepsKeys(a) == Quiet
AfterUpdate(a) == [admin[a] EXCEPT !.pc = "forget"]
Updates(a, uri) ==
  /\ admin[a].pc = "update" /\ conn.exists
  /\ conn' = [conn EXCEPT !.uri = uri, !.scim = admin[a].scim]
  /\ Proceeds(a, AfterUpdate(a))
  /\ told' = [told EXCEPT !.stale = @ \cup Overtaken(a)]
  /\ AdminStep /\ UNCHANGED <<cache, person, shown>>
Forgets(a) ==
  /\ admin[a].pc = "forget"
  /\ cache' = NoKeys
  /\ Proceeds(a, Quiet)
  /\ AdminStep /\ UNCHANGED <<conn, person, shown, told>>

\* rotateScimToken writes back the configuration it loaded with a new hash.
Rotates(a) ==
  /\ admin[a].pc = "rotate" /\ conn.exists
  /\ conn' = [conn EXCEPT !.uri = admin[a].uri, !.scim = shown + 1]
  /\ shown' = shown + 1
  /\ Proceeds(a, Quiet)
  /\ told' = [told EXCEPT !.stale = @ \cup Overtaken(a) \cup
                IF admin[a].uri # conn.uri THEN {"keys"} ELSE {}]
  /\ AdminStep /\ UNCHANGED <<cache, person>>

\* setEnabled fetches the keys before it routes a domain to the provider.
Probes(a) ==
  /\ admin[a].pc = "enable"
  /\ Stores(Published(admin[a].uri))
  /\ told' = [told EXCEPT !.stale = @ \cup Stale(Published(admin[a].uri))]
  /\ Proceeds(a, [admin[a] EXCEPT !.pc = "enabled"])
  /\ AdminStep /\ UNCHANGED <<conn, person, shown>>
SetsEnabled(a) ==
  /\ admin[a].pc \in {"enabled", "disable"} /\ conn.exists
  /\ conn' = [conn EXCEPT !.enabled = admin[a].pc = "enabled"]
  /\ Proceeds(a, Quiet)
  /\ AdminStep /\ UNCHANGED <<cache, person, shown, told>>
Deletes(a) ==
  /\ admin[a].pc = "remove" /\ conn.exists
  /\ conn' = [conn EXCEPT !.exists = FALSE]
  /\ Proceeds(a, [admin[a] EXCEPT !.pc = "forget"])
  /\ AdminStep /\ UNCHANGED <<cache, person, shown, told>>
\* A write to a row that was deleted meanwhile throws.
Throws(a) ==
  /\ admin[a].pc \in {"update", "rotate", "enabled", "disable", "remove"} /\ ~conn.exists
  /\ Proceeds(a, Quiet)
  /\ AdminStep /\ UNCHANGED <<conn, cache, person, shown, told>>

\* Elsewhere: an administrator suspends or reinstates the person.
Suspends(a, active) ==
  /\ person.known
  /\ Asks(a, Quiet)
  /\ person' = [person EXCEPT !.active = active]
  /\ told' = [told EXCEPT !.suspended = ~active]
  /\ login' = [l \in Logins |-> IF login[l].pc = "activate" THEN [login[l] EXCEPT !.active = active]
                                ELSE login[l]]
  /\ UNCHANGED <<conn, provider, cache, pending, codes, shown>>

-----------------------------------------------------------------------------
(* The provider and the cache. *)

RotatesKeys(u) ==
  /\ provider[u] < MaxRotations
  /\ provider' = [provider EXCEPT ![u] = @ + 1]
  /\ UNCHANGED <<conn, cache, pending, codes, person, login, admin, changes, shown, told>>
Expires ==
  /\ cache # NoKeys
  /\ cache' = NoKeys
  /\ UNCHANGED <<conn, provider, pending, codes, person, login, admin, changes, shown, told>>

Next ==
  \/ \E s \in States : Begins(s) \/ \E l \in Logins : CallsBack(l, s)
  \/ \E l \in Logins :
       \/ Consumes(l) \/ Connects(l) \/ UsesCache(l) \/ Fetches(l) \/ Caches(l) \/ Judges(l)
       \/ Provisions(l) \/ Activates(l) \/ Enters(l)
  \/ \E a \in Admins :
       \/ Loads(a) \/ Forgets(a) \/ Rotates(a) \/ Probes(a) \/ SetsEnabled(a) \/ Deletes(a)
       \/ Throws(a) \/ \E u \in Uris : Updates(a, u)
       \/ \E b \in BOOLEAN : Suspends(a, b)
  \/ \E u \in Uris : RotatesKeys(u)
  \/ Expires

Spec == Init /\ [][Next]_vars

-----------------------------------------------------------------------------
Keys == [uri : Uris, key : 0 .. MaxRotations]

\* The row, the cache and what requests remember have their types.
TypeOK ==
  /\ conn \in [exists : BOOLEAN, enabled : BOOLEAN, uri : Uris, scim : 0 .. MaxChanges]
  /\ cache \in Keys \cup {NoKeys}
  /\ pending \in [States -> {"new", "open", "gone"}] /\ codes \in [States -> 0 .. 1]
  /\ person \in [known : BOOLEAN, active : BOOLEAN]
  /\ \A l \in Logins : login[l].sig \in Keys \cup {NoKeys} /\ login[l].keys \in Keys \cup {NoKeys}
  /\ \A a \in Admins : admin[a].uri \in Uris /\ admin[a].scim \in 0 .. MaxChanges

\* A rotation at the provider is no outage: no login is refused for its key while
\* the provider publishes the key that signed it (sso.service.ts:402-433).
RotationIsNoOutage == ~told.outage

\* What an administrator changed stays changed - the SCIM token last shown works,
\* keys of another URI are not used, who was suspended stays out - unless a request
\* wrote back what it had read before (sso.service.ts:111-136, 169-192, 310-357).
ChangesTakeEffect ==
  /\ conn.scim # shown => "config" \in told.stale
  /\ cache # NoKeys /\ cache.uri # conn.uri /\ (\A a \in Admins : admin[a].pc # "forget")
       => "keys" \in told.stale
  /\ told.suspended /\ person.active => "person" \in told.stale
=============================================================================
