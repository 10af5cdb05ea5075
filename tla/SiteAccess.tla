------------------------------ MODULE SiteAccess ------------------------------
(***************************************************************************)
(* Who gets past ForwardAuth: the login service (apps/auth/src/app.ts,     *)
(* session.ts) and the panel's half of a site entry                        *)
(* (packages/server/src/api/routes/site-entry.ts, core/site-entry.ts),     *)
(* with whom it lets in (packages/auth/src/principal.ts), reading a        *)
(* registry that others write.                                             *)
(*                                                                         *)
(* A session is a signed cookie and nothing is kept about it, so every one *)
(* ever issued may still be shown: sessions only grows.  The writers of    *)
(* the registry are what Exposure is shown to be, one Set or Remove at a   *)
(* time.  A request that awaits keeps the record it read before.           *)
(***************************************************************************)
EXTENDS Protections, FiniteSets

CONSTANTS People,          \* browsers, each of one person with a panel account
          TokenIds,        \* the random ids of entry tokens
          StateIds,        \* the random parts of states
          SessionSeconds,  \* PORTTA_AUTH_SESSION_SECONDS, twelve hours
          PanelSeconds,    \* PANEL_SESSION_SECONDS
          TokenSeconds,    \* SITE_ENTRY_SECONDS
          CacheSeconds,    \* cookieCache.maxAge of the panel's sessions, five minutes
          Ways,            \* the ways in this instance exercises, and "lose" a right
          MaxInFlight,     \* bound on the requests in flight at once
          Restarts,        \* whether this instance restarts the login service
          MaxEpoch,        \* bound: no record is rewritten past this epoch
          MaxNow           \* bound on the clock, in units of TokenSeconds

ASSUME SiteAccessAssumption ==
  /\ {SessionSeconds, PanelSeconds, TokenSeconds, CacheSeconds, MaxNow, MaxEpoch, MaxInFlight}
       \subseteq Nat \ {0}
  /\ Restarts \in BOOLEAN
  /\ None \notin TokenIds \cup StateIds

VARIABLES store,     \* state/auth/protections.json
          minted,    \* credentials generated so far
          removals,  \* how often each scope was removed (for the properties)
          now,       \* seconds
          logins,    \* password attempts whose hash is being verified
          asking,    \* site-entry requests waiting for the adoptions
          tokens,    \* entry tokens issued, each with the state it is tied to
          entering,  \* entry requests sent, each with the cookies it carries
          state,     \* the state cookie each browser holds for each host, or None
          given,     \* the states signed so far, each with the browser and host it was made for
          spent,     \* spentEntries: ids this process has seen
          sessions,  \* session cookies issued
          openings,  \* how often each token opened a session of this process (for the properties)
          account,   \* each person's role, ban, and membership of the project behind the hosts
          cached,    \* the panel session each person's browser keeps: the role in it, and until when
          lost       \* the losses of the right to the project: whose, when, and for how
                     \* long a cached session may hide them (for the properties)

registry == <<store, minted, removals>>
panel == <<asking, tokens>>
people == <<account, cached, lost>>
browser == <<entering, state, given>>
granted == <<sessions, openings>>
vars == <<registry, now, logins, panel, browser, spent, granted, people>>

Registered == INSTANCE Registry WITH store <- store

\* What a session was granted on: the credential in force then, and how often
\* its scope had been removed. Not in the cookie; the properties speak of it.
Ground(r) == [hash |-> r.hash, removals |-> removals[r.scope]]
Grounds == [hash : Hashes, removals : Nat]
Login == [who : People, record : Record, ground : Grounds]
Token == [id : TokenIds, host : Hosts, scope : Scopes, epoch : Nat, who : People,
          state : StateIds, expiresAt : Nat, ground : Grounds]
Asking == [who : People, record : Record, ground : Grounds, state : StateIds]
Copies == 1 .. 2       \* an address followed once more before the first answer is back
Entering == [by : People, token : Token, state : StateIds \cup {None}, copy : Copies]
Session == [scope : Scopes, host : Hosts, epoch : Nat, expiresAt : Nat,
            who : People, by : People, token : TokenIds \cup {None}, ground : Grounds]
Given == [state : StateIds, by : People, host : Hosts]

\* An owner or an admin sees every project, a member those there is a row for.
Roles == {"all", "some"}
Account == [role : Roles, banned : BOOLEAN, row : BOOLEAN]
Lost == [who : People, at : Nat, grace : {0, CacheSeconds}]

\* Mutant of Admits: the epoch is not compared.
AdmitsAnyEpoch(r, s) ==
  r.mode = "protected" /\ s.scope = r.scope /\ s.host = r.host /\ s.expiresAt > now

\* /verify of a protected host: the conditions on the cookie, in the code's order.
Admits(r, s) == /\ r.mode = "protected"
                /\ s.scope = r.scope
                /\ s.host = r.host
                /\ s.epoch = r.epoch
                /\ s.expiresAt > now

Protected(host) == {r \in ForHost(store, host) : r.mode = "protected"}

StartSession(r, ground, who, by, token, seconds) ==
  sessions' = sessions \cup
    {[scope |-> r.scope, host |-> r.host, epoch |-> r.epoch, expiresAt |-> now + seconds,
      who |-> who, by |-> by, token |-> token, ground |-> ground]}

\* Mutant of Least: the first of the two, whichever is less.
LeastFirst(a, b) == a
Least(a, b) == IF a < b THEN a ELSE b
-----------------------------------------------------------------------------
Init ==
  /\ store = {} /\ minted = {} /\ removals = [s \in Scopes |-> 0]
  /\ now = 0
  /\ logins = {} /\ asking = {} /\ tokens = {} /\ entering = {} /\ spent = {} /\ sessions = {}
  /\ state = [p \in People |-> [h \in Hosts |-> None]] /\ given = {}
  /\ openings = [i \in TokenIds |-> 0]
  /\ account \in [People -> {a \in Account : ~a.banned}]
  /\ cached = [p \in People |-> [role |-> account[p].role, until |-> 0]]
  /\ lost = {}

\* A protect, a rotation or an opening, by whichever writer.
Decide(host, mode, hash) ==
  LET input == [scope |-> HostScope(host), host |-> host, mode |-> mode, hash |-> hash,
                project |-> None, service |-> None] IN
  /\ hash \notin minted
  /\ mode = "protected" <=> hash # None
  /\ NextEpoch(store, input.scope) <= MaxEpoch
  /\ store' = SetProtection(store, input)
  /\ minted' = minted \cup ({hash} \ {None})
  /\ UNCHANGED <<removals, now, logins, panel, browser, spent, granted, people>>

Forget(host) ==
  /\ ForHost(store, host) # {}
  /\ removals[HostScope(host)] < MaxEpoch
  /\ store' = RemoveProtection(store, HostScope(host))
  /\ removals' = [removals EXCEPT ![HostScope(host)] = @ + 1]
  /\ UNCHANGED <<minted, now, logins, panel, browser, spent, granted, people>>

Room == Cardinality(logins) + Cardinality(asking) + Cardinality(entering) < MaxInFlight

\* POST /__portta/auth/login: the record is read, then the password verified
\* against it.
SubmitPassword(p, host) ==
  /\ "password" \in Ways /\ Room
  /\ \E r \in Protected(host) :
    /\ logins' = logins \cup {[who |-> p, record |-> r, ground |-> Ground(r)]}
    /\ UNCHANGED <<registry, now, panel, browser, spent, granted, people>>

\* The password fits the hash of the record that was read, or it does not.
PasswordVerified(l) ==
  /\ l \in logins
  /\ logins' = logins \ {l}
  /\ StartSession(l.record, l.ground, l.who, l.who, None, SessionSeconds)
  /\ UNCHANGED <<registry, now, panel, browser, spent, openings, people>>

PasswordRefused(l) ==
  /\ l \in logins
  /\ logins' = logins \ {l}
  /\ UNCHANGED <<registry, now, panel, browser, spent, granted, people>>

\* The login page of a protected host signs a new state for it and has the browser
\* hold it (panelEntryUrl).
UnusedStates == {i \in StateIds : \A g \in given : g.state # i}

ShowLogin(p, host) ==
  /\ "panel" \in Ways
  /\ Protected(host) # {} /\ UnusedStates # {}
  /\ LET i == CHOOSE i \in UnusedStates : TRUE IN
       /\ given' = given \cup {[state |-> i, by |-> p, host |-> host]}
       /\ state' = [state EXCEPT ![p][host] = i]
  /\ UNCHANGED <<registry, now, logins, panel, entering, spent, granted, people>>

\* The role the panel takes a person to have: a session the browser keeps is not
\* looked up again, and one it does not ends with a ban.
Vouched(p) == IF now < cached[p].until THEN {cached[p].role}
              ELSE {role \in {account[p].role} : ~account[p].banned}

\* Memberships are looked up for every request (scopeOf).
Allowed(p) == "all" \in Vouched(p) \/ ("some" \in Vouched(p) /\ account[p].row)

\* The state in the address is one the login service signed for the host, whichever
\* browser it was signed for (readEntryState).
SignedFor(host, link) == \E g \in given : g.state = link /\ g.host = host

\* Mutant of AskPanel: an address without a state, or with another host's, will do.
AskPanelWithoutState(p, host, link) ==
  /\ Room
  /\ \E r \in Protected(host) :
    /\ Allowed(p)
    /\ asking' = asking \cup {[who |-> p, record |-> r, ground |-> Ground(r), state |-> link]}
    /\ UNCHANGED <<registry, now, logins, tokens, browser, spent, granted, people>>

\* GET /api/site-entry up to the await: the record, the state in the address and
\* the principal are read, and nothing is compared with what the browser holds.
AskPanel(p, host, link) ==
  /\ Room
  /\ \E r \in Protected(host) :
    /\ SignedFor(host, link) /\ Allowed(p)
    /\ asking' = asking \cup {[who |-> p, record |-> r, ground |-> Ground(r), state |-> link]}
    /\ UNCHANGED <<registry, now, logins, tokens, browser, spent, granted, people>>

\* After it: the environment is nobody's by now, and the browser is sent back.
DenyEntry(a) ==
  /\ a \in asking
  /\ asking' = asking \ {a}
  /\ UNCHANGED <<registry, now, logins, tokens, browser, spent, granted, people>>

UnusedTokens == {i \in TokenIds : \A t \in tokens : t.id # i}

\* Or a token for the record as it was read.
IssueToken(a) ==
  /\ a \in asking /\ UnusedTokens # {}
  /\ asking' = asking \ {a}
  /\ tokens' = tokens \cup
       {[id |-> CHOOSE i \in UnusedTokens : TRUE, host |-> a.record.host, scope |-> a.record.scope,
         epoch |-> a.record.epoch, who |-> a.who, state |-> a.state,
         expiresAt |-> now + TokenSeconds, ground |-> a.ground]}
  /\ UNCHANGED <<registry, now, logins, browser, spent, granted, people>>

\* A browser follows an address with a token, whoever the token was made for,
\* and the request carries the state cookie it holds for the host now.
FollowToken(p, t, copy) ==
  /\ Room
  /\ t \in tokens
  /\ entering' = entering \cup {[by |-> p, token |-> t, state |-> state[p][t.host], copy |-> copy]}
  /\ UNCHANGED <<registry, now, logins, panel, state, given, spent, granted, people>>

\* Mutant of Alive: a spent token is not refused.
AliveAgain(e) == Protected(e.token.host) # {} /\ e.token.expiresAt > now

\* GET /__portta/auth/panel judges a token against the record of now: alive and
\* not spent; of this decision of the host; asked for by this browser.
Alive(e) == /\ Protected(e.token.host) # {}
            /\ e.token.expiresAt > now
            /\ e.token.id \notin spent
Fits(e) == \E r \in Protected(e.token.host) : e.token.scope = r.scope /\ e.token.epoch = r.epoch

\* Mutant of FromItsBrowser: whoever follows the address.
FromAnyBrowser(e) == TRUE
FromItsBrowser(e) == SignedFor(e.token.host, e.state) /\ e.state = e.token.state

\* Spent first, whatever comes of it; then the state cookie is taken away.
Enter(e) ==
  /\ e \in entering
  /\ entering' = entering \ {e}
  /\ spent' = IF Alive(e) THEN spent \cup {e.token.id} ELSE spent
  /\ state' = IF Alive(e) /\ Fits(e) THEN [state EXCEPT ![e.by][e.token.host] = None] ELSE state
  /\ IF Alive(e) /\ Fits(e) /\ FromItsBrowser(e)
     THEN /\ \E r \in Protected(e.token.host) :
               StartSession(r, e.token.ground, e.token.who, e.by, e.token.id,
                            Least(SessionSeconds, PanelSeconds))
          /\ openings' = [openings EXCEPT ![e.token.id] = @ + 1]
     ELSE UNCHANGED granted
  /\ UNCHANGED <<registry, now, logins, panel, given, people>>

\* A page of the panel looks the session up once the one kept is too old, and has
\* the browser keep what it finds (cookieCache).  A ban ends the session.
KeepSession(p) ==
  /\ "lose" \in Ways
  /\ now >= cached[p].until /\ ~account[p].banned
  /\ cached' = [cached EXCEPT ![p] = [role |-> account[p].role, until |-> now + CacheSeconds]]
  /\ UNCHANGED <<registry, now, logins, panel, browser, spent, granted, account, lost>>

\* An administrator changes an account, and the right to the project may go with it.
Sees(a) == ~a.banned /\ (a.role = "all" \/ a.row)

Change(p, a, grace) ==
  /\ "lose" \in Ways
  /\ account' = [account EXCEPT ![p] = a]
  /\ lost' = IF Sees(account[p]) /\ ~Sees(a)
             THEN lost \cup {[who |-> p, at |-> now, grace |-> grace]} ELSE lost
  /\ UNCHANGED <<registry, now, logins, panel, browser, spent, granted, cached>>

\* setBan, and a removal: the session goes, but not the one the browser keeps.
Ban(p) == /\ ~account[p].banned
          /\ Change(p, [account[p] EXCEPT !.banned = TRUE], CacheSeconds)

\* setRole: the session stays, and the role in what the browser keeps with it.
Demote(p) == /\ account[p].role = "all"
             /\ Change(p, [account[p] EXCEPT !.role = "some"], CacheSeconds)

\* setProjects, of whoever has the rows of a member: it bites at once, unless the
\* person was demoted so lately that the browser keeps a session that sees all.
LeaveProject(p) ==
  /\ account[p].role = "some" /\ account[p].row
  /\ Change(p, [account[p] EXCEPT !.row = FALSE],
            IF now < cached[p].until /\ cached[p].role = "all" THEN CacheSeconds ELSE 0)

\* The login service is a container: spentEntries is memory.
Restart ==
  /\ Restarts /\ spent # {}
  /\ spent' = {}
  /\ openings' = [i \in DOMAIN openings |-> 0]
  /\ UNCHANGED <<registry, now, logins, panel, browser, sessions, people>>

\* A request to either service ends within the second it began in.
Tick ==
  /\ now < MaxNow /\ logins = {} /\ asking = {} /\ entering = {}
  /\ now' = now + 1
  /\ UNCHANGED <<registry, logins, panel, browser, spent, granted, people>>

Next ==
  \/ \E host \in Hosts, mode \in Modes, hash \in Hashes \cup {None} : Decide(host, mode, hash)
  \/ \E host \in Hosts : Forget(host)
  \/ \E p \in People, host \in Hosts :
       \/ SubmitPassword(p, host) \/ ShowLogin(p, host)
       \/ \E link \in StateIds \cup {None} : AskPanel(p, host, link)
  \/ \E p \in People, t \in tokens, copy \in Copies : FollowToken(p, t, copy)
  \/ \E p \in People : KeepSession(p) \/ Ban(p) \/ Demote(p) \/ LeaveProject(p)
  \/ \E l \in logins : PasswordVerified(l) \/ PasswordRefused(l)
  \/ \E a \in asking : IssueToken(a) \/ DenyEntry(a)
  \/ \E e \in entering : Enter(e)
  \/ Restart \/ Tick

Spec == Init /\ [][Next]_vars
-----------------------------------------------------------------------------
TypeOK ==
  /\ store \subseteq Record /\ minted \subseteq Hashes /\ removals \in [Scopes -> Nat]
  /\ now \in Nat
  /\ logins \subseteq Login /\ asking \subseteq Asking /\ tokens \subseteq Token
  /\ entering \subseteq Entering /\ state \in [People -> [Hosts -> StateIds \cup {None}]]
  /\ given \subseteq Given
  /\ spent \subseteq TokenIds /\ sessions \subseteq Session
  /\ openings \in [TokenIds -> Nat]
  /\ account \in [People -> Account] /\ cached \in [People -> [role : Roles, until : Nat]]
  /\ lost \subseteq Lost

\* While a hostname keeps its record, no session outlives the credential it was
\* granted on: a rotation or an opening in between, even one that happens while
\* the password is being verified or the token is on its way, ends it (epoch).
SessionsEndWithTheirCredential ==
  \A s \in sessions, r \in store :
    Admits(r, s) /\ s.ground.removals = removals[r.scope] => s.ground.hash = r.hash

\* The same without the exception, which is what the guide says: "changing or
\* removing its credential invalidates the sessions that came before".
ChangingOrRemovingEndsSessions ==
  \A s \in sessions, r \in store : Admits(r, s) => s.ground.hash = r.hash

\* A token opens one session in the life of a process, though its address is
\* followed twice before the first answer takes the state cookie away
\* (spentEntries, and once).
TokensOpenOnce == \A i \in TokenIds : openings[i] <= 1

\* And it opens it in the browser the state in the token was made for, on the host
\* it was made for, whoever was sent the address of the question or of the answer and
\* whoever's session the panel answered (the state cookie).
TokensStayInTheirBrowser ==
  \A s \in sessions, t \in tokens :
    s.token = t.id => [state |-> t.state, by |-> s.by, host |-> s.host] \in given

\* A right taken away on the panel is gone from the site within the life of a
\* token and the session it opens, however long a password session lasts: at once
\* but for those when it is a membership, later by what a session is cached for when
\* it goes with a role or a ban.
LostRightEnds ==
  \A s \in sessions, r \in store, l \in lost :
    s.token # None /\ s.who = l.who /\ Admits(r, s)
      => now < l.at + l.grace + TokenSeconds + PanelSeconds
=============================================================================
