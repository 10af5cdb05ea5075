--------------------------- MODULE SiteAccessProofs ---------------------------
(***************************************************************************)
(* What SiteAccess promises, for any people, hostnames, credentials,       *)
(* tokens and lifetimes: a session ends with its credential, a token opens *)
(* one session, in the browser its state was made for, and a right that    *)
(* was taken away is gone within the life of a token and a panel session,  *)
(* and of a cached session when it went with a role or a ban.              *)
(***************************************************************************)
EXTENDS SiteAccess, ProtectionsProofs

\* A record is filed under its own hostname, and the file parses.
Filed == Parses(store) /\ \A r \in store : r.scope = HostScope(r.host)

\* What a cookie or token of an epoch was granted on is the credential of that
\* epoch, if its scope was never removed since: an epoch is then given out once.
Grounded(scope, epoch, ground) ==
  /\ ground.removals <= removals[scope]
  /\ ground.removals = removals[scope] =>
       \E r \in store : r.scope = scope /\ (epoch < r.epoch \/ (epoch = r.epoch /\ r.hash = ground.hash))

EpochsTell ==
  /\ \A l \in logins \cup asking : Grounded(l.record.scope, l.record.epoch, l.ground)
  /\ \A t \in tokens \cup sessions : Grounded(t.scope, t.epoch, t.ground)

\* Only issued tokens are followed, and a token that opened a session is spent.
Tracked ==
  /\ \A e \in entering : e.token \in tokens
  /\ \A i \in TokenIds : openings[i] <= 1 /\ (openings[i] # 0 => i \in spent)

\* A state is held by the browser and for the host it was made for, on the way to the
\* login service as well, and a session remembers the token that opened it.
Held ==
  /\ \A p \in People, h \in Hosts :
       state[p][h] # None => [state |-> state[p][h], by |-> p, host |-> h] \in given
  /\ \A e \in entering :
       e.state # None => [state |-> e.state, by |-> e.by, host |-> e.token.host] \in given

Remembered ==
  /\ \A t, u \in tokens : t.id = u.id => t = u
  /\ \A s \in sessions : s.token # None => \E t \in tokens : t.id = s.token
  /\ TokensStayInTheirBrowser

\* Nobody who may see the project has lost it, and a cached session that still vouches
\* for a right that was lost ends in time.
Lapsing ==
  /\ \A p \in People : cached[p].until <= now + CacheSeconds
  /\ \A l \in lost :
       /\ l.at <= now /\ ~Sees(account[l.who])
       /\ now < cached[l.who].until /\ (cached[l.who].role = "all" \/ account[l.who].row)
            => cached[l.who].until <= l.at + l.grace

\* How long what a person set out with lasts, and how long after a lost right.
Bounded ==
  /\ \A a \in asking, l \in lost : l.who = a.who => now <= l.at + l.grace
  /\ \A t \in tokens :
       /\ t.expiresAt <= now + TokenSeconds
       /\ \A l \in lost : l.who = t.who => t.expiresAt <= l.at + l.grace + TokenSeconds
  /\ \A s \in sessions : s.token # None =>
       /\ s.expiresAt <= now + PanelSeconds
       /\ \A l \in lost : l.who = s.who => s.expiresAt < l.at + l.grace + TokenSeconds + PanelSeconds

Inv == TypeOK /\ Filed /\ EpochsTell /\ Tracked /\ Held /\ Remembered /\ Lapsing /\ Bounded

LEMMA Initially == Init => Inv
<1> SUFFICES ASSUME Init PROVE Inv
  OBVIOUS
<1>1. TypeOK
  BY SiteAccessAssumption DEF Init, TypeOK, Account, Roles
<1>2. Filed /\ EpochsTell /\ Tracked /\ Held /\ Remembered /\ Bounded
  BY DEF Init, Filed, Parses, NoDuplicates, EpochsTell, Tracked, Held, Remembered,
         TokensStayInTheirBrowser, Bounded
<1>3. Lapsing
  BY SiteAccessAssumption DEF Init, Lapsing
<1> QED
  BY <1>1, <1>2, <1>3 DEF Inv

\* What an administrator may do to an account takes rights and gives none back, and
\* says how long a cached session may still stand for what is lost.
LEMMA RightsChange ==
  ASSUME Inv, NEW p \in People, Ban(p) \/ Demote(p) \/ LeaveProject(p)
  PROVE  \E a \in Account, grace \in {0, CacheSeconds} :
           /\ Change(p, a, grace)
           /\ Sees(a) => Sees(account[p])
           /\ a.row => account[p].row
           /\ now < cached[p].until /\ (cached[p].role = "all" \/ a.row) => grace = CacheSeconds
<1>0. account[p] \in Account
  BY DEF Inv, TypeOK
<1>1. CASE Ban(p)
  <2> DEFINE a == [account[p] EXCEPT !.banned = TRUE]
  <2>1. a \in Account /\ a.banned /\ a.row = account[p].row
    BY <1>0 DEF Account
  <2> QED
    BY <1>1, <2>1 DEF Ban, Sees
<1>2. CASE Demote(p)
  <2> DEFINE a == [account[p] EXCEPT !.role = "some"]
  <2>1. /\ a \in Account /\ a.role = "some" /\ a.row = account[p].row
        /\ a.banned = account[p].banned
    BY <1>0 DEF Account, Roles
  <2> QED
    BY <1>2, <2>1 DEF Demote, Sees
<1>3. CASE LeaveProject(p)
  <2> DEFINE a == [account[p] EXCEPT !.row = FALSE]
             grace == IF now < cached[p].until /\ cached[p].role = "all" THEN CacheSeconds ELSE 0
  <2>1. /\ a \in Account /\ a.role = account[p].role /\ ~a.row
        /\ a.banned = account[p].banned
    BY <1>0 DEF Account
  <2>2. grace \in {0, CacheSeconds} /\ Change(p, a, grace)
    BY <1>3 DEF LeaveProject
  <2> QED
    BY <2>1, <2>2 DEF Sees
<1> QED
  BY <1>1, <1>2, <1>3

-----------------------------------------------------------------------------
(* The registry.                                                           *)

\* What a step leaves of the registry: unless its writers did, all of it.
Writing == (\E host \in Hosts, mode \in Modes, hash \in Hashes \cup {None} : Decide(host, mode, hash))
           \/ (\E host \in Hosts : Forget(host))

LEMMA OnlyWritersWrite == [Next]_vars => Writing \/ UNCHANGED <<store, removals, minted>>
BY DEF Next, Writing, SubmitPassword, ShowLogin, AskPanel, FollowToken, PasswordVerified,
       PasswordRefused, IssueToken, DenyEntry, KeepSession, Ban, Demote, LeaveProject, Change,
       Enter, Restart, Tick, vars, registry

\* The instance of Registry is about the same registry: its operators are the
\* module's own.
LEMMA SameOperators ==
  /\ Registered!Record = Record /\ Registered!Scopes = Scopes
  /\ \A s, h, sc : Registered!Collides(s, h, sc) <=> Collides(s, h, sc)
  /\ \A s, input : Registered!SetProtection(s, input) = SetProtection(s, input)
  /\ \A s, sc : Registered!RemoveProtection(s, sc) = RemoveProtection(s, sc)
<1>1. Registered!Scopes = Scopes
  BY DEF Registered!Scopes, Scopes, Registered!HostScope, HostScope, Registered!ShareScope, ShareScope
<1>2. Registered!Record = Record
  BY <1>1 DEF Registered!Record, Record, Registered!Modes, Modes
<1>3. \A s, h, sc : Registered!Collides(s, h, sc) <=> Collides(s, h, sc)
  BY DEF Registered!Collides, Collides, Registered!ForHost, ForHost
<1>4. \A s, sc : Registered!NextEpoch(s, sc) = NextEpoch(s, sc)
  BY DEF Registered!NextEpoch, NextEpoch, Registered!InScope, InScope
<1>5. \A s, input : Registered!SetProtection(s, input) = SetProtection(s, input)
  BY <1>4 DEF Registered!SetProtection, SetProtection
<1> QED
  BY <1>1, <1>2, <1>3, <1>5 DEF Registered!RemoveProtection, RemoveProtection

\* A decision is one setProtection of the record of the hostname.
LEMMA Decided ==
  ASSUME Inv, NEW host \in Hosts, NEW mode \in Modes, NEW hash \in Hashes \cup {None},
         Decide(host, mode, hash)
  PROVE  \E r \in Record :
           /\ store' = {q \in store : q.scope # HostScope(host)} \cup {r}
           /\ r.scope = HostScope(host) /\ r.host = host
           /\ r.epoch = NextEpoch(store, HostScope(host))
           /\ \A q \in store : q.scope = r.scope => q.epoch < r.epoch
           /\ store' \subseteq Record /\ Parses(store')
           /\ Registered!Set
<1> DEFINE input == [scope |-> HostScope(host), host |-> host, mode |-> mode, hash |-> hash,
                     project |-> None, service |-> None]
<1>1. input \in Input
  BY DEF Input, Scopes
<1>2. store \in SUBSET Record /\ Parses(store) /\ NoDuplicates(store)
  BY DEF Inv, TypeOK, Filed, Parses
<1>3. ~Collides(store, host, HostScope(host))
  BY DEF Inv, Filed, Collides, ForHost
<1>4. store' = SetProtection(store, input) /\ (mode = "protected" <=> hash # None)
  BY DEF Decide
<1>5. store' \subseteq Record /\ Parses(store')
  BY <1>1, <1>2, <1>3, <1>4, SetProtectionParses
<1>6. PICK r \in Record :
        /\ store' = {q \in store : q.scope # HostScope(host)} \cup {r}
        /\ r.scope = HostScope(host) /\ r.host = host /\ r.mode = mode /\ r.hash = hash
        /\ r.epoch = NextEpoch(store, HostScope(host))
  BY <1>1, <1>2, <1>4, SetProtectionAdds
<1>7. \A q \in store : q.scope = r.scope => q.epoch < r.epoch
  BY <1>1, <1>2, <1>6, NextEpochAdvances DEF InScope, Input
<1>8. Registered!Set
  <2>1. PICK s \in SetProtection(store, input) :
          /\ s \in Record /\ s.host = host /\ s.scope = HostScope(host)
          /\ s.mode = mode /\ s.hash = hash
          /\ SetProtection(store, s) = SetProtection(store, input)
    BY <1>1, <1>2, SetProtectionLeaves
  <2> QED
    BY <1>3, <1>4, <2>1, SameOperators DEF Registered!Set
<1> QED
  BY <1>5, <1>6, <1>7, <1>8

LEMMA FiledStep == Inv /\ [Next]_vars => Filed' /\ store' \subseteq Record
<1> SUFFICES ASSUME Inv, [Next]_vars PROVE Filed' /\ store' \subseteq Record
  OBVIOUS
<1>0. store \in SUBSET Record /\ Parses(store) /\ \A r \in store : r.scope = HostScope(r.host)
  BY DEF Inv, TypeOK, Filed
<1>1. ASSUME NEW host \in Hosts, NEW mode \in Modes, NEW hash \in Hashes \cup {None},
             Decide(host, mode, hash)
      PROVE  Filed' /\ store' \subseteq Record
  BY <1>0, <1>1, Decided DEF Filed
<1>2. ASSUME NEW host \in Hosts, Forget(host)
      PROVE  Filed' /\ store' \subseteq Record
  BY <1>0, <1>2, RemoveProtectionParses DEF Forget, Filed, RemoveProtection
<1>3. CASE UNCHANGED <<store, removals, minted>>
  BY <1>0, <1>3 DEF Filed
<1> QED
  BY <1>1, <1>2, <1>3, OnlyWritersWrite DEF Writing

\* What was granted on a credential stays told apart from later ones.
LEMMA GroundedKept ==
  ASSUME Inv, [Next]_vars, NEW scope \in Scopes, NEW epoch \in Nat, NEW ground \in Grounds,
         Grounded(scope, epoch, ground)
  PROVE  Grounded(scope, epoch, ground)'
<1>0. /\ store \in SUBSET Record /\ removals \in [Scopes -> Nat] /\ ground.removals \in Nat
      /\ \A r \in store : r.epoch \in Nat
  BY DEF Inv, TypeOK, Grounds, Record
<1>1. ASSUME NEW host \in Hosts, NEW mode \in Modes, NEW hash \in Hashes \cup {None},
             Decide(host, mode, hash)
      PROVE  Grounded(scope, epoch, ground)'
  <2>1. PICK r \in Record :
          /\ store' = {q \in store : q.scope # HostScope(host)} \cup {r}
          /\ r.scope = HostScope(host)
          /\ \A q \in store : q.scope = r.scope => q.epoch < r.epoch
    BY <1>1, Decided
  <2>2. removals' = removals
    BY <1>1 DEF Decide
  <2>3. r.epoch \in Nat
    BY DEF Record
  <2> QED
    BY <1>0, <2>1, <2>2, <2>3 DEF Grounded
<1>2. ASSUME NEW host \in Hosts, Forget(host)
      PROVE  Grounded(scope, epoch, ground)'
  <2>1. /\ store' = {q \in store : q.scope # HostScope(host)}
        /\ removals' = [removals EXCEPT ![HostScope(host)] = @ + 1]
        /\ HostScope(host) \in Scopes
    BY <1>2 DEF Forget, RemoveProtection, Scopes
  <2>2. CASE scope = HostScope(host)
    BY <1>0, <2>1, <2>2 DEF Grounded
  <2>3. CASE scope # HostScope(host)
    BY <1>0, <2>1, <2>3 DEF Grounded
  <2> QED
    BY <2>2, <2>3
<1>3. CASE UNCHANGED <<store, removals, minted>>
  BY <1>3 DEF Grounded
<1> QED
  BY <1>1, <1>2, <1>3, OnlyWritersWrite DEF Writing

\* The record a request reads and what it would be granted on.
LEMMA GroundOfNow ==
  ASSUME Inv, NEW host, NEW r \in Protected(host)
  PROVE  /\ r \in Record /\ r \in store /\ r.host = host
         /\ Ground(r) \in Grounds /\ Grounded(r.scope, r.epoch, Ground(r))
<1>1. r \in store /\ r \in Record /\ r.host = host /\ r.mode = "protected"
  BY DEF Inv, TypeOK, Protected, ForHost
<1>2. r.hash \in Hashes
  BY <1>1 DEF Inv, Filed, Parses, WellFormed, Record
<1>3. removals[r.scope] \in Nat /\ r.epoch \in Nat
  BY <1>1 DEF Inv, TypeOK, Record
<1> QED
  BY <1>1, <1>2, <1>3 DEF Ground, Grounds, Grounded

-----------------------------------------------------------------------------
(* The steps.                                                              *)

LEMMA Clock == /\ SessionSeconds \in Nat /\ PanelSeconds \in Nat /\ TokenSeconds \in Nat
               /\ SessionSeconds > 0 /\ PanelSeconds > 0 /\ TokenSeconds > 0
               /\ CacheSeconds \in Nat /\ CacheSeconds > 0
BY SiteAccessAssumption

\* A session that starts is a cookie of the record and lasts what it was given.
LEMMA SessionStarts ==
  ASSUME Inv, NEW r \in Record, NEW ground \in Grounds, NEW who \in People, NEW by \in People,
         NEW token \in TokenIds \cup {None}, NEW seconds \in Nat,
         StartSession(r, ground, who, by, token, seconds)
  PROVE  \E s \in Session :
           /\ sessions' = sessions \cup {s}
           /\ s.scope = r.scope /\ s.host = r.host /\ s.epoch = r.epoch /\ s.ground = ground
           /\ s.who = who /\ s.by = by /\ s.token = token /\ s.expiresAt = now + seconds
<1> DEFINE s == [scope |-> r.scope, host |-> r.host, epoch |-> r.epoch, expiresAt |-> now + seconds,
                 who |-> who, by |-> by, token |-> token, ground |-> ground]
<1>1. s \in Session
  BY DEF Session, Record, Inv, TypeOK
<1>2. sessions' = sessions \cup {s}
  BY DEF StartSession
<1> QED
  BY <1>1, <1>2

\* A token that is issued is for the record and the browser it was asked with.
LEMMA TokenIssued ==
  ASSUME Inv, NEW a \in asking, IssueToken(a)
  PROVE  \E t \in Token :
           /\ tokens' = tokens \cup {t} /\ asking' = asking \ {a}
           /\ t.scope = a.record.scope /\ t.epoch = a.record.epoch /\ t.ground = a.ground
           /\ t.who = a.who /\ t.state = a.state /\ t.expiresAt = now + TokenSeconds
           /\ \A u \in tokens : u.id # t.id
<1> DEFINE t == [id |-> CHOOSE i \in UnusedTokens : TRUE, host |-> a.record.host, scope |-> a.record.scope,
                 epoch |-> a.record.epoch, who |-> a.who, state |-> a.state,
                 expiresAt |-> now + TokenSeconds, ground |-> a.ground]
<1>1. /\ (CHOOSE i \in UnusedTokens : TRUE) \in TokenIds
      /\ \A u \in tokens : u.id # CHOOSE i \in UnusedTokens : TRUE
  BY DEF IssueToken, UnusedTokens
<1>2. a \in Asking /\ now \in Nat
  BY DEF Inv, TypeOK
<1>3. t \in Token
  BY <1>1, <1>2, Clock DEF Asking, Record, Token
<1>4. tokens' = tokens \cup {t} /\ asking' = asking \ {a}
  BY DEF IssueToken
<1> QED
  BY <1>1, <1>3, <1>4

\* What Enter does with a token: it opens nothing, or a session of the epoch and
\* scope the token was made for, in the browser that follows it.
Opens(e) == Alive(e) /\ Fits(e) /\ FromItsBrowser(e)

LEMMA Entered ==
  ASSUME Inv, NEW e \in entering, Enter(e)
  PROVE  /\ e \in Entering
         /\ Opens(e) => /\ \E s \in Session :
                              /\ sessions' = sessions \cup {s}
                              /\ s.scope = e.token.scope /\ s.host = e.token.host
                              /\ s.token = e.token.id /\ s.epoch = e.token.epoch
                              /\ s.ground = e.token.ground /\ s.who = e.token.who /\ s.by = e.by
                              /\ s.expiresAt <= now + PanelSeconds
                         /\ openings' = [openings EXCEPT ![e.token.id] = @ + 1]
         /\ ~Opens(e) => UNCHANGED <<sessions, openings>>
<1>1. e \in Entering
  BY DEF Inv, TypeOK
<1>2. CASE Opens(e)
  <2>1. PICK r \in Protected(e.token.host) :
          StartSession(r, e.token.ground, e.token.who, e.by, e.token.id, Least(SessionSeconds, PanelSeconds))
    BY <1>2 DEF Enter, Opens
  <2>2. PICK q \in Protected(e.token.host) : e.token.scope = q.scope /\ e.token.epoch = q.epoch
    BY <1>2 DEF Opens, Fits
  <2>3. r = q /\ r \in Record /\ r.host = e.token.host
    BY DEF Inv, TypeOK, Filed, Parses, NoDuplicates, Protected, ForHost
  <2>4. Least(SessionSeconds, PanelSeconds) \in Nat /\ Least(SessionSeconds, PanelSeconds) <= PanelSeconds
    BY Clock DEF Least
  <2>5. /\ e.token.ground \in Grounds /\ e.token.who \in People /\ e.by \in People
        /\ e.token.id \in TokenIds
    BY <1>1 DEF Entering, Token
  <2>6. PICK s \in Session :
           /\ sessions' = sessions \cup {s}
           /\ s.scope = r.scope /\ s.host = r.host /\ s.epoch = r.epoch
           /\ s.ground = e.token.ground /\ s.token = e.token.id
           /\ s.who = e.token.who /\ s.by = e.by
           /\ s.expiresAt = now + Least(SessionSeconds, PanelSeconds)
    BY <2>1, <2>3, <2>4, <2>5, SessionStarts
  <2>7. s.expiresAt <= now + PanelSeconds
    BY <2>4, <2>6, Clock DEF Inv, TypeOK
  <2>8. openings' = [openings EXCEPT ![e.token.id] = @ + 1]
    BY <1>2 DEF Enter, Opens
  <2> QED
    BY <1>1, <1>2, <2>2, <2>3, <2>6, <2>7, <2>8
<1>3. CASE ~Opens(e)
  BY <1>1, <1>3 DEF Enter, Opens, granted
<1> QED
  BY <1>2, <1>3

LEMMA TypeStep == Inv /\ [Next]_vars => TypeOK'
<1> SUFFICES ASSUME Inv, [Next]_vars PROVE TypeOK'
  OBVIOUS
<1>0. TypeOK /\ store' \subseteq Record
  BY FiledStep DEF Inv
<1>1. ASSUME NEW host \in Hosts, NEW mode \in Modes, NEW hash \in Hashes \cup {None},
             Decide(host, mode, hash)
      PROVE  TypeOK'
  BY <1>0, <1>1 DEF TypeOK, Decide, panel, browser, granted, people
<1>2. ASSUME NEW host \in Hosts, Forget(host) PROVE TypeOK'
  <2>1. HostScope(host) \in Scopes
    BY DEF Scopes
  <2> QED
    BY <1>0, <1>2, <2>1 DEF TypeOK, Forget, panel, browser, granted, people
<1>3. ASSUME NEW p \in People, NEW host \in Hosts, SubmitPassword(p, host) PROVE TypeOK'
  <2>1. PICK r \in Protected(host) :
          logins' = logins \cup {[who |-> p, record |-> r, ground |-> Ground(r)]}
    BY <1>3 DEF SubmitPassword
  <2>2. [who |-> p, record |-> r, ground |-> Ground(r)] \in Login
    BY GroundOfNow DEF Login
  <2> QED
    BY <1>0, <1>3, <2>1, <2>2 DEF TypeOK, SubmitPassword, registry, panel, browser, granted, people
<1>4. ASSUME NEW p \in People, NEW host \in Hosts, ShowLogin(p, host) PROVE TypeOK'
  <2>1. PICK i \in StateIds : /\ given' = given \cup {[state |-> i, by |-> p, host |-> host]}
                             /\ state' = [state EXCEPT ![p][host] = i]
    BY <1>4 DEF ShowLogin, UnusedStates
  <2>2. given' \subseteq Given /\ state' \in [People -> [Hosts -> StateIds \cup {None}]]
    BY <1>0, <2>1 DEF TypeOK, Given
  <2> QED
    BY <1>0, <1>4, <2>2 DEF TypeOK, ShowLogin, registry, panel, granted, people
<1>5. ASSUME NEW p \in People, NEW host \in Hosts, NEW link \in StateIds \cup {None},
             AskPanel(p, host, link)
      PROVE  TypeOK'
  <2>1. PICK r \in Protected(host) :
          asking' = asking \cup {[who |-> p, record |-> r, ground |-> Ground(r), state |-> link]}
    BY <1>5 DEF AskPanel
  <2>2. link \in StateIds
    BY <1>0, <1>5 DEF AskPanel, SignedFor, TypeOK, Given
  <2>3. [who |-> p, record |-> r, ground |-> Ground(r), state |-> link] \in Asking
    BY <2>2, GroundOfNow DEF Asking
  <2> QED
    BY <1>0, <1>5, <2>1, <2>3 DEF TypeOK, AskPanel, registry, browser, granted, people
<1>6. ASSUME NEW p \in People, NEW t \in tokens, NEW copy \in Copies, FollowToken(p, t, copy)
      PROVE  TypeOK'
  <2>1. [by |-> p, token |-> t, state |-> state[p][t.host], copy |-> copy] \in Entering
    BY <1>0 DEF Entering, TypeOK, Token
  <2> QED
    BY <1>0, <1>6, <2>1 DEF TypeOK, FollowToken, registry, panel, granted, people
<1>7. ASSUME NEW p \in People, Ban(p) \/ Demote(p) \/ LeaveProject(p) PROVE TypeOK'
  <2>1. PICK a \in Account, grace \in {0, CacheSeconds} : Change(p, a, grace)
    BY <1>7, RightsChange
  <2>2. account' \in [People -> Account]
    BY <1>0, <2>1 DEF TypeOK, Change
  <2>3. lost' \subseteq Lost
    BY <1>0, <2>1 DEF TypeOK, Change, Lost
  <2> QED
    BY <1>0, <2>1, <2>2, <2>3 DEF TypeOK, Change, registry, panel, browser, granted
<1>15. ASSUME NEW p \in People, KeepSession(p) PROVE TypeOK'
  <2>1. [role |-> account[p].role, until |-> now + CacheSeconds] \in [role : Roles, until : Nat]
    BY <1>0, Clock DEF TypeOK, Account
  <2> QED
    BY <1>0, <1>15, <2>1 DEF TypeOK, KeepSession, registry, panel, browser, granted
<1>16. ASSUME NEW a \in asking, DenyEntry(a) PROVE TypeOK'
  BY <1>0, <1>16 DEF TypeOK, DenyEntry, registry, browser, granted, people
<1>8. ASSUME NEW l \in logins, PasswordVerified(l) PROVE TypeOK'
  <2>1. l \in Login
    BY <1>0 DEF TypeOK
  <2>2. \E s \in Session : sessions' = sessions \cup {s}
    BY <1>8, <2>1, SessionStarts, Clock DEF PasswordVerified, Login
  <2> QED
    BY <1>0, <1>8, <2>2 DEF TypeOK, PasswordVerified, registry, panel, browser, people
<1>9. ASSUME NEW l \in logins, PasswordRefused(l) PROVE TypeOK'
  BY <1>0, <1>9 DEF TypeOK, PasswordRefused, registry, panel, browser, granted, people
<1>10. ASSUME NEW a \in asking, IssueToken(a) PROVE TypeOK'
  BY <1>0, <1>10, TokenIssued DEF TypeOK, IssueToken, registry, browser, granted, people
<1>11. ASSUME NEW e \in entering, Enter(e) PROVE TypeOK'
  <2>1. sessions' \subseteq Session /\ openings' \in [TokenIds -> Nat]
    BY <1>0, <1>11, Entered DEF TypeOK, Entering, Token
  <2>2. e \in Entering
    BY <1>0 DEF TypeOK
  <2>3. spent' \subseteq TokenIds /\ state' \in [People -> [Hosts -> StateIds \cup {None}]]
    BY <1>0, <1>11, <2>2 DEF TypeOK, Enter, Entering, Token
  <2> QED
    BY <1>0, <1>11, <2>1, <2>3 DEF TypeOK, Enter, registry, panel, people
<1>12. CASE Restart
  BY <1>0, <1>12 DEF TypeOK, Restart, registry, panel, browser, people
<1>13. CASE Tick
  BY <1>0, <1>13 DEF TypeOK, Tick, registry, panel, browser, granted, people
<1>14. CASE UNCHANGED vars
  BY <1>0, <1>14 DEF TypeOK, vars, registry, panel, browser, granted, people
<1> QED
  BY <1>1, <1>2, <1>3, <1>4, <1>5, <1>6, <1>7, <1>8, <1>9, <1>10, <1>11, <1>12, <1>13, <1>14,
     <1>15, <1>16 DEF Next

\* Nothing a step adds was granted on less than what it is shown for.
LEMMA EpochsTellStep == Inv /\ [Next]_vars => EpochsTell'
<1> SUFFICES ASSUME Inv, [Next]_vars PROVE EpochsTell'
  OBVIOUS
<1>0. /\ logins \subseteq Login /\ asking \subseteq Asking
      /\ tokens \subseteq Token /\ sessions \subseteq Session /\ EpochsTell
  BY DEF Inv, TypeOK
<1>1. /\ \A l \in logins \cup asking : Grounded(l.record.scope, l.record.epoch, l.ground)'
      /\ \A t \in tokens \cup sessions : Grounded(t.scope, t.epoch, t.ground)'
  <2>1. ASSUME NEW l \in logins \cup asking
        PROVE  Grounded(l.record.scope, l.record.epoch, l.ground)'
    <3>1. l.record.scope \in Scopes /\ l.record.epoch \in Nat /\ l.ground \in Grounds
      BY <1>0 DEF Login, Asking, Record
    <3> QED
      BY <1>0, <3>1, GroundedKept DEF EpochsTell
  <2>2. ASSUME NEW t \in tokens \cup sessions
        PROVE  Grounded(t.scope, t.epoch, t.ground)'
    <3>1. t.scope \in Scopes /\ t.epoch \in Nat /\ t.ground \in Grounds
      BY <1>0 DEF Token, Session
    <3> QED
      BY <1>0, <3>1, GroundedKept DEF EpochsTell
  <2> QED
    BY <2>1, <2>2
<1>2. ASSUME NEW p \in People, NEW host \in Hosts, SubmitPassword(p, host) PROVE EpochsTell'
  <2>1. PICK r \in Protected(host) :
          logins' = logins \cup {[who |-> p, record |-> r, ground |-> Ground(r)]}
    BY <1>2 DEF SubmitPassword
  <2>2. UNCHANGED <<asking, tokens, sessions, store, removals>>
    BY <1>2 DEF SubmitPassword, panel, granted, registry
  <2>3. Grounded(r.scope, r.epoch, Ground(r))
    BY GroundOfNow
  <2> QED
    BY <1>1, <2>1, <2>2, <2>3 DEF EpochsTell, Ground, Grounded
<1>3. ASSUME NEW p \in People, NEW host \in Hosts, NEW link, AskPanel(p, host, link)
      PROVE  EpochsTell'
  <2>1. PICK r \in Protected(host) :
          asking' = asking \cup {[who |-> p, record |-> r, ground |-> Ground(r), state |-> link]}
    BY <1>3 DEF AskPanel
  <2>2. UNCHANGED <<logins, tokens, sessions, store, removals>>
    BY <1>3 DEF AskPanel, granted, registry
  <2>3. Grounded(r.scope, r.epoch, Ground(r))
    BY GroundOfNow
  <2> QED
    BY <1>1, <2>1, <2>2, <2>3 DEF EpochsTell, Ground, Grounded
<1>4. ASSUME NEW l \in logins, PasswordVerified(l) PROVE EpochsTell'
  <2>1. l \in Login
    BY <1>0
  <2>2. \E s \in Session : /\ sessions' = sessions \cup {s}
                          /\ s.scope = l.record.scope /\ s.epoch = l.record.epoch /\ s.ground = l.ground
    BY <1>4, <2>1, SessionStarts, Clock DEF PasswordVerified, Login
  <2>3. logins' \subseteq logins /\ UNCHANGED <<asking, tokens>>
    BY <1>4 DEF PasswordVerified, panel
  <2> QED
    BY <1>1, <2>2, <2>3 DEF EpochsTell
<1>5. ASSUME NEW a \in asking, IssueToken(a) PROVE EpochsTell'
  <2>1. logins' = logins /\ sessions' = sessions
    BY <1>5 DEF IssueToken, granted
  <2> QED
    BY <1>1, <1>5, <2>1, TokenIssued DEF EpochsTell
<1>6. ASSUME NEW e \in entering, Enter(e) PROVE EpochsTell'
  <2>1. e.token \in tokens /\ UNCHANGED <<logins, asking, tokens>>
    BY <1>6 DEF Inv, Tracked, Enter, panel
  <2>2. \A s \in sessions' \ sessions :
          s.scope = e.token.scope /\ s.epoch = e.token.epoch /\ s.ground = e.token.ground
    BY <1>6, Entered
  <2> QED
    BY <1>1, <2>1, <2>2 DEF EpochsTell
<1>7. CASE logins' \subseteq logins /\ asking' \subseteq asking /\ UNCHANGED <<tokens, sessions>>
  BY <1>1, <1>7 DEF EpochsTell
<1> QED
  BY <1>2, <1>3, <1>4, <1>5, <1>6, <1>7
  DEF Next, vars, Decide, Forget, ShowLogin, FollowToken, DenyEntry, KeepSession, Ban, Demote,
      LeaveProject, Change, PasswordRefused, Restart, Tick, panel, granted

\* A token opens a session only while it is not spent, and spends it.
LEMMA TrackedStep == Inv /\ [Next]_vars => Tracked'
<1> SUFFICES ASSUME Inv, [Next]_vars PROVE Tracked'
  OBVIOUS
<1>0. Tracked /\ openings \in [TokenIds -> Nat]
  BY DEF Inv, TypeOK
<1>1. ASSUME NEW e \in entering, Enter(e) PROVE Tracked'
  <2>1. e.token.id \in TokenIds
    BY DEF Inv, TypeOK, Entering, Token
  <2>2. entering' \subseteq entering /\ tokens' = tokens
        /\ spent' = IF Alive(e) THEN spent \cup {e.token.id} ELSE spent
    BY <1>1 DEF Enter, panel
  <2>3. CASE Opens(e)
    <3>1. openings' = [openings EXCEPT ![e.token.id] = @ + 1]
      BY <1>1, <2>3, Entered
    <3>2. openings[e.token.id] = 0
      BY <1>0, <2>1, <2>3 DEF Tracked, Opens, Alive
    <3> QED
      BY <1>0, <2>1, <2>2, <2>3, <3>1, <3>2 DEF Tracked, Opens
  <2>4. CASE ~Opens(e)
    BY <1>0, <1>1, <2>2, <2>4, Entered DEF Tracked
  <2> QED
    BY <2>3, <2>4
<1>2. CASE Restart
  BY <1>0, <1>2 DEF Tracked, Restart, panel, browser
<1>3. ASSUME NEW p \in People, NEW t \in tokens, NEW copy \in Copies, FollowToken(p, t, copy)
      PROVE  Tracked'
  BY <1>0, <1>3 DEF Tracked, FollowToken, panel, granted
<1>4. ASSUME NEW a \in asking, IssueToken(a) PROVE Tracked'
  BY <1>0, <1>4 DEF Tracked, IssueToken, browser, granted
<1>5. CASE UNCHANGED <<tokens, entering, spent, openings>>
  BY <1>0, <1>5 DEF Tracked
<1> QED
  BY <1>1, <1>2, <1>3, <1>4, <1>5
  DEF Next, vars, Decide, Forget, SubmitPassword, ShowLogin, AskPanel, DenyEntry, KeepSession, Ban,
      Demote, LeaveProject, Change, PasswordVerified, PasswordRefused, Tick, panel, browser, granted

\* States are signed for the browser that is to hold them, and an answer takes one
\* away from a browser, never gives it one.
LEMMA HeldStep == Inv /\ [Next]_vars => Held' /\ given \subseteq given'
<1> SUFFICES ASSUME Inv, [Next]_vars PROVE Held' /\ given \subseteq given'
  OBVIOUS
<1>0. /\ Held /\ None \notin StateIds
      /\ state \in [People -> [Hosts -> StateIds \cup {None}]]
      /\ entering \subseteq Entering /\ tokens \subseteq Token
  BY SiteAccessAssumption DEF Inv, TypeOK
<1>1. ASSUME NEW p \in People, NEW host \in Hosts, ShowLogin(p, host)
      PROVE  Held' /\ given \subseteq given'
  <2>1. PICK i \in StateIds : /\ given' = given \cup {[state |-> i, by |-> p, host |-> host]}
                             /\ state' = [state EXCEPT ![p][host] = i]
    BY <1>1 DEF ShowLogin, UnusedStates
  <2>2. entering' = entering
    BY <1>1 DEF ShowLogin
  <2>3. \A q \in People, h \in Hosts :
          state'[q][h] = IF q = p /\ h = host THEN i ELSE state[q][h]
    BY <1>0, <2>1
  <2> QED
    BY <1>0, <2>1, <2>2, <2>3 DEF Held
<1>2. ASSUME NEW p \in People, NEW t \in tokens, NEW copy \in Copies, FollowToken(p, t, copy)
      PROVE  Held' /\ given \subseteq given'
  <2>1. /\ entering' = entering \cup {[by |-> p, token |-> t, state |-> state[p][t.host], copy |-> copy]}
        /\ UNCHANGED <<state, given>> /\ t.host \in Hosts
    BY <1>0, <1>2 DEF FollowToken, Token
  <2> QED
    BY <1>0, <2>1 DEF Held
<1>3. ASSUME NEW e \in entering, Enter(e) PROVE Held' /\ given \subseteq given'
  <2>1. e.by \in People /\ e.token.host \in Hosts
    BY <1>0 DEF Entering, Token
  <2>2. entering' \subseteq entering /\ given' = given
    BY <1>3 DEF Enter
  <2>3. \A p \in People, h \in Hosts : state'[p][h] \in {state[p][h], None}
    BY <1>0, <1>3, <2>1 DEF Enter
  <2> QED
    BY <1>0, <2>2, <2>3 DEF Held
<1>4. CASE UNCHANGED <<entering, state, given>>
  BY <1>0, <1>4 DEF Held
<1> QED
  BY <1>1, <1>2, <1>3, <1>4
  DEF Next, vars, Decide, Forget, SubmitPassword, AskPanel, DenyEntry, IssueToken, KeepSession,
      Ban, Demote, LeaveProject, Change, PasswordVerified, PasswordRefused, Restart, Tick, browser

\* A token's number is new, so no session is taken for another token's, and the one it
\* opens is in the browser whose cookie is the state in it.
LEMMA RememberedStep == Inv /\ [Next]_vars => Remembered'
<1> SUFFICES ASSUME Inv, [Next]_vars PROVE Remembered'
  OBVIOUS
<1>0. /\ Remembered /\ Held /\ Tracked /\ None \notin TokenIds \cup StateIds
      /\ given \subseteq given'
      /\ logins \subseteq Login /\ asking \subseteq Asking /\ tokens \subseteq Token
      /\ entering \subseteq Entering /\ sessions \subseteq Session
  BY SiteAccessAssumption, HeldStep DEF Inv, TypeOK
<1>1. ASSUME NEW a \in asking, IssueToken(a) PROVE Remembered'
  <2>1. PICK t \in Token : tokens' = tokens \cup {t} /\ \A u \in tokens : u.id # t.id
    BY <1>1, TokenIssued
  <2>2. sessions' = sessions
    BY <1>1 DEF IssueToken, granted
  <2>3. \A s \in sessions : s.token # t.id
    BY <1>0, <2>1 DEF Remembered, Token
  <2> QED
    BY <1>0, <2>1, <2>2, <2>3 DEF Remembered, TokensStayInTheirBrowser
<1>2. ASSUME NEW l \in logins, PasswordVerified(l) PROVE Remembered'
  <2>1. PICK s \in Session : sessions' = sessions \cup {s} /\ s.token = None
    BY <1>0, <1>2, SessionStarts, Clock DEF PasswordVerified, Login
  <2>2. tokens' = tokens /\ \A t \in tokens : t.id # None
    BY <1>0, <1>2 DEF PasswordVerified, panel, Token
  <2> QED
    BY <1>0, <2>1, <2>2 DEF Remembered, TokensStayInTheirBrowser
<1>3. ASSUME NEW e \in entering, Enter(e) PROVE Remembered'
  <2>1. e.token \in tokens /\ tokens' = tokens
    BY <1>0, <1>3 DEF Tracked, Enter, panel
  <2>2. CASE Opens(e)
    <3>1. PICK s \in Session : /\ sessions' = sessions \cup {s}
                              /\ s.token = e.token.id /\ s.by = e.by /\ s.host = e.token.host
      BY <1>3, <2>2, Entered
    <3>2. e.state = e.token.state /\ e.state # None
      BY <1>0, <2>1, <2>2 DEF Opens, FromItsBrowser, Token
    <3>3. [state |-> e.token.state, by |-> s.by, host |-> s.host] \in given
      BY <1>0, <3>1, <3>2 DEF Held
    <3>4. \A t \in tokens : t.id = s.token => t = e.token
      BY <1>0, <2>1, <3>1 DEF Remembered
    <3> QED
      BY <1>0, <2>1, <3>1, <3>3, <3>4 DEF Remembered, TokensStayInTheirBrowser
  <2>3. CASE ~Opens(e)
    BY <1>0, <1>3, <2>1, <2>3, Entered DEF Remembered, TokensStayInTheirBrowser
  <2> QED
    BY <2>2, <2>3
<1>4. CASE UNCHANGED <<tokens, sessions>>
  BY <1>0, <1>4 DEF Remembered, TokensStayInTheirBrowser
<1> QED
  BY <1>1, <1>2, <1>3, <1>4
  DEF Next, vars, Decide, Forget, SubmitPassword, ShowLogin, AskPanel, DenyEntry, FollowToken,
      KeepSession, Ban, Demote, LeaveProject, Change, PasswordRefused, Restart, Tick, panel, granted

\* What is kept after a loss is a session that no longer vouches for the right; what was
\* kept before it ends within the grace it is given.
LEMMA LapsingStep == Inv /\ [Next]_vars => Lapsing'
<1> SUFFICES ASSUME Inv, [Next]_vars PROVE Lapsing'
  OBVIOUS
<1>0. /\ Lapsing /\ now \in Nat /\ account \in [People -> Account] /\ lost \subseteq Lost
      /\ cached \in [People -> [role : Roles, until : Nat]]
      /\ \A l \in lost : l.who \in People /\ l.at \in Nat /\ l.grace \in Nat
  BY Clock DEF Inv, TypeOK, Lost
<1>1. ASSUME NEW p \in People, KeepSession(p) PROVE Lapsing'
  <2>1. /\ cached' = [cached EXCEPT ![p] = [role |-> account[p].role, until |-> now + CacheSeconds]]
        /\ ~account[p].banned /\ UNCHANGED <<now, account, lost>>
    BY <1>1 DEF KeepSession
  <2>2. \A l \in lost : l.who = p => account[p].role # "all" /\ ~account[p].row
    BY <1>0, <2>1 DEF Lapsing, Sees
  <2>3. cached'[p].role = account[p].role /\ cached'[p].until = now + CacheSeconds
    BY <1>0, <2>1
  <2>4. \A q \in People : q # p => cached'[q] = cached[q]
    BY <1>0, <2>1
  <2> QED
    BY <1>0, <2>1, <2>2, <2>3, <2>4, Clock DEF Lapsing
<1>2. ASSUME NEW p \in People, Ban(p) \/ Demote(p) \/ LeaveProject(p) PROVE Lapsing'
  <2>1. PICK a \in Account, grace \in {0, CacheSeconds} :
          /\ Change(p, a, grace)
          /\ Sees(a) => Sees(account[p])
          /\ a.row => account[p].row
          /\ now < cached[p].until /\ (cached[p].role = "all" \/ a.row) => grace = CacheSeconds
    BY <1>2, RightsChange
  <2>2. /\ account' = [account EXCEPT ![p] = a] /\ UNCHANGED <<now, cached>>
        /\ lost' = IF Sees(account[p]) /\ ~Sees(a)
                   THEN lost \cup {[who |-> p, at |-> now, grace |-> grace]} ELSE lost
    BY <2>1 DEF Change
  <2>3. account'[p] = a /\ \A q \in People : q # p => account'[q] = account[q]
    BY <1>0, <2>2
  <2>4. ASSUME NEW l \in lost
        PROVE  /\ l.at <= now' /\ ~Sees(account'[l.who])
               /\ now' < cached'[l.who].until /\ (cached'[l.who].role = "all" \/ account'[l.who].row)
                    => cached'[l.who].until <= l.at + l.grace
    <3>1. CASE l.who = p
      BY <1>0, <2>1, <2>2, <2>3, <3>1 DEF Lapsing
    <3>2. CASE l.who # p
      BY <1>0, <2>2, <2>3, <3>2 DEF Lapsing
    <3> QED
      BY <3>1, <3>2
  <2>5. ASSUME NEW l, l = [who |-> p, at |-> now, grace |-> grace], ~Sees(a)
        PROVE  /\ l.at <= now' /\ ~Sees(account'[l.who])
               /\ now' < cached'[l.who].until /\ (cached'[l.who].role = "all" \/ account'[l.who].row)
                    => cached'[l.who].until <= l.at + l.grace
    <3>1. l.who = p /\ l.at = now /\ l.grace = grace
      BY <2>5
    <3>2. cached[p].until <= now + CacheSeconds
      BY <1>0 DEF Lapsing
    <3> QED
      BY <1>0, <2>1, <2>2, <2>3, <2>5, <3>1, <3>2
  <2> QED
    BY <1>0, <2>2, <2>4, <2>5 DEF Lapsing
<1>3. CASE Tick
  <2>1. now' = now + 1 /\ UNCHANGED <<account, cached, lost>>
    BY <1>3 DEF Tick, people
  <2> QED
    BY <1>0, <2>1, Clock DEF Lapsing
<1>4. CASE UNCHANGED <<now, account, cached, lost>>
  BY <1>0, <1>4 DEF Lapsing
<1> QED
  BY <1>1, <1>2, <1>3, <1>4
  DEF Next, vars, Decide, Forget, SubmitPassword, ShowLogin, AskPanel, DenyEntry, FollowToken,
      IssueToken, PasswordVerified, PasswordRefused, Enter, Restart, people

\* Whoever is allowed to enter has lost nothing, or lost it less than a grace ago.
LEMMA AllowedInTime ==
  ASSUME Inv, NEW p \in People, Allowed(p), NEW l \in lost, l.who = p
  PROVE  now <= l.at + l.grace
<1>1. /\ ~Sees(account[p]) /\ l.at \in Nat /\ l.grace \in Nat /\ now \in Nat
      /\ cached[p].until \in Nat
      /\ now < cached[p].until /\ (cached[p].role = "all" \/ account[p].row)
           => cached[p].until <= l.at + l.grace
  BY Clock DEF Inv, TypeOK, Lapsing, Lost
<1>2. CASE now < cached[p].until
  BY <1>1, <1>2 DEF Allowed, Vouched
<1>3. CASE ~(now < cached[p].until)
  BY <1>1, <1>3 DEF Allowed, Vouched, Sees
<1> QED
  BY <1>2, <1>3

\* A token lasts from a moment its person was still allowed in, since a question is
\* answered within the tick it is asked in; a session from before the token ends.
LEMMA BoundedStep == Inv /\ [Next]_vars => Bounded'
<1> SUFFICES ASSUME Inv, [Next]_vars PROVE Bounded'
  OBVIOUS
<1>0. /\ Bounded /\ Tracked /\ now \in Nat /\ lost \subseteq Lost
      /\ \A l \in lost : l.at \in Nat /\ l.grace \in Nat
      /\ logins \subseteq Login /\ asking \subseteq Asking /\ tokens \subseteq Token
      /\ entering \subseteq Entering /\ sessions \subseteq Session
  BY Clock DEF Inv, TypeOK, Lost
<1>1. ASSUME NEW p \in People, NEW host \in Hosts, NEW link, AskPanel(p, host, link) PROVE Bounded'
  <2>1. PICK r \in Protected(host) :
          asking' = asking \cup {[who |-> p, record |-> r, ground |-> Ground(r), state |-> link]}
    BY <1>1 DEF AskPanel
  <2>2. Allowed(p) /\ UNCHANGED <<now, tokens, sessions, lost>>
    BY <1>1 DEF AskPanel, people, granted
  <2>3. \A l \in lost : l.who = p => now <= l.at + l.grace
    BY <2>2, AllowedInTime
  <2> QED
    BY <1>0, <2>1, <2>2, <2>3 DEF Bounded
<1>2. ASSUME NEW a \in asking, IssueToken(a) PROVE Bounded'
  <2>1. UNCHANGED <<now, sessions, lost>>
    BY <1>2 DEF IssueToken, people, granted
  <2>2. PICK t \in Token : /\ tokens' = tokens \cup {t} /\ asking' = asking \ {a}
                           /\ t.who = a.who /\ t.expiresAt = now + TokenSeconds
    BY <1>2, TokenIssued
  <2>3. \A l \in lost : l.who = t.who => t.expiresAt <= l.at + l.grace + TokenSeconds
    BY <1>0, <2>2, Clock DEF Bounded
  <2> QED
    BY <1>0, <2>1, <2>2, <2>3, Clock DEF Bounded
<1>3. ASSUME NEW p \in People, Ban(p) \/ Demote(p) \/ LeaveProject(p) PROVE Bounded'
  <2>1. PICK a \in Account, grace \in {0, CacheSeconds} : Change(p, a, grace)
    BY <1>3, RightsChange
  <2>2. UNCHANGED <<now, asking, tokens, sessions>> /\ grace \in Nat
    BY <2>1, Clock DEF Change, panel, granted
  <2>3. \A l \in lost' \ lost : l.at = now /\ l.grace \in Nat
    BY <2>1, <2>2 DEF Change
  <2>4. \A t \in tokens : t.expiresAt \in Nat /\ t.expiresAt <= now + TokenSeconds
    BY <1>0 DEF Bounded, Token
  <2>5. \A s \in sessions : s.token # None => s.expiresAt \in Nat /\ s.expiresAt <= now + PanelSeconds
    BY <1>0 DEF Bounded, Session
  <2>6. ASSUME NEW l \in lost' \ lost
        PROVE  /\ now <= l.at + l.grace
               /\ \A t \in tokens : t.expiresAt <= l.at + l.grace + TokenSeconds
               /\ \A s \in sessions : s.token # None =>
                    s.expiresAt < l.at + l.grace + TokenSeconds + PanelSeconds
    BY <1>0, <2>3, <2>4, <2>5, <2>6, Clock
  <2> QED
    BY <1>0, <2>2, <2>6 DEF Bounded
<1>4. ASSUME NEW l \in logins, PasswordVerified(l) PROVE Bounded'
  <2>1. \E s \in Session : sessions' = sessions \cup {s} /\ s.token = None
    BY <1>0, <1>4, SessionStarts, Clock DEF PasswordVerified, Login
  <2> QED
    BY <1>0, <1>4, <2>1 DEF Bounded, PasswordVerified, panel, people
<1>5. ASSUME NEW e \in entering, Enter(e) PROVE Bounded'
  <2>1. UNCHANGED <<now, asking, tokens, lost>>
    BY <1>5 DEF Enter, panel, people
  <2>2. e.token \in tokens /\ e.token \in Token
    BY <1>0 DEF Tracked
  <2>3. \A s \in sessions' \ sessions :
          /\ Opens(e) /\ s \in Session /\ s.who = e.token.who /\ s.expiresAt <= now + PanelSeconds
    BY <1>5, Entered
  <2>4. Opens(e) => e.token.expiresAt > now
    BY DEF Opens, Alive
  <2>5. ASSUME NEW s \in sessions' \ sessions, NEW l \in lost, l.who = s.who
        PROVE  s.expiresAt < l.at + l.grace + TokenSeconds + PanelSeconds
    <3>1. e.token.expiresAt <= l.at + l.grace + TokenSeconds
      BY <1>0, <2>2, <2>3, <2>5 DEF Bounded
    <3>2. l.at \in Nat /\ l.grace \in Nat /\ s.expiresAt \in Nat /\ e.token.expiresAt \in Nat
      BY <1>0, <2>2, <2>3 DEF Token, Session
    <3> QED
      BY <1>0, <2>3, <2>4, <3>1, <3>2, Clock
  <2> QED
    BY <1>0, <2>1, <2>3, <2>5 DEF Bounded
<1>6. CASE Tick
  <2>1. now' = now + 1 /\ asking' = {} /\ UNCHANGED <<tokens, sessions, lost>>
    BY <1>6 DEF Tick, panel, people, granted
  <2>2. \A t \in tokens \cup sessions : t.expiresAt \in Nat
    BY <1>0 DEF Token, Session
  <2> QED
    BY <1>0, <2>1, <2>2, Clock DEF Bounded
<1>7. CASE asking' \subseteq asking /\ UNCHANGED <<now, tokens, sessions, lost>>
  BY <1>0, <1>7 DEF Bounded
<1> QED
  BY <1>1, <1>2, <1>3, <1>4, <1>5, <1>6, <1>7
  DEF Next, vars, Decide, Forget, SubmitPassword, ShowLogin, FollowToken, DenyEntry, KeepSession,
      PasswordRefused, Restart, panel, people, granted

LEMMA Invariance == Spec => []Inv
<1>1. Inv /\ [Next]_vars => Inv'
  BY TypeStep, FiledStep, EpochsTellStep, TrackedStep, HeldStep, RememberedStep, LapsingStep,
     BoundedStep DEF Inv
<1> QED
  BY <1>1, Initially, PTL DEF Spec

-----------------------------------------------------------------------------
\* Cookies, tokens, requests and records hold what their types say: no question
\* is asked without a state the login service signed (api/routes/site-entry.ts).
THEOREM Types == Spec => []TypeOK
BY Invariance, PTL DEF Inv

\* Whoever decides about a hostname meanwhile, and whatever a restart of the
\* login service forgets, the credential a session was granted on is the one in
\* force as long as its scope stays in the registry (/verify, apps/auth/src/app.ts).
THEOREM SessionsEnd == Spec => []SessionsEndWithTheirCredential
<1>1. Inv => SessionsEndWithTheirCredential
  <2> SUFFICES ASSUME Inv, NEW s \in sessions, NEW r \in store, Admits(r, s),
                      s.ground.removals = removals[r.scope]
               PROVE  s.ground.hash = r.hash
    BY DEF SessionsEndWithTheirCredential
  <2>1. s.scope = r.scope /\ s.epoch = r.epoch /\ r.epoch \in Nat
    BY DEF Admits, Inv, TypeOK, Record
  <2>2. PICK q \in store : /\ q.scope = r.scope
                           /\ s.epoch < q.epoch \/ (s.epoch = q.epoch /\ q.hash = s.ground.hash)
    BY <2>1 DEF Inv, EpochsTell, Grounded
  <2>3. q = r
    BY <2>2 DEF Inv, Filed, Parses, NoDuplicates
  <2> QED
    BY <2>1, <2>2, <2>3
<1> QED
  BY <1>1, Invariance, PTL

\* An entry token opens one session in the life of a process, however often its
\* address is followed (spentEntries, apps/auth/src/app.ts).
THEOREM TokensOpenASession == Spec => []TokensOpenOnce
<1>1. Inv => TokensOpenOnce
  BY DEF Inv, Tracked, TokensOpenOnce
<1> QED
  BY <1>1, Invariance, PTL

\* And it opens it in the browser, and on the host, that the state in it was made for,
\* whichever browser's panel session the panel answered when it was sent the address of
\* the question, and whoever was sent the address of the answer (the state cookie).
THEOREM TokensStay == Spec => []TokensStayInTheirBrowser
<1>1. Inv => TokensStayInTheirBrowser
  BY DEF Inv, Remembered
<1> QED
  BY <1>1, Invariance, PTL

\* A right that was taken away on the panel is gone from the site within the life of a
\* token and of a panel session (PANEL_SESSION_SECONDS, core/site-entry.ts), and within
\* that of a cached session besides (cookieCache, auth.ts) if a role or a ban took it.
THEOREM RightsEnd == Spec => []LostRightEnds
<1>1. Inv => LostRightEnds
  <2> SUFFICES ASSUME Inv, NEW s \in sessions, NEW r \in store, NEW l \in lost,
                      s.token # None, s.who = l.who, Admits(r, s)
               PROVE  now < l.at + l.grace + TokenSeconds + PanelSeconds
    BY DEF LostRightEnds
  <2>1. s.expiresAt < l.at + l.grace + TokenSeconds + PanelSeconds /\ s.expiresAt > now
    BY DEF Inv, Bounded, Admits
  <2>2. s \in Session /\ l.at \in Nat /\ l.grace \in Nat /\ now \in Nat
    BY Clock DEF Inv, TypeOK, Lost
  <2> QED
    BY <2>1, <2>2, Clock DEF Session
<1> QED
  BY <1>1, Invariance, PTL

\* What the login service reads is a registry as Registry promises it: Exposure is
\* shown to write no other (PanelImplementsRegistry).
THEOREM WritersAreRegistry == Spec => Registered!Spec
<1>1. Init => Registered!Init
  BY DEF Init, Registered!Init
<1>2. Inv /\ [Next]_vars => [Registered!Next]_store
  <2> SUFFICES ASSUME Inv, [Next]_vars, store' # store PROVE Registered!Set \/ Registered!Remove
    BY DEF Registered!Next
  <2>1. ASSUME NEW host \in Hosts, Forget(host) PROVE Registered!Remove
    BY <2>1, SameOperators DEF Forget, Registered!Remove, Scopes
  <2> QED
    BY <2>1, Decided, OnlyWritersWrite DEF Writing
<1> QED
  BY <1>1, <1>2, Invariance, PTL DEF Spec, Registered!Spec
=============================================================================
