------------------------------- MODULE Exposure -------------------------------
(***************************************************************************)
(* The panel as the writer of who may open a hostname: the service         *)
(* decisions (services/exposure.ts), the temporary shares                  *)
(* (services/shares.ts) and the hostname aliases (routes/overrides.ts,     *)
(* core/aliases.ts), over the four files they keep.                        *)
(*                                                                         *)
(* The panel is one Node process.  A request runs until it awaits (a       *)
(* password being hashed, the database), and other requests run then; a    *)
(* stretch of code without an await is a SECTION no other request enters.  *)
(* A section writes several files one after the other, each by an atomic   *)
(* rename, so the login service and Traefik see every state in between,    *)
(* and a crash or a failed write leaves one of them behind.                *)
(***************************************************************************)
EXTENDS Protections, FiniteSets

CONSTANTS Containers,    \* what a snapshot may hold: records [name, project, service, host]
          AliasHosts,    \* hostnames somebody may ask for as an alias
          ShareHost,     \* shareHost: the hostname each share id gets
          RemotePublic,  \* profile = remote-public: every route is gated
          Requests,      \* slots for requests in flight
          Kinds,         \* the requests this instance exercises
          Callers,       \* who asks: TRUE for someone no project confines
          Faults,        \* whether this instance crashes and fails writes
          Ttls,          \* the lifetimes a share is asked for with
          MaxEpoch,      \* bound: no record is rewritten past this epoch
          MaxNow         \* bound on the clock

ASSUME ContainersAssumption ==
  /\ None \notin Containers
  /\ \A c \in Containers : c.project \in Projects /\ c.service \in Names /\ c.host \in Hosts
ASSUME ShareHostAssumption ==
  /\ ShareHost \in [ShareIds -> Hosts]
  /\ \A i, j \in ShareIds : ShareHost[i] = ShareHost[j] => i = j
ASSUME ExposureAssumption ==
  /\ AliasHosts \subseteq Hosts /\ RemotePublic \in BOOLEAN /\ Faults \in BOOLEAN
  /\ Callers \subseteq BOOLEAN /\ Ttls \subseteq Nat /\ MaxEpoch \in Nat /\ MaxNow \in Nat

VARIABLES store,      \* state/auth/protections.json
          loginHosts, \* portta-auth.yaml: the hosts with a login router
          shares,     \* portta-shares.yaml: state line and routers at once
          aliases,    \* portta-aliases.yaml: the aliases stored ...
          routed,     \* ... and those of them that have a router
          aliasRows,  \* service_settings 'alias' in SQLite
          section,    \* the section the panel is in, between two file writes
          requests,   \* what each slot remembers across its await
          minted,     \* credentials generated so far
          now         \* seconds

files == <<store, loginHosts, shares, aliases, routed>>
vars == <<store, loginHosts, shares, aliases, routed, aliasRows, section, requests, minted, now>>

KeyOf(c) == <<c.project, c.service>>
Keys == {KeyOf(c) : c \in Containers}
Alias == [key : Keys, host : Hosts]
Share == [id : ShareIds, of : Containers, mode : Modes, expiresAt : Nat]

Nothing == [kind |-> "none"]
ProtectRequest == [kind : {"protect"}, of : Containers, unscoped : BOOLEAN, hash : Hashes]
CreateRequest == [kind : {"create"}, share : Share, at : Nat, hash : Hashes]
RegenerateRequest == [kind : {"regenerate"}, share : Share, hash : Hashes]
AliasRequest == [kind : {"alias-row", "alias-file"}, key : Keys, host : Hosts \cup {None},
                 was : SUBSET Alias, previous : Hosts \cup {None}]
UndoRequest == [kind : {"alias-undo"}, key : Keys, previous : Hosts \cup {None}]
Request == {Nothing} \cup ProtectRequest \cup CreateRequest \cup RegenerateRequest
             \cup AliasRequest \cup UndoRequest

\* The section saveProtectionState runs: the next write, the store it will
\* write, the aliases it read at the start, the shares written after it, and
\* whether the change was allowed to whom (by, for the properties alone).
Steps == {"idle", "shares-first", "aliases", "store", "login", "aliases-again", "shares-last"}
Section == [step : Steps, target : SUBSET Record, read : SUBSET Alias, before : SUBSET Record,
            shares : SUBSET Share, scope : Scopes \cup {None}, by : Containers \cup {None},
            unscoped : BOOLEAN]
Idle == [step |-> "idle", target |-> {}, read |-> {}, before |-> {}, shares |-> {},
         scope |-> None, by |-> None, unscoped |-> FALSE]
-----------------------------------------------------------------------------
\* renderAliasesForStore: an alias whose hostname carries a decision made for
\* another service keeps its stored line and loses its router.
Conflicts(alias, stores) ==
  \E s \in stores : \E r \in ForHost(s, alias.host) : <<r.project, r.service>> # alias.key

RoutedFor(stored, stores) ==
  IF RemotePublic THEN {a \in stored : ~Conflicts(a, stores)} ELSE stored

\* renderAuthDynamic: a login router for every protected host.
LoginHosts(s) == {r.host : r \in {q \in s : q.mode = "protected"}}

\* guard: only the service a record belongs to may replace it, and one that
\* names no Project is for whoever sees everything.
MayReplace(r, c, unscoped) ==
  /\ r.project # None \/ unscoped
  /\ ~IsShare(r.scope)
  /\ r.service = None \/ c.service = None \/ r.service = c.service
  /\ r.project = None \/ c.project = None \/ r.project = c.project

Allowed(s, c, unscoped) == \A r \in ForHost(s, c.host) : MayReplace(r, c, unscoped)

\* hostOf over the containers of one snapshot: a hostname two services claim is refused.
SoleClaimant(c, snapshot) ==
  \A other \in snapshot : other.host = c.host => KeyOf(other) = KeyOf(c)

Decision(c, s, mode, hash) ==
  [scope |-> ScopeOf(s, c.host, HostScope(c.host)), host |-> c.host, mode |-> mode,
   hash |-> hash, project |-> c.project, service |-> c.service]

ShareCredential(share, hash) ==
  [scope |-> ShareScope(share.id), host |-> ShareHost[share.id], mode |-> "protected",
   hash |-> hash, project |-> share.of.project, service |-> share.of.service]

Settable(s, input) == /\ ~Collides(s, input.host, input.scope)
                      /\ NextEpoch(s, input.scope) <= MaxEpoch

Live(file, at) == {s \in file : s.expiresAt > at}
SharedBy(file, c) == {s \in file : s.of.name = c.name}

Fresh == {h \in Hashes : h \notin minted}
NewHash == CHOOSE h \in Fresh : TRUE

Running(kind) == kind \in Kinds /\ section.step = "idle"
Take(q, request) == requests[q] = Nothing /\ requests' = [requests EXCEPT ![q] = request]
Drop(q) == requests' = [requests EXCEPT ![q] = Nothing]

\* saveProtectionState: aliases for the old and the new store, the store, the
\* login routers, the aliases for the new store alone.
Save(target, by, unscoped) ==
  [Idle EXCEPT !.step = "aliases", !.target = target, !.read = aliases, !.before = store,
               !.by = by, !.unscoped = unscoped]
-----------------------------------------------------------------------------
Init ==
  /\ store = {} /\ loginHosts = {} /\ shares = {} /\ aliases = {} /\ routed = {}
  /\ aliasRows = [k \in Keys |-> None]
  /\ section = Idle
  /\ requests = [q \in Requests |-> Nothing]
  /\ minted = {}
  /\ now = 0

\* PUT /services/:id/exposure up to its await: refused early when the record is
\* somebody else's, and a password made and given to the thread pool to hash.
ReceiveProtect(q, c, snapshot, unscoped) ==
  /\ Running("protect")
  /\ c \in snapshot /\ SoleClaimant(c, snapshot)
  /\ Allowed(store, c, unscoped)
  /\ Fresh # {}
  /\ Take(q, [kind |-> "protect", of |-> c, unscoped |-> unscoped, hash |-> NewHash])
  /\ minted' = minted \cup {NewHash}
  /\ UNCHANGED <<files, aliasRows, section, now>>

\* Mutant of FinishProtect: no second guard.
FinishProtectUnguarded(q) ==
  LET r == requests[q] input == Decision(r.of, store, "protected", r.hash) IN
  /\ section.step = "idle" /\ r.kind = "protect"
  /\ IF Settable(store, input)
     THEN section' = Save(SetProtection(store, input), r.of, r.unscoped)
     ELSE UNCHANGED section
  /\ Drop(q)
  /\ UNCHANGED <<files, aliasRows, minted, now>>

\* The hash is there: mutateStore reads and guards again, then sets or refuses.
FinishProtect(q) ==
  LET r == requests[q] input == Decision(r.of, store, "protected", r.hash) IN
  /\ section.step = "idle" /\ r.kind = "protect"
  /\ IF Allowed(store, r.of, r.unscoped) /\ Settable(store, input)
     THEN section' = Save(SetProtection(store, input), r.of, r.unscoped)
     ELSE UNCHANGED section
  /\ Drop(q)
  /\ UNCHANGED <<files, aliasRows, minted, now>>

\* POST /services/:id/exposure/open, without an await from read to write.
OpenService(c, snapshot, unscoped) ==
  LET input == Decision(c, store, "public", None) IN
  /\ Running("open")
  /\ c \in snapshot /\ SoleClaimant(c, snapshot)
  /\ Allowed(store, c, unscoped) /\ Settable(store, input)
  /\ section' = Save(SetProtection(store, input), c, unscoped)
  /\ UNCHANGED <<files, aliasRows, requests, minted, now>>

\* DELETE /services/:id/exposure: a second claimant of the hostname is no reason
\* to refuse a removal.
CloseService(c, unscoped) ==
  /\ Running("close")
  /\ ForHost(store, c.host) # {}
  /\ Allowed(store, c, unscoped)
  /\ section' = Save(RemoveProtection(store, ScopeOf(store, c.host, None)), c, unscoped)
  /\ UNCHANGED <<files, aliasRows, requests, minted, now>>

\* What createShare keeps of the file: the shares alive when the request began.
Sharable(c, at) == SharedBy(Live(shares, at), c) = {}

\* The two random bytes of an id are taken not to repeat one in use.
FreeIds == {i \in ShareIds : /\ \A s \in shares : s.id # i
                            /\ InScope(store, ShareScope(i)) = {}
                            /\ \A q \in Requests :
                                 requests[q].kind = "create" => requests[q].share.id # i}

\* POST /services/:id/share with a password, up to its await.
ReceiveCreate(q, c, i, ttl) ==
  /\ Running("create")
  /\ i \in FreeIds /\ Sharable(c, now)
  /\ Fresh # {}
  /\ Take(q, [kind |-> "create", at |-> now, hash |-> NewHash,
               share |-> [id |-> i, of |-> c, mode |-> "protected", expiresAt |-> now + ttl]])
  /\ minted' = minted \cup {NewHash}
  /\ UNCHANGED <<files, aliasRows, section, now>>

\* Mutant of FinishCreate: the shares are not read again.
FinishCreateUnchecked(q) ==
  LET r == requests[q] input == ShareCredential(r.share, r.hash) IN
  /\ section.step = "idle" /\ r.kind = "create"
  /\ IF Settable(store, input)
     THEN section' = [Save(SetProtection(store, input), None, TRUE) EXCEPT
                        !.shares = Live(shares, r.at) \cup {r.share},
                        !.scope = ShareScope(r.share.id)]
     ELSE UNCHANGED section
  /\ Drop(q)
  /\ UNCHANGED <<files, aliasRows, minted, now>>

\* Hashed: the shares are read again, then credential first and router second.
FinishCreate(q) ==
  LET r == requests[q] input == ShareCredential(r.share, r.hash) IN
  /\ section.step = "idle" /\ r.kind = "create"
  /\ IF Sharable(r.share.of, r.at) /\ Settable(store, input)
     THEN section' = [Save(SetProtection(store, input), None, TRUE) EXCEPT
                        !.shares = Live(shares, r.at) \cup {r.share},
                        !.scope = ShareScope(r.share.id)]
     ELSE UNCHANGED section
  /\ Drop(q)
  /\ UNCHANGED <<files, aliasRows, minted, now>>

\* A public share has no password to hash, and so no await: one file is written.
CreatePublicShare(c, i, ttl) ==
  /\ Running("create-public")
  /\ i \in FreeIds /\ Sharable(c, now)
  /\ shares' = Live(shares, now)
                 \cup {[id |-> i, of |-> c, mode |-> "public", expiresAt |-> now + ttl]}
  /\ UNCHANGED <<store, loginHosts, aliases, routed, aliasRows, section, requests, minted, now>>

\* POST /shares/:id/regenerate up to its await; an expired share still in the
\* file is not refused.
ReceiveRegenerate(q, share) ==
  /\ Running("regenerate")
  /\ share \in shares /\ share.mode = "protected"
  /\ Fresh # {}
  /\ Take(q, [kind |-> "regenerate", share |-> share, hash |-> NewHash])
  /\ minted' = minted \cup {NewHash}
  /\ UNCHANGED <<files, aliasRows, section, now>>

\* current: the share the id names now, if it is still that share.
StillShared(share) ==
  \E s \in shares : /\ s.id = share.id /\ s.of.name = share.of.name
                    /\ s.mode = "protected"

\* Mutant of FinishRegenerate: whether the share still stands is not asked.
FinishRegenerateUnchecked(q) ==
  LET r == requests[q] input == ShareCredential(r.share, r.hash) IN
  /\ section.step = "idle" /\ r.kind = "regenerate"
  /\ IF Settable(store, input)
     THEN section' = [Save(SetProtection(store, input), None, TRUE) EXCEPT
                        !.scope = ShareScope(r.share.id)]
     ELSE UNCHANGED section
  /\ Drop(q)
  /\ UNCHANGED <<files, aliasRows, minted, now>>

FinishRegenerate(q) ==
  LET r == requests[q] input == ShareCredential(r.share, r.hash) IN
  /\ section.step = "idle" /\ r.kind = "regenerate"
  /\ IF StillShared(r.share) /\ Settable(store, input)
     THEN section' = [Save(SetProtection(store, input), None, TRUE) EXCEPT
                        !.scope = ShareScope(r.share.id)]
     ELSE UNCHANGED section
  /\ Drop(q)
  /\ UNCHANGED <<files, aliasRows, minted, now>>

\* Mutant of RevokeShare: the credential first, the router second.
RevokeShareCredentialFirst(share) ==
  /\ Running("revoke")
  /\ share \in shares
  /\ section' = [Save(RemoveProtection(store, ShareScope(share.id)), None, TRUE) EXCEPT
                   !.shares = {s \in shares : s.id # share.id}, !.scope = ShareScope(share.id)]
  /\ UNCHANGED <<files, aliasRows, requests, minted, now>>

\* DELETE /shares/:id: router first, credential second.
RevokeShare(share) ==
  /\ Running("revoke")
  /\ share \in shares
  /\ section' = [Idle EXCEPT !.step = "shares-first", !.shares = {s \in shares : s.id # share.id},
                             !.scope = ShareScope(share.id), !.unscoped = TRUE]
  /\ UNCHANGED <<files, aliasRows, requests, minted, now>>

-----------------------------------------------------------------------------
\* PUT and DELETE /environments/:project/services/:service/alias.  The file is
\* read and the request judged before the two database calls; None is no host.
Planned(key, host) == IF host = None THEN {} ELSE {[key |-> key, host |-> host]}

\* planAlias: no running container derives the hostname, no other service has
\* its decision and no other service has it as an alias.
Grantable(key, host, snapshot) ==
  /\ \A c \in snapshot : c.host # host
  /\ \A r \in ForHost(store, host) : <<r.project, r.service>> = key
  /\ \A a \in aliases : a.host = host => a.key = key

ReceiveAlias(q, c, host, snapshot) ==
  /\ Running("alias")
  /\ c \in snapshot /\ Grantable(KeyOf(c), host, snapshot)
  /\ Take(q, [kind |-> "alias-row", key |-> KeyOf(c), host |-> host, was |-> aliases,
               previous |-> aliasRows[KeyOf(c)]])
  /\ UNCHANGED <<files, aliasRows, section, minted, now>>

ReceiveAliasRemoval(q, key) ==
  /\ Running("unalias")
  /\ Take(q, [kind |-> "alias-row", key |-> key, host |-> None, was |-> aliases, previous |-> None])
  /\ UNCHANGED <<files, aliasRows, section, minted, now>>

\* The first await: db.settings.setService or clearService.
WriteAliasRow(q) ==
  LET r == requests[q] IN
  /\ section.step = "idle" /\ r.kind = "alias-row"
  /\ aliasRows' = [aliasRows EXCEPT ![r.key] = r.host]
  /\ requests' = [requests EXCEPT ![q].kind = "alias-file"]
  /\ UNCHANGED <<files, section, minted, now>>

\* The file is rendered from what was read before the await.
AliasFile(r) == {a \in r.was : a.key # r.key} \cup Planned(r.key, r.host)

\* Mutant of SaveAliases: the routers of the file before this one.
SaveAliasesOfNow(q) ==
  LET r == requests[q] IN
  /\ section.step = "idle" /\ r.kind = "alias-file"
  /\ aliases' = AliasFile(r)
  /\ routed' = RoutedFor(aliases, {store})
  /\ Drop(q)
  /\ UNCHANGED <<store, loginHosts, shares, aliasRows, section, minted, now>>

SaveAliases(q) ==
  LET r == requests[q] IN
  /\ section.step = "idle" /\ r.kind = "alias-file"
  /\ aliases' = AliasFile(r)
  /\ routed' = RoutedFor(AliasFile(r), {store})
  /\ Drop(q)
  /\ UNCHANGED <<store, loginHosts, shares, aliasRows, section, minted, now>>

\* The file could not be written: a PUT goes on to put the row back.
SaveAliasesFails(q) ==
  LET r == requests[q] IN
  /\ section.step = "idle" /\ r.kind = "alias-file"
  /\ requests' = [requests EXCEPT ![q] =
       IF r.host = None THEN Nothing
       ELSE [kind |-> "alias-undo", key |-> r.key, previous |-> r.previous]]
  /\ UNCHANGED <<files, aliasRows, section, minted, now>>

UndoAliasRow(q) ==
  LET r == requests[q] IN
  /\ section.step = "idle" /\ r.kind = "alias-undo"
  /\ aliasRows' = [aliasRows EXCEPT ![r.key] = r.previous]
  /\ Drop(q)
  /\ UNCHANGED <<files, section, minted, now>>
-----------------------------------------------------------------------------
\* The writes of a section, in the order the code makes them.
Goto(step) == section' = [section EXCEPT !.step = step]

\* revokeShare: the routers are written, the registry read after them.
WriteSharesFirst ==
  /\ section.step = "shares-first"
  /\ shares' = section.shares
  /\ section' = [Save(RemoveProtection(store, section.scope), None, TRUE) EXCEPT
                   !.scope = section.scope]
  /\ UNCHANGED <<store, loginHosts, aliases, routed, aliasRows, requests, minted, now>>

\* Mutant of SuspendAliases: the decision in force is forgotten.
SuspendForTheNew ==
  /\ section.step = "aliases"
  /\ aliases' = section.read
  /\ routed' = RoutedFor(section.read, {section.target})
  /\ Goto("store")
  /\ UNCHANGED <<store, loginHosts, shares, aliasRows, requests, minted, now>>

\* An alias that conflicts with the decision to come, or with the one in force,
\* has no router from here on.
SuspendAliases ==
  /\ section.step = "aliases"
  /\ aliases' = section.read
  /\ routed' = RoutedFor(section.read, {section.target, section.before})
  /\ Goto("store")
  /\ UNCHANGED <<store, loginHosts, shares, aliasRows, requests, minted, now>>

\* Mutant of WriteStore: what was removed stays.
WriteStoreMerged ==
  /\ section.step = "store"
  /\ store' = store \cup section.target
  /\ Goto("login")
  /\ UNCHANGED <<loginHosts, shares, aliases, routed, aliasRows, requests, minted, now>>

WriteStore ==
  /\ section.step = "store"
  /\ store' = section.target
  /\ Goto("login")
  /\ UNCHANGED <<loginHosts, shares, aliases, routed, aliasRows, requests, minted, now>>

WriteLogin ==
  /\ section.step = "login"
  /\ loginHosts' = LoginHosts(section.target)
  /\ Goto("aliases-again")
  /\ UNCHANGED <<store, shares, aliases, routed, aliasRows, requests, minted, now>>

\* Only once the conflicting decision has gone may an alias come back.
RestoreAliases ==
  /\ section.step = "aliases-again"
  /\ aliases' = section.read
  /\ routed' = RoutedFor(section.read, {section.target})
  /\ section' = IF section.shares = {} THEN Idle ELSE [section EXCEPT !.step = "shares-last"]
  /\ UNCHANGED <<store, loginHosts, shares, aliasRows, requests, minted, now>>

\* createShare: the router, when its credential is in force.
WriteSharesLast ==
  /\ section.step = "shares-last"
  /\ shares' = section.shares
  /\ section' = Idle
  /\ UNCHANGED <<store, loginHosts, aliases, routed, aliasRows, requests, minted, now>>

\* A write throws: the request is answered with an error and the rest skipped.
WriteFails ==
  /\ section.step # "idle"
  /\ section' = Idle
  /\ UNCHANGED <<files, aliasRows, requests, minted, now>>

\* The container is recreated (an upgrade, an apply, an OOM kill): only files and rows stay.
Crash ==
  /\ section.step # "idle" \/ \E q \in Requests : requests[q] # Nothing
  /\ section' = Idle
  /\ requests' = [q \in Requests |-> Nothing]
  /\ UNCHANGED <<files, aliasRows, minted, now>>

Tick ==
  /\ now < MaxNow
  /\ now' = now + 1
  /\ UNCHANGED <<files, aliasRows, section, requests, minted>>
-----------------------------------------------------------------------------
Receive ==
  \E q \in Requests :
    \/ \E snapshot \in SUBSET Containers, c \in Containers, unscoped \in Callers :
         ReceiveProtect(q, c, snapshot, unscoped)
    \/ \E c \in Containers, i \in ShareIds, ttl \in Ttls : ReceiveCreate(q, c, i, ttl)
    \/ \E share \in shares : ReceiveRegenerate(q, share)
    \/ \E snapshot \in SUBSET Containers, c \in Containers, host \in AliasHosts :
         ReceiveAlias(q, c, host, snapshot)
    \/ \E key \in Keys : ReceiveAliasRemoval(q, key)

AtOnce ==
  \/ \E snapshot \in SUBSET Containers, c \in Containers, unscoped \in Callers :
       OpenService(c, snapshot, unscoped)
  \/ \E c \in Containers, unscoped \in Callers : CloseService(c, unscoped)
  \/ \E c \in Containers, i \in ShareIds, ttl \in Ttls : CreatePublicShare(c, i, ttl)
  \/ \E share \in shares : RevokeShare(share)

Resume ==
  \E q \in Requests :
    \/ FinishProtect(q) \/ FinishCreate(q) \/ FinishRegenerate(q)
    \/ WriteAliasRow(q) \/ SaveAliases(q) \/ UndoAliasRow(q)

WriteNext == \/ WriteSharesFirst \/ SuspendAliases \/ WriteStore
             \/ WriteLogin \/ RestoreAliases \/ WriteSharesLast

Failure == Faults /\ (Crash \/ WriteFails \/ \E q \in Requests : SaveAliasesFails(q))

Next == Receive \/ AtOnce \/ Resume \/ WriteNext \/ Failure \/ Tick

Spec == Init /\ [][Next]_vars
-----------------------------------------------------------------------------
TypeOK ==
  /\ store \subseteq Record
  /\ loginHosts \subseteq Hosts
  /\ shares \subseteq Share
  /\ aliases \subseteq Alias /\ routed \subseteq aliases
  /\ aliasRows \in [Keys -> Hosts \cup {None}]
  /\ section \in Section
  /\ requests \in [Requests -> Request]
  /\ minted \subseteq Hashes
  /\ now \in Nat

\* Every write of the registry is one operation on what it holds at that
\* moment: nothing a request remembered across its await is ever put back over a
\* close, a revoke or another decision made meanwhile (mutateStore, createShare
\* and regenerateShare read again after hashing).
Registered == INSTANCE Registry WITH store <- store
ImplementsRegistry == Registered!Spec

\* A service request replaces or removes only the record of its own hostname,
\* and only one guard allows at the moment of the write; a share request only
\* its own credential.
OnlyOwnRecords ==
  [][\A r \in store \ store' :
       IF section.by # None
       THEN r.host = section.by.host /\ MayReplace(r, section.by, section.unscoped)
       ELSE r.scope = section.scope]_vars

\* On a public host no router carries an alias whose hostname is decided for
\* another service, in any state a section, a failed write or a crash leaves
\* behind (saveProtectionState suspends before the store and restores after it).
NoAliasInheritsADecision ==
  RemotePublic => \A a \in routed : ~Conflicts(a, {store})

\* A protected share that has a router has its credential in force: an
\* interrupted create or revoke never leaves the one without the other.
RoutedSharesAskForACredential ==
  \A s \in shares : s.mode = "protected" =>
    \E r \in store : /\ r.scope = ShareScope(s.id) /\ r.host = ShareHost[s.id]
                     /\ r.mode = "protected"

\* A container has one share at most, whatever was created while a password hashed.
OneSharePerContainer ==
  \A s, t \in shares : s.of.name = t.of.name => s = t

\* A share's credential is only written while its router stands or is about to:
\* regenerating never brings back the credential of a share revoked meanwhile.
NoCredentialForARevokedShare ==
  [][\A r \in store' \ store : IsShare(r.scope) =>
       \E s \in shares \cup section.shares : ShareScope(s.id) = r.scope]_vars

\* What routes/overrides.ts says of an alias: with no request in flight and no
\* crash, the row and the file name the same hostname.
Quiet == section.step = "idle" /\ \A q \in Requests : requests[q] = Nothing
RowsAndFileAgree ==
  Quiet => \A key \in Keys : Planned(key, aliasRows[key]) = {a \in aliases : a.key = key}
=============================================================================
