---------------------------- MODULE ExposureProofs ----------------------------
(***************************************************************************)
(* The panel's writers, proved for every set of services, hostnames,       *)
(* requests and credentials.  First the types, then one inductive          *)
(* invariant about the section in progress, from which the safety          *)
(* properties follow.                                                      *)
(***************************************************************************)
EXTENDS Exposure, ProtectionsProofs
-----------------------------------------------------------------------------
\* What a request is, from its kind.
LEMMA RequestKinds ==
  ASSUME NEW r \in Request
  PROVE  /\ r.kind = "protect" => r \in ProtectRequest
         /\ r.kind = "create" => r \in CreateRequest
         /\ r.kind = "regenerate" => r \in RegenerateRequest
         /\ r.kind \in {"alias-row", "alias-file"} => r \in AliasRequest
         /\ r.kind = "alias-undo" => r \in UndoRequest
BY DEF Request, Nothing, ProtectRequest, CreateRequest, RegenerateRequest, AliasRequest, UndoRequest

\* A fresh credential exists when one is asked for.
LEMMA NewHashTyped == Fresh # {} => NewHash \in Hashes
BY DEF Fresh, NewHash

LEMMA KeyTyped == \A c \in Containers : KeyOf(c) \in Keys
BY DEF Keys

\* What the two decisions the panel writes look like.
LEMMA DecisionTyped ==
  ASSUME NEW c \in Containers, NEW s \in SUBSET Record, NEW mode \in Modes,
         NEW hash \in Hashes \cup {None}
  PROVE  Decision(c, s, mode, hash) \in Input
<1>1. c.host \in Hosts /\ c.project \in Projects /\ c.service \in Names
  BY ContainersAssumption
<1>2. HostScope(c.host) \in Scopes
  BY <1>1 DEF Scopes
<1>3. ScopeOf(s, c.host, HostScope(c.host)) \in Scopes
  <2>1. CASE ForHost(s, c.host) = {}
    BY <1>2, <2>1 DEF ScopeOf
  <2>2. CASE ForHost(s, c.host) # {}
    <3>1. (CHOOSE r \in ForHost(s, c.host) : TRUE) \in ForHost(s, c.host)
      BY <2>2
    <3>2. \A r \in ForHost(s, c.host) : r.scope \in Scopes
      BY DEF ForHost, Record
    <3> QED
      BY <2>2, <3>1, <3>2 DEF ScopeOf
  <2> QED
    BY <2>1, <2>2
<1> QED
  BY <1>1, <1>3 DEF Decision, Input

LEMMA ShareCredentialTyped ==
  ASSUME NEW share \in Share, NEW hash \in Hashes
  PROVE  ShareCredential(share, hash) \in Input
<1>1. share.id \in ShareIds /\ share.of \in Containers
  BY DEF Share
<1>2. ShareScope(share.id) \in Scopes
  BY <1>1 DEF Scopes
<1>3. ShareHost[share.id] \in Hosts
  BY <1>1, ShareHostAssumption
<1>4. share.of.project \in Projects /\ share.of.service \in Names
  BY <1>1, ContainersAssumption
<1> QED
  BY <1>2, <1>3, <1>4 DEF ShareCredential, Input, Modes

\* saveProtectionState begins with a section that will write the target.
LEMMA SaveTyped ==
  ASSUME NEW target \in SUBSET Record, NEW by \in Containers \cup {None}, NEW unscoped \in BOOLEAN,
         store \subseteq Record, aliases \subseteq Alias
  PROVE  /\ Save(target, by, unscoped) \in Section
         /\ Save(target, by, unscoped).step = "aliases"
         /\ Save(target, by, unscoped).target = target
         /\ Save(target, by, unscoped).before = store
         /\ Save(target, by, unscoped).by = by
         /\ Save(target, by, unscoped).unscoped = unscoped
         /\ Save(target, by, unscoped).shares = {}
         /\ Save(target, by, unscoped).scope = None
BY DEF Save, Idle, Section, Steps

LEMMA IdleTyped == Idle \in Section /\ Idle.step = "idle"
BY DEF Idle, Section, Steps
-----------------------------------------------------------------------------
LEMMA InitTypes == Init => TypeOK
BY IdleTyped DEF Init, TypeOK, Request, Nothing

LEMMA SetProtectionTyped ==
  ASSUME NEW s \in SUBSET Record, NoDuplicates(s), NEW input \in Input
  PROVE  SetProtection(s, input) \in SUBSET Record
BY SetProtectionAdds

\* The types of what a request leaves in its slot, and of the credential made for it.
LEMMA TakeTyped ==
  ASSUME TypeOK, NEW q \in Requests, NEW request \in Request, Take(q, request)
  PROVE  requests' \in [Requests -> Request]
BY DEF Take, TypeOK

LEMMA DropTyped ==
  ASSUME TypeOK, NEW q \in Requests, Drop(q)
  PROVE  requests' \in [Requests -> Request]
BY DEF Drop, TypeOK, Request

\* Receiving a request changes its slot and the credentials made.
LEMMA ReceiveTypes ==
  ASSUME TypeOK, Receive
  PROVE  TypeOK'
<1>1. ASSUME NEW q \in Requests, NEW snapshot \in SUBSET Containers, NEW c \in Containers,
             NEW unscoped \in Callers, ReceiveProtect(q, c, snapshot, unscoped)
      PROVE  TypeOK'
  <2>1. [kind |-> "protect", of |-> c, unscoped |-> unscoped, hash |-> NewHash] \in Request
    BY <1>1, NewHashTyped, ExposureAssumption DEF ReceiveProtect, Request, ProtectRequest
  <2>2. requests' \in [Requests -> Request] /\ minted' \subseteq Hashes
    BY <1>1, <2>1, TakeTyped, NewHashTyped DEF ReceiveProtect, TypeOK
  <2> QED
    BY <1>1, <2>2 DEF ReceiveProtect, TypeOK, files
<1>2. ASSUME NEW q \in Requests, NEW c \in Containers, NEW i \in ShareIds, NEW ttl \in Ttls,
             ReceiveCreate(q, c, i, ttl)
      PROVE  TypeOK'
  <2>1. [id |-> i, of |-> c, mode |-> "protected", expiresAt |-> now + ttl] \in Share
    BY ExposureAssumption DEF Share, Modes, TypeOK
  <2>2. [kind |-> "create", at |-> now, hash |-> NewHash,
         share |-> [id |-> i, of |-> c, mode |-> "protected", expiresAt |-> now + ttl]] \in Request
    BY <1>2, <2>1, NewHashTyped DEF ReceiveCreate, Request, CreateRequest, TypeOK
  <2>3. requests' \in [Requests -> Request] /\ minted' \subseteq Hashes
    BY <1>2, <2>2, TakeTyped, NewHashTyped DEF ReceiveCreate, TypeOK
  <2> QED
    BY <1>2, <2>3 DEF ReceiveCreate, TypeOK, files
<1>3. ASSUME NEW q \in Requests, NEW share \in shares, ReceiveRegenerate(q, share)
      PROVE  TypeOK'
  <2>1. [kind |-> "regenerate", share |-> share, hash |-> NewHash] \in Request
    BY <1>3, NewHashTyped DEF ReceiveRegenerate, Request, RegenerateRequest, TypeOK
  <2>2. requests' \in [Requests -> Request] /\ minted' \subseteq Hashes
    BY <1>3, <2>1, TakeTyped, NewHashTyped DEF ReceiveRegenerate, TypeOK
  <2> QED
    BY <1>3, <2>2 DEF ReceiveRegenerate, TypeOK, files
<1>4. ASSUME NEW q \in Requests, NEW snapshot \in SUBSET Containers, NEW c \in Containers,
             NEW host \in AliasHosts, ReceiveAlias(q, c, host, snapshot)
      PROVE  TypeOK'
  <2>1. [kind |-> "alias-row", key |-> KeyOf(c), host |-> host, was |-> aliases,
         previous |-> aliasRows[KeyOf(c)]] \in Request
    BY KeyTyped, ExposureAssumption DEF Request, AliasRequest, TypeOK
  <2>2. requests' \in [Requests -> Request]
    BY <1>4, <2>1, TakeTyped DEF ReceiveAlias
  <2> QED
    BY <1>4, <2>2 DEF ReceiveAlias, TypeOK, files
<1>5. ASSUME NEW q \in Requests, NEW key \in Keys, ReceiveAliasRemoval(q, key)
      PROVE  TypeOK'
  <2>1. [kind |-> "alias-row", key |-> key, host |-> None, was |-> aliases, previous |-> None]
          \in Request
    BY DEF Request, AliasRequest, TypeOK
  <2>2. requests' \in [Requests -> Request]
    BY <1>5, <2>1, TakeTyped DEF ReceiveAliasRemoval
  <2> QED
    BY <1>5, <2>2 DEF ReceiveAliasRemoval, TypeOK, files
<1> QED
  BY <1>1, <1>2, <1>3, <1>4, <1>5 DEF Receive

\* A share rewritten: what stays alive is still made of shares.
LEMMA LiveTyped == ASSUME NEW file \in SUBSET Share, NEW at PROVE Live(file, at) \in SUBSET Share
BY DEF Live

LEMMA AtOnceTypes ==
  ASSUME TypeOK, NoDuplicates(store), AtOnce
  PROVE  TypeOK'
<1>0. store \in SUBSET Record /\ aliases \in SUBSET Alias
  BY DEF TypeOK
<1>1. ASSUME NEW snapshot \in SUBSET Containers, NEW c \in Containers, NEW unscoped \in Callers,
             OpenService(c, snapshot, unscoped)
      PROVE  TypeOK'
  <2>1. SetProtection(store, Decision(c, store, "public", None)) \in SUBSET Record
    BY <1>0, DecisionTyped, SetProtectionTyped DEF Modes
  <2>2. section' \in Section
    BY <1>0, <1>1, <2>1, SaveTyped, ExposureAssumption DEF OpenService
  <2> QED
    BY <1>1, <2>2 DEF OpenService, TypeOK, files
<1>2. ASSUME NEW c \in Containers, NEW unscoped \in Callers, CloseService(c, unscoped)
      PROVE  TypeOK'
  <2>1. RemoveProtection(store, ScopeOf(store, c.host, None)) \in SUBSET Record
    BY <1>0 DEF RemoveProtection
  <2>2. section' \in Section
    BY <1>0, <1>2, <2>1, SaveTyped, ExposureAssumption DEF CloseService
  <2> QED
    BY <1>2, <2>2 DEF CloseService, TypeOK, files
<1>3. ASSUME NEW c \in Containers, NEW i \in ShareIds, NEW ttl \in Ttls, CreatePublicShare(c, i, ttl)
      PROVE  TypeOK'
  <2>1. [id |-> i, of |-> c, mode |-> "public", expiresAt |-> now + ttl] \in Share
    BY ExposureAssumption DEF Share, Modes, TypeOK
  <2>2. shares' \subseteq Share
    BY <1>3, <2>1, LiveTyped DEF CreatePublicShare, TypeOK
  <2> QED
    BY <1>3, <2>2 DEF CreatePublicShare, TypeOK
<1>4. ASSUME NEW share \in shares, RevokeShare(share)
      PROVE  TypeOK'
  <2>1. share \in Share /\ ShareScope(share.id) \in Scopes
    BY DEF TypeOK, Share, Scopes
  <2>2. section' \in Section
    BY <1>4, <2>1 DEF RevokeShare, Idle, Section, Steps, TypeOK
  <2> QED
    BY <1>4, <2>2 DEF RevokeShare, TypeOK, files
<1> QED
  BY <1>1, <1>2, <1>3, <1>4 DEF AtOnce

\* A section that also rewrites the shares, and names the share it is for.
LEMMA ShareSaveTyped ==
  ASSUME NEW target \in SUBSET Record, NEW file \in SUBSET Share, NEW scope \in Scopes,
         store \subseteq Record, aliases \subseteq Alias
  PROVE  LET save == [Save(target, None, TRUE) EXCEPT !.shares = file, !.scope = scope] IN
         /\ save \in Section
         /\ save.step = "aliases" /\ save.target = target /\ save.before = store
         /\ save.by = None /\ save.unscoped = TRUE
         /\ save.shares = file /\ save.scope = scope
BY DEF Save, Idle, Section, Steps

LEMMA ScopedSaveTyped ==
  ASSUME NEW target \in SUBSET Record, NEW scope \in Scopes,
         store \subseteq Record, aliases \subseteq Alias
  PROVE  LET save == [Save(target, None, TRUE) EXCEPT !.scope = scope] IN
         /\ save \in Section
         /\ save.step = "aliases" /\ save.target = target /\ save.before = store
         /\ save.by = None /\ save.unscoped = TRUE
         /\ save.shares = {} /\ save.scope = scope
BY DEF Save, Idle, Section, Steps

LEMMA AliasFileTyped ==
  ASSUME NEW r \in AliasRequest
  PROVE  AliasFile(r) \in SUBSET Alias
BY DEF AliasFile, AliasRequest, Planned, Alias

LEMMA RoutedForTyped ==
  ASSUME NEW stored, NEW stores
  PROVE  RoutedFor(stored, stores) \subseteq stored
BY DEF RoutedFor

LEMMA ResumeTypes ==
  ASSUME TypeOK, NoDuplicates(store), NEW q \in Requests,
         \/ FinishProtect(q) \/ FinishCreate(q) \/ FinishRegenerate(q)
         \/ WriteAliasRow(q) \/ SaveAliases(q) \/ UndoAliasRow(q)
  PROVE  TypeOK'
<1> DEFINE r == requests[q]
<1>0. store \in SUBSET Record /\ aliases \in SUBSET Alias /\ r \in Request
  BY DEF TypeOK
<1> HIDE DEF r
<1>1. CASE FinishProtect(q)
  <2>1. r \in ProtectRequest /\ requests' \in [Requests -> Request]
    BY <1>0, <1>1, RequestKinds, DropTyped DEF FinishProtect, r
  <2>2. SetProtection(store, Decision(r.of, store, "protected", r.hash)) \in SUBSET Record
    BY <1>0, <2>1, DecisionTyped, SetProtectionTyped DEF Modes, ProtectRequest
  <2>3. Save(SetProtection(store, Decision(r.of, store, "protected", r.hash)), r.of, r.unscoped)
          \in Section
    BY <1>0, <2>1, <2>2, SaveTyped DEF ProtectRequest
  <2>4. section' \in Section
    BY <1>1, <2>3 DEF FinishProtect, r, TypeOK
  <2> QED
    BY <1>1, <2>1, <2>4 DEF FinishProtect, TypeOK, files
<1>2. CASE FinishCreate(q)
  <2>1. r \in CreateRequest /\ requests' \in [Requests -> Request]
    BY <1>0, <1>2, RequestKinds, DropTyped DEF FinishCreate, r
  <2>2. SetProtection(store, ShareCredential(r.share, r.hash)) \in SUBSET Record
    BY <1>0, <2>1, ShareCredentialTyped, SetProtectionTyped DEF CreateRequest
  <2>3. Live(shares, r.at) \cup {r.share} \in SUBSET Share /\ ShareScope(r.share.id) \in Scopes
    BY <2>1, LiveTyped DEF CreateRequest, Share, Scopes, TypeOK
  <2>4. [Save(SetProtection(store, ShareCredential(r.share, r.hash)), None, TRUE) EXCEPT
            !.shares = Live(shares, r.at) \cup {r.share}, !.scope = ShareScope(r.share.id)]
          \in Section
    BY <1>0, <2>2, <2>3, ShareSaveTyped
  <2>5. section' \in Section
    BY <1>2, <2>4 DEF FinishCreate, r, TypeOK
  <2> QED
    BY <1>2, <2>1, <2>5 DEF FinishCreate, TypeOK, files
<1>3. CASE FinishRegenerate(q)
  <2>1. r \in RegenerateRequest /\ requests' \in [Requests -> Request]
    BY <1>0, <1>3, RequestKinds, DropTyped DEF FinishRegenerate, r
  <2>2. SetProtection(store, ShareCredential(r.share, r.hash)) \in SUBSET Record
    BY <1>0, <2>1, ShareCredentialTyped, SetProtectionTyped DEF RegenerateRequest
  <2>3. ShareScope(r.share.id) \in Scopes
    BY <2>1 DEF RegenerateRequest, Share, Scopes
  <2>4. [Save(SetProtection(store, ShareCredential(r.share, r.hash)), None, TRUE) EXCEPT
            !.scope = ShareScope(r.share.id)] \in Section
    BY <1>0, <2>2, <2>3, ScopedSaveTyped
  <2>5. section' \in Section
    BY <1>3, <2>4 DEF FinishRegenerate, r, TypeOK
  <2> QED
    BY <1>3, <2>1, <2>5 DEF FinishRegenerate, TypeOK, files
<1>4. CASE WriteAliasRow(q)
  <2>1. r \in AliasRequest
    BY <1>0, <1>4, RequestKinds DEF WriteAliasRow, r
  <2>2. [r EXCEPT !.kind = "alias-file"] \in Request
    BY <2>1 DEF AliasRequest, Request
  <2>3. requests' \in [Requests -> Request]
    BY <1>4, <2>2 DEF WriteAliasRow, TypeOK, r
  <2>4. aliasRows' \in [Keys -> Hosts \cup {None}]
    BY <1>4, <2>1 DEF WriteAliasRow, TypeOK, r, AliasRequest
  <2> QED
    BY <1>4, <2>3, <2>4 DEF WriteAliasRow, TypeOK, files
<1>5. CASE SaveAliases(q)
  <2>1. r \in AliasRequest /\ requests' \in [Requests -> Request]
    BY <1>0, <1>5, RequestKinds, DropTyped DEF SaveAliases, r
  <2>2. aliases' \subseteq Alias /\ routed' \subseteq aliases'
    BY <1>5, <2>1, AliasFileTyped, RoutedForTyped DEF SaveAliases, r
  <2> QED
    BY <1>5, <2>1, <2>2 DEF SaveAliases, TypeOK
<1>6. CASE UndoAliasRow(q)
  <2>1. r \in UndoRequest /\ requests' \in [Requests -> Request]
    BY <1>0, <1>6, RequestKinds, DropTyped DEF UndoAliasRow, r
  <2>2. aliasRows' \in [Keys -> Hosts \cup {None}]
    BY <1>6, <2>1 DEF UndoAliasRow, TypeOK, r, UndoRequest
  <2> QED
    BY <1>6, <2>1, <2>2 DEF UndoAliasRow, TypeOK, files
<1> QED
  BY <1>1, <1>2, <1>3, <1>4, <1>5, <1>6

LEMMA GotoTyped ==
  ASSUME section \in Section, NEW step \in Steps, Goto(step)
  PROVE  /\ section' \in Section /\ section'.step = step
         /\ section'.target = section.target /\ section'.before = section.before
         /\ section'.by = section.by /\ section'.unscoped = section.unscoped
         /\ section'.shares = section.shares /\ section'.scope = section.scope
BY DEF Goto, Section

LEMMA WriteTypes ==
  ASSUME TypeOK, WriteNext
  PROVE  TypeOK'
<1>0. /\ section.target \in SUBSET Record /\ section.read \in SUBSET Alias
      /\ section.shares \in SUBSET Share /\ section.scope \in Scopes \cup {None}
      /\ store \in SUBSET Record /\ aliases \in SUBSET Alias /\ section \in Section
  BY DEF TypeOK, Section
<1>1. CASE WriteSharesFirst
  <2>1. RemoveProtection(store, section.scope) \in SUBSET Record
    BY <1>0 DEF RemoveProtection
  <2>2. section' \in Section
    BY <1>0, <1>1, <2>1 DEF WriteSharesFirst, Save, Idle, Section, Steps
  <2> QED
    BY <1>0, <1>1, <2>2 DEF WriteSharesFirst, TypeOK
<1>2. CASE SuspendAliases
  BY <1>0, <1>2, GotoTyped, RoutedForTyped DEF SuspendAliases, TypeOK, Steps
<1>3. CASE WriteStore
  BY <1>0, <1>3, GotoTyped DEF WriteStore, TypeOK, Steps
<1>4. CASE WriteLogin
  <2>1. LoginHosts(section.target) \subseteq Hosts
    BY <1>0 DEF LoginHosts, Record
  <2> QED
    BY <1>0, <1>4, <2>1, GotoTyped DEF WriteLogin, TypeOK, Steps
<1>5. CASE RestoreAliases
  <2>1. section' \in Section
    BY <1>0, <1>5, IdleTyped DEF RestoreAliases, Section, Steps
  <2> QED
    BY <1>0, <1>5, <2>1, RoutedForTyped DEF RestoreAliases, TypeOK
<1>6. CASE WriteSharesLast
  BY <1>0, <1>6, IdleTyped DEF WriteSharesLast, TypeOK
<1> QED
  BY <1>1, <1>2, <1>3, <1>4, <1>5, <1>6 DEF WriteNext

LEMMA FailureTypes ==
  ASSUME TypeOK, Failure
  PROVE  TypeOK'
<1>1. CASE Crash
  BY <1>1, IdleTyped DEF Crash, TypeOK, files, Request
<1>2. CASE WriteFails
  BY <1>2, IdleTyped DEF WriteFails, TypeOK, files
<1>3. ASSUME NEW q \in Requests, SaveAliasesFails(q)
      PROVE  TypeOK'
  <2>1. requests[q] \in AliasRequest
    BY <1>3, RequestKinds DEF SaveAliasesFails, TypeOK
  <2>2. Nothing \in Request
    BY DEF Request
  <2>3. [kind |-> "alias-undo", key |-> requests[q].key, previous |-> requests[q].previous] \in Request
    BY <2>1 DEF AliasRequest, UndoRequest, Request
  <2>4. requests' \in [Requests -> Request]
    BY <1>3, <2>2, <2>3 DEF SaveAliasesFails, TypeOK
  <2> QED
    BY <1>3, <2>4 DEF SaveAliasesFails, TypeOK, files
<1> QED
  BY <1>1, <1>2, <1>3 DEF Failure

LEMMA NextTypes ==
  ASSUME TypeOK, NoDuplicates(store), [Next]_vars
  PROVE  TypeOK'
<1>1. CASE Receive
  BY <1>1, ReceiveTypes
<1>2. CASE AtOnce
  BY <1>2, AtOnceTypes
<1>3. CASE Resume
  BY <1>3, ResumeTypes DEF Resume
<1>4. CASE WriteNext
  BY <1>4, WriteTypes
<1>5. CASE Failure
  BY <1>5, FailureTypes
<1>6. CASE Tick
  BY <1>6 DEF Tick, TypeOK, files
<1>7. CASE UNCHANGED vars
  BY <1>7 DEF TypeOK, vars
<1> QED
  BY <1>1, <1>2, <1>3, <1>4, <1>5, <1>6, <1>7 DEF Next
-----------------------------------------------------------------------------
(***************************************************************************)
(* The inductive invariant.  What a section will write was computed from   *)
(* the files as they are until it writes them: no request runs in between, *)
(* so the target is still one operation away from the store when it is     *)
(* written, and the shares and aliases still stand to it as they did.      *)
(***************************************************************************)
Operation(s, t) ==
  \/ \E input \in Input : /\ ~Collides(s, input.host, input.scope)
                          /\ input.mode = "protected" <=> input.hash # None
                          /\ t = SetProtection(s, input)
  \/ \E scope \in Scopes : t = RemoveProtection(s, scope)

\* The records a section takes out or replaces are its own.
Owns(sec, r) == IF sec.by # None
                THEN r.host = sec.by.host /\ MayReplace(r, sec.by, sec.unscoped)
                ELSE r.scope = sec.scope

OwnScopes(s) == \A r \in s : IsShare(r.scope) \/ r.scope = HostScope(r.host)

Covered(share, s) ==
  share.mode = "protected" => \E r \in s : /\ r.scope = ShareScope(share.id)
                                          /\ r.host = ShareHost[share.id]
                                          /\ r.mode = "protected"

Pending ==
  section.step \in {"aliases", "store"} =>
    /\ section.before = store
    /\ Operation(store, section.target)
    /\ OwnScopes(section.target)
    /\ \A r \in store \ section.target : Owns(section, r)
    /\ \A r \in section.target \ store : IsShare(r.scope) =>
         \E share \in shares \cup section.shares : ShareScope(share.id) = r.scope
    /\ \A share \in shares : Covered(share, section.target)

Written == section.step \in {"login", "aliases-again", "shares-last"} => store = section.target

SharesComing ==
  section.step \in {"aliases", "store", "login", "aliases-again", "shares-last"} =>
    /\ \A share \in section.shares : Covered(share, section.target)
    /\ \A s, t \in section.shares : s.of.name = t.of.name => s = t

SharesGoing ==
  section.step = "shares-first" =>
    /\ section.scope \in Scopes /\ IsShare(section.scope)
    /\ section.shares = {share \in shares : ShareScope(share.id) # section.scope}

RoutedApart ==
  RemotePublic =>
    \A a \in routed : /\ ~Conflicts(a, {store})
                      /\ section.step = "store" => ~Conflicts(a, {section.target})

Safe ==
  /\ Parses(store) /\ OwnScopes(store)
  /\ Pending /\ Written /\ SharesComing /\ SharesGoing /\ RoutedApart
  /\ RoutedSharesAskForACredential /\ OneSharePerContainer

Inv == TypeOK /\ Safe

LEMMA InitSafe == Init => Safe
BY DEF Init, Safe, Parses, NoDuplicates, OwnScopes, Pending, Written, SharesComing, SharesGoing,
       RoutedApart, RoutedSharesAskForACredential, OneSharePerContainer, Idle

\* Most actions touch none of what the invariant speaks of.
LEMMA UnchangedSafe ==
  ASSUME Safe, UNCHANGED <<store, shares, routed, section>>
  PROVE  Safe'
BY DEF Safe, Parses, NoDuplicates, OwnScopes, Pending, Written, SharesComing, SharesGoing,
       RoutedApart, RoutedSharesAskForACredential, OneSharePerContainer

\* A section that ends, however it ends, leaves files that stand by themselves.
LEMMA IdleSafe ==
  ASSUME Safe, section' = Idle, UNCHANGED <<store, shares, routed>>
  PROVE  Safe'
BY DEF Safe, Parses, NoDuplicates, OwnScopes, Pending, Written, SharesComing, SharesGoing,
       RoutedApart, RoutedSharesAskForACredential, OneSharePerContainer, Idle

\* A section begins.
LEMMA BeginSafe ==
  ASSUME Safe, section'.step = "aliases", UNCHANGED <<store, shares, routed>>,
         Pending', SharesComing'
  PROVE  Safe'
BY DEF Safe, Parses, NoDuplicates, OwnScopes, Written, SharesGoing,
       RoutedApart, RoutedSharesAskForACredential, OneSharePerContainer
-----------------------------------------------------------------------------
\* The scope a service decision is filed under is not a share's, and the only
\* record there is the record of the hostname.
LEMMA ServiceScope ==
  ASSUME TypeOK, Safe, NEW c \in Containers, NEW unscoped \in BOOLEAN, Allowed(store, c, unscoped)
  PROVE  LET scope == ScopeOf(store, c.host, HostScope(c.host)) IN
         /\ scope = HostScope(c.host)
         /\ \A r \in store : r.scope = scope => r.host = c.host /\ MayReplace(r, c, unscoped)
<1>0. store \in SUBSET Record /\ NoDuplicates(store) /\ OwnScopes(store)
  BY DEF TypeOK, Safe, Parses
<1>1. \A r \in ForHost(store, c.host) : r.scope = HostScope(c.host)
  BY <1>0 DEF Allowed, MayReplace, ForHost, OwnScopes
<1>2. ScopeOf(store, c.host, HostScope(c.host)) = HostScope(c.host)
  <2>1. CASE ForHost(store, c.host) = {}
    BY <2>1 DEF ScopeOf
  <2>2. CASE ForHost(store, c.host) # {}
    <3>1. (CHOOSE r \in ForHost(store, c.host) : TRUE) \in ForHost(store, c.host)
      BY <2>2
    <3> QED
      BY <1>1, <2>2, <3>1 DEF ScopeOf
  <2> QED
    BY <2>1, <2>2
<1>3. ASSUME NEW r \in store, r.scope = HostScope(c.host)
      PROVE  r.host = c.host /\ MayReplace(r, c, unscoped)
  <2>1. ~IsShare(r.scope)
    BY <1>3 DEF IsShare, HostScope
  <2>2. HostScope(r.host) = HostScope(c.host)
    BY <1>0, <1>3, <2>1 DEF OwnScopes
  <2>3. r.host = c.host
    BY <2>2 DEF HostScope
  <2> QED
    BY <2>3 DEF Allowed, ForHost
<1> QED
  BY <1>2, <1>3

\* protectService and openService: a section that sets the decision of a service.
LEMMA ServiceSetSafe ==
  ASSUME TypeOK, Safe, NEW c \in Containers, NEW unscoped \in BOOLEAN, NEW mode \in Modes,
         NEW hash \in Hashes \cup {None}, mode = "protected" <=> hash # None,
         Allowed(store, c, unscoped), Settable(store, Decision(c, store, mode, hash)),
         section' = Save(SetProtection(store, Decision(c, store, mode, hash)), c, unscoped),
         UNCHANGED <<store, shares, aliases, routed>>
  PROVE  Safe'
<1> DEFINE input == Decision(c, store, mode, hash)
           target == SetProtection(store, input)
<1>0. /\ store \in SUBSET Record /\ NoDuplicates(store) /\ OwnScopes(store)
      /\ aliases \in SUBSET Alias
  BY DEF TypeOK, Safe, Parses
<1>1. input \in Input
  BY <1>0, DecisionTyped
<1>2. /\ input.scope = HostScope(c.host) /\ input.host = c.host
      /\ input.mode = mode /\ input.hash = hash
  BY ServiceScope DEF Decision
<1>3. \A r \in store : r.scope = input.scope => r.host = c.host /\ MayReplace(r, c, unscoped)
  BY <1>2, ServiceScope
<1>4. ~Collides(store, input.host, input.scope)
  BY DEF Settable
<1> HIDE DEF input
<1>5. PICK new \in Record :
        /\ target = {r \in store : r.scope # input.scope} \cup {new}
        /\ new.scope = input.scope /\ new.host = input.host
  BY <1>0, <1>1, SetProtectionAdds
<1>6. ~IsShare(input.scope)
  BY <1>2 DEF IsShare, HostScope
<1>7. /\ section'.step = "aliases" /\ section'.target = target /\ section'.before = store
      /\ section'.by = c /\ section'.unscoped = unscoped /\ section'.shares = {}
  <2>1. target \in SUBSET Record
    BY <1>0, <1>5
  <2> QED
    BY <1>0, <2>1, SaveTyped DEF input
<1>8. Operation(store, target)
  BY <1>1, <1>2, <1>4 DEF Operation
<1>9. OwnScopes(target)
  BY <1>0, <1>2, <1>5 DEF OwnScopes
<1> HIDE DEF target
<1>10. \A r \in store \ target : Owns(section', r)
  BY <1>3, <1>5, <1>7, ContainersAssumption DEF Owns
<1>11. \A r \in target \ store : ~IsShare(r.scope)
  BY <1>5, <1>6
<1>12. \A share \in shares : Covered(share, target)
  <2> SUFFICES ASSUME NEW share \in shares, share.mode = "protected"
               PROVE  \E r \in target : /\ r.scope = ShareScope(share.id)
                                       /\ r.host = ShareHost[share.id] /\ r.mode = "protected"
    BY DEF Covered
  <2>1. PICK r \in store : /\ r.scope = ShareScope(share.id)
                           /\ r.host = ShareHost[share.id] /\ r.mode = "protected"
    BY DEF Safe, RoutedSharesAskForACredential
  <2>2. r.scope # input.scope
    BY <1>6, <2>1 DEF IsShare, ShareScope
  <2> QED
    BY <1>5, <2>1, <2>2
<1>13. Pending'
  BY <1>7, <1>8, <1>9, <1>10, <1>11, <1>12 DEF Pending
<1>14. SharesComing'
  BY <1>7 DEF SharesComing
<1> QED
  BY <1>7, <1>13, <1>14, BeginSafe

\* closeService: a section that removes the decision of a service.
LEMMA ServiceRemoveSafe ==
  ASSUME TypeOK, Safe, NEW c \in Containers, NEW unscoped \in BOOLEAN,
         ForHost(store, c.host) # {}, Allowed(store, c, unscoped),
         section' = Save(RemoveProtection(store, ScopeOf(store, c.host, None)), c, unscoped),
         UNCHANGED <<store, shares, aliases, routed>>
  PROVE  Safe'
<1> DEFINE scope == HostScope(c.host)
           target == RemoveProtection(store, scope)
<1>0. store \in SUBSET Record /\ OwnScopes(store) /\ aliases \in SUBSET Alias
  BY DEF TypeOK, Safe
<1>1. ScopeOf(store, c.host, None) = scope
  BY ServiceScope DEF ScopeOf
<1>2. \A r \in store : r.scope = scope => r.host = c.host /\ MayReplace(r, c, unscoped)
  BY ServiceScope
<1>3. scope \in Scopes /\ ~IsShare(scope)
  BY ContainersAssumption DEF Scopes, IsShare, HostScope
<1> HIDE DEF scope
<1>4. target = {r \in store : r.scope # scope}
  BY DEF RemoveProtection
<1>5. /\ section'.step = "aliases" /\ section'.target = target /\ section'.before = store
      /\ section'.by = c /\ section'.unscoped = unscoped /\ section'.shares = {}
  <2>1. target \in SUBSET Record
    BY <1>0, <1>4
  <2> QED
    BY <1>0, <1>1, <2>1, SaveTyped
<1>6. Operation(store, target)
  BY <1>3 DEF Operation
<1> HIDE DEF target
<1>7. \A r \in store \ target : Owns(section', r)
  BY <1>2, <1>4, <1>5, ContainersAssumption DEF Owns
<1>8. \A share \in shares : Covered(share, target)
  <2> SUFFICES ASSUME NEW share \in shares, share.mode = "protected"
               PROVE  \E r \in target : /\ r.scope = ShareScope(share.id)
                                       /\ r.host = ShareHost[share.id] /\ r.mode = "protected"
    BY DEF Covered
  <2>1. PICK r \in store : /\ r.scope = ShareScope(share.id)
                           /\ r.host = ShareHost[share.id] /\ r.mode = "protected"
    BY DEF Safe, RoutedSharesAskForACredential
  <2>2. r.scope # scope
    BY <1>3, <2>1 DEF IsShare, ShareScope
  <2> QED
    BY <1>4, <2>1, <2>2
<1>9. Pending'
  BY <1>0, <1>4, <1>5, <1>6, <1>7, <1>8 DEF Pending, OwnScopes
<1>10. SharesComing'
  BY <1>5 DEF SharesComing
<1> QED
  BY <1>5, <1>9, <1>10, BeginSafe
-----------------------------------------------------------------------------
\* createShare and regenerateShare: a section that sets the credential of a share,
\* which has its router in the file or among the shares written last.
LEMMA ShareSetSafe ==
  ASSUME TypeOK, Safe, NEW share \in Share, NEW hash \in Hashes,
         Settable(store, ShareCredential(share, hash)),
         section'.step = "aliases", section'.before = store,
         section'.target = SetProtection(store, ShareCredential(share, hash)),
         section'.by = None, section'.scope = ShareScope(share.id),
         UNCHANGED <<store, shares, aliases, routed>>,
         \E s \in shares \cup section'.shares : s.id = share.id,
         section'.shares \subseteq shares \cup {share},
         \A s, t \in section'.shares : s.of.name = t.of.name => s = t
  PROVE  Safe'
<1> DEFINE input == ShareCredential(share, hash)
           target == SetProtection(store, input)
<1>0. store \in SUBSET Record /\ NoDuplicates(store) /\ OwnScopes(store)
  BY DEF TypeOK, Safe, Parses
<1>1. input \in Input
  BY ShareCredentialTyped
<1>2. /\ input.scope = ShareScope(share.id) /\ input.host = ShareHost[share.id]
      /\ input.mode = "protected" /\ input.hash # None
  BY NoneAssumption DEF ShareCredential
<1>3. ~Collides(store, input.host, input.scope)
  BY DEF Settable
<1> HIDE DEF input
<1>4. PICK new \in Record :
        /\ target = {r \in store : r.scope # input.scope} \cup {new}
        /\ new.scope = input.scope /\ new.host = input.host /\ new.mode = input.mode
  BY <1>0, <1>1, SetProtectionAdds
<1>5. section'.target = target
  BY DEF input
<1>6. Operation(store, target)
  BY <1>1, <1>2, <1>3 DEF Operation
<1> HIDE DEF target
<1>7. OwnScopes(target)
  BY <1>0, <1>2, <1>4 DEF OwnScopes, IsShare, ShareScope
<1>8. \A r \in store \ target : Owns(section', r)
  BY <1>2, <1>4 DEF Owns
<1>9. \A r \in target \ store : r.scope = ShareScope(share.id)
  BY <1>2, <1>4
<1>10. \A s \in shares \cup {share} : Covered(s, target)
  <2> SUFFICES ASSUME NEW s \in shares \cup {share}, s.mode = "protected"
               PROVE  \E r \in target : /\ r.scope = ShareScope(s.id)
                                       /\ r.host = ShareHost[s.id] /\ r.mode = "protected"
    BY DEF Covered
  <2>1. CASE s.id = share.id
    BY <1>2, <1>4, <2>1
  <2>2. CASE s.id # share.id
    <3>1. PICK r \in store : /\ r.scope = ShareScope(s.id)
                             /\ r.host = ShareHost[s.id] /\ r.mode = "protected"
      BY <2>2 DEF Safe, RoutedSharesAskForACredential
    <3>2. r.scope # input.scope
      BY <1>2, <2>2, <3>1 DEF ShareScope
    <3> QED
      BY <1>4, <3>1, <3>2
  <2> QED
    BY <2>1, <2>2
<1>11. Pending'
  BY <1>5, <1>6, <1>7, <1>8, <1>9, <1>10 DEF Pending
<1>12. SharesComing'
  BY <1>5, <1>10 DEF SharesComing
<1> QED
  BY <1>11, <1>12, BeginSafe
-----------------------------------------------------------------------------
LEMMA ReceiveSafe ==
  ASSUME Safe, Receive
  PROVE  Safe'
BY UnchangedSafe DEF Receive, ReceiveProtect, ReceiveCreate, ReceiveRegenerate, ReceiveAlias,
                     ReceiveAliasRemoval, files

LEMMA AtOnceSafe ==
  ASSUME TypeOK, Safe, AtOnce
  PROVE  Safe'
<1>1. ASSUME NEW snapshot \in SUBSET Containers, NEW c \in Containers, NEW unscoped \in Callers,
             OpenService(c, snapshot, unscoped)
      PROVE  Safe'
  <2>1. unscoped \in BOOLEAN /\ "public" \in Modes
    BY ExposureAssumption DEF Modes
  <2>2. /\ Allowed(store, c, unscoped) /\ Settable(store, Decision(c, store, "public", None))
        /\ section' = Save(SetProtection(store, Decision(c, store, "public", None)), c, unscoped)
        /\ UNCHANGED <<store, shares, aliases, routed>>
    BY <1>1 DEF OpenService, files
  <2> QED
    BY <2>1, <2>2, ServiceSetSafe
<1>2. ASSUME NEW c \in Containers, NEW unscoped \in Callers, CloseService(c, unscoped)
      PROVE  Safe'
  <2>1. unscoped \in BOOLEAN
    BY ExposureAssumption
  <2>2. /\ ForHost(store, c.host) # {} /\ Allowed(store, c, unscoped)
        /\ section' = Save(RemoveProtection(store, ScopeOf(store, c.host, None)), c, unscoped)
        /\ UNCHANGED <<store, shares, aliases, routed>>
    BY <1>2 DEF CloseService, files
  <2> QED
    BY <2>1, <2>2, ServiceRemoveSafe
<1>3. ASSUME NEW c \in Containers, NEW i \in ShareIds, NEW ttl \in Ttls, CreatePublicShare(c, i, ttl)
      PROVE  Safe'
  <2> DEFINE new == [id |-> i, of |-> c, mode |-> "public", expiresAt |-> now + ttl]
  <2>1. /\ section.step = "idle" /\ Sharable(c, now) /\ shares' = Live(shares, now) \cup {new}
        /\ UNCHANGED <<store, routed, section>>
    BY <1>3 DEF CreatePublicShare, Running
  <2>2. new.mode = "public" /\ new.of.name = c.name
    OBVIOUS
  <2> HIDE DEF new
  <2>3. OneSharePerContainer'
    BY <2>1, <2>2 DEF Safe, OneSharePerContainer, Sharable, SharedBy, Live
  <2>4. RoutedSharesAskForACredential'
    BY <2>1, <2>2 DEF Safe, RoutedSharesAskForACredential, Live
  <2> QED
    BY <2>1, <2>3, <2>4 DEF Safe, Parses, NoDuplicates, OwnScopes, Pending, Written, SharesComing,
                            SharesGoing, RoutedApart
<1>4. ASSUME NEW share \in shares, RevokeShare(share)
      PROVE  Safe'
  <2>1. share \in Share
    BY DEF TypeOK
  <2>2. /\ section'.step = "shares-first"
        /\ section'.scope = ShareScope(share.id)
        /\ section'.shares = {s \in shares : s.id # share.id}
        /\ UNCHANGED <<store, shares, routed>>
    BY <1>4 DEF RevokeShare, Idle, files
  <2>3. SharesGoing'
    BY <2>1, <2>2 DEF SharesGoing, Share, Scopes, ShareScope, IsShare
  <2> QED
    BY <2>2, <2>3 DEF Safe, Parses, NoDuplicates, OwnScopes, Pending, Written, SharesComing,
                      RoutedApart, RoutedSharesAskForACredential, OneSharePerContainer
<1> QED
  BY <1>1, <1>2, <1>3, <1>4 DEF AtOnce

LEMMA ResumeSafe ==
  ASSUME TypeOK, Safe, NEW q \in Requests,
         \/ FinishProtect(q) \/ FinishCreate(q) \/ FinishRegenerate(q)
         \/ WriteAliasRow(q) \/ SaveAliases(q) \/ UndoAliasRow(q)
  PROVE  Safe'
<1> DEFINE r == requests[q]
<1>0. store \in SUBSET Record /\ aliases \in SUBSET Alias /\ r \in Request /\ NoDuplicates(store)
  BY DEF TypeOK, Safe, Parses
<1> HIDE DEF r
<1>1. CASE FinishProtect(q)
  <2>1. r.of \in Containers /\ r.unscoped \in BOOLEAN /\ r.hash \in Hashes /\ r.hash # None
    BY <1>0, <1>1, RequestKinds, NoneAssumption DEF FinishProtect, r, ProtectRequest
  <2>2. CASE Allowed(store, r.of, r.unscoped) /\ Settable(store, Decision(r.of, store, "protected", r.hash))
    <3>1. /\ section' = Save(SetProtection(store, Decision(r.of, store, "protected", r.hash)),
                             r.of, r.unscoped)
          /\ UNCHANGED <<store, shares, aliases, routed>>
      BY <1>1, <2>2 DEF FinishProtect, r, files
    <3> QED
      BY <2>1, <2>2, <3>1, ServiceSetSafe DEF Modes
  <2>3. CASE ~(Allowed(store, r.of, r.unscoped)
                 /\ Settable(store, Decision(r.of, store, "protected", r.hash)))
    BY <1>1, <2>3, UnchangedSafe DEF FinishProtect, r, files
  <2> QED
    BY <2>2, <2>3
<1>2. CASE FinishCreate(q)
  <2>1. r.share \in Share /\ r.hash \in Hashes
    BY <1>0, <1>2, RequestKinds DEF FinishCreate, r, CreateRequest
  <2> DEFINE credential == ShareCredential(r.share, r.hash)
  <2>2. CASE Sharable(r.share.of, r.at) /\ Settable(store, credential)
    <3> DEFINE file == Live(shares, r.at) \cup {r.share}
    <3>1. section' = [Save(SetProtection(store, credential), None, TRUE) EXCEPT
                        !.shares = file, !.scope = ShareScope(r.share.id)]
      BY <1>2, <2>2 DEF FinishCreate, r
    <3>2. /\ SetProtection(store, credential) \in SUBSET Record
          /\ file \in SUBSET Share /\ ShareScope(r.share.id) \in Scopes
      BY <1>0, <2>1, ShareCredentialTyped, SetProtectionTyped, LiveTyped DEF TypeOK, Share, Scopes
    <3>3. /\ section'.step = "aliases" /\ section'.before = store
          /\ section'.target = SetProtection(store, credential)
          /\ section'.by = None /\ section'.scope = ShareScope(r.share.id)
          /\ section'.shares = file
      BY <3>1 DEF Save, Idle
    <3>4. file \subseteq shares \cup {r.share} /\ r.share \in file
      BY DEF Live
    <3>5. \A s, t \in file : s.of.name = t.of.name => s = t
      BY <2>2 DEF Safe, OneSharePerContainer, Sharable, SharedBy, Live
    <3>6. UNCHANGED <<store, shares, aliases, routed>>
      BY <1>2 DEF FinishCreate, files
    <3> QED
      BY <2>1, <2>2, <3>3, <3>4, <3>5, <3>6, ShareSetSafe
  <2>3. CASE ~(Sharable(r.share.of, r.at) /\ Settable(store, credential))
    BY <1>2, <2>3, UnchangedSafe DEF FinishCreate, r, files
  <2> QED
    BY <2>2, <2>3
<1>3. CASE FinishRegenerate(q)
  <2>1. r.share \in Share /\ r.hash \in Hashes
    BY <1>0, <1>3, RequestKinds DEF FinishRegenerate, r, RegenerateRequest
  <2> DEFINE credential == ShareCredential(r.share, r.hash)
  <2>2. CASE StillShared(r.share) /\ Settable(store, credential)
    <3>1. section' = [Save(SetProtection(store, credential), None, TRUE) EXCEPT
                        !.scope = ShareScope(r.share.id)]
      BY <1>3, <2>2 DEF FinishRegenerate, r
    <3>2. SetProtection(store, credential) \in SUBSET Record /\ ShareScope(r.share.id) \in Scopes
      BY <1>0, <2>1, ShareCredentialTyped, SetProtectionTyped DEF Share, Scopes
    <3>3. /\ section'.step = "aliases" /\ section'.before = store
          /\ section'.target = SetProtection(store, credential)
          /\ section'.by = None /\ section'.scope = ShareScope(r.share.id)
          /\ section'.shares = {}
      BY <3>1 DEF Save, Idle
    <3>4. \E s \in shares : s.id = r.share.id
      BY <2>2 DEF StillShared
    <3>5. UNCHANGED <<store, shares, aliases, routed>>
      BY <1>3 DEF FinishRegenerate, files
    <3> QED
      BY <2>1, <2>2, <3>3, <3>4, <3>5, ShareSetSafe
  <2>3. CASE ~(StillShared(r.share) /\ Settable(store, credential))
    BY <1>3, <2>3, UnchangedSafe DEF FinishRegenerate, r, files
  <2> QED
    BY <2>2, <2>3
<1>4. CASE WriteAliasRow(q)
  BY <1>4, UnchangedSafe DEF WriteAliasRow, files
<1>5. CASE SaveAliases(q)
  <2>1. RoutedApart'
    BY <1>5 DEF SaveAliases, RoutedApart, RoutedFor, Conflicts
  <2> QED
    BY <1>5, <2>1 DEF SaveAliases, Safe, Parses, NoDuplicates, OwnScopes, Pending, Written,
         SharesComing, SharesGoing, RoutedSharesAskForACredential, OneSharePerContainer
<1>6. CASE UndoAliasRow(q)
  BY <1>6, UnchangedSafe DEF UndoAliasRow, files
<1> QED
  BY <1>1, <1>2, <1>3, <1>4, <1>5, <1>6

LEMMA OperationParses ==
  ASSUME NEW s \in SUBSET Record, Parses(s), NEW t, Operation(s, t)
  PROVE  Parses(t)
BY SetProtectionParses, RemoveProtectionParses DEF Operation

LEMMA WriteSafe ==
  ASSUME TypeOK, Safe, WriteNext
  PROVE  Safe'
<1>0. section \in Section /\ store \in SUBSET Record /\ shares \in SUBSET Share
      /\ aliases \in SUBSET Alias
  BY DEF TypeOK
<1>1. CASE WriteSharesFirst
  <2> DEFINE scope == section.scope
             target == RemoveProtection(store, scope)
  <2>1. /\ scope \in Scopes /\ IsShare(scope)
        /\ shares' = {share \in shares : ShareScope(share.id) # scope}
    BY <1>1 DEF WriteSharesFirst, Safe, SharesGoing
  <2>2. target = {r \in store : r.scope # scope}
    BY DEF RemoveProtection
  <2>3. /\ section'.step = "aliases" /\ section'.before = store /\ section'.target = target
        /\ section'.by = None /\ section'.scope = scope /\ section'.shares = {}
    BY <1>1 DEF WriteSharesFirst, Save, Idle
  <2>4. UNCHANGED <<store, routed>>
    BY <1>1 DEF WriteSharesFirst
  <2>5. Operation(store, target)
    BY <2>1 DEF Operation
  <2> HIDE DEF target, scope
  <2>6. \A r \in store \ target : Owns(section', r)
    BY <2>2, <2>3 DEF Owns
  <2>7. \A share \in shares' : Covered(share, target)
    BY <2>1, <2>2 DEF Covered, Safe, RoutedSharesAskForACredential
  <2>8. Pending'
    BY <2>2, <2>3, <2>4, <2>5, <2>6, <2>7 DEF Pending, Safe, OwnScopes
  <2>9. SharesComing'
    BY <2>3 DEF SharesComing
  <2>10. RoutedSharesAskForACredential' /\ OneSharePerContainer'
    BY <2>1, <2>4 DEF Safe, RoutedSharesAskForACredential, OneSharePerContainer
  <2> QED
    BY <2>3, <2>4, <2>8, <2>9, <2>10 DEF Safe, Parses, NoDuplicates, OwnScopes, Written,
                                        SharesGoing, RoutedApart
<1>2. CASE SuspendAliases
  <2>1. /\ section.step = "aliases" /\ section'.step = "store"
        /\ section'.target = section.target /\ section'.before = section.before
        /\ section'.by = section.by /\ section'.unscoped = section.unscoped
        /\ section'.shares = section.shares /\ section'.scope = section.scope
        /\ UNCHANGED <<store, shares>>
    BY <1>0, <1>2, GotoTyped DEF SuspendAliases, Steps
  <2>2. section.before = store
    BY <2>1 DEF Safe, Pending
  <2>3. RoutedApart'
    BY <1>2, <2>1, <2>2 DEF SuspendAliases, RoutedApart, RoutedFor, Conflicts
  <2>4. Pending'
    BY <2>1 DEF Safe, Pending, Owns
  <2>5. SharesComing'
    BY <2>1 DEF Safe, SharesComing
  <2> QED
    BY <2>1, <2>3, <2>4, <2>5 DEF Safe, Parses, NoDuplicates, OwnScopes, Written, SharesGoing,
         RoutedSharesAskForACredential, OneSharePerContainer
<1>3. CASE WriteStore
  <2>1. /\ section.step = "store" /\ section'.step = "login" /\ store' = section.target
        /\ section'.target = section.target /\ section'.shares = section.shares
        /\ UNCHANGED <<shares, routed>>
    BY <1>0, <1>3, GotoTyped DEF WriteStore, Steps
  <2>2. /\ Operation(store, store') /\ OwnScopes(store')
        /\ \A share \in shares : Covered(share, store')
    BY <2>1 DEF Safe, Pending
  <2>3. Parses(store')
    BY <1>0, <2>2, OperationParses DEF Safe
  <2>4. RoutedApart'
    BY <2>1 DEF Safe, RoutedApart
  <2>5. RoutedSharesAskForACredential'
    BY <2>1, <2>2 DEF Covered, RoutedSharesAskForACredential
  <2>6. SharesComing' /\ Written'
    BY <2>1 DEF Safe, SharesComing, Written
  <2> QED
    BY <2>1, <2>2, <2>3, <2>4, <2>5, <2>6 DEF Safe, Parses, NoDuplicates, OwnScopes, Pending,
         SharesGoing, OneSharePerContainer
<1>4. CASE WriteLogin
  <2>1. /\ section.step = "login" /\ section'.step = "aliases-again"
        /\ section'.target = section.target /\ section'.shares = section.shares
        /\ UNCHANGED <<store, shares, routed>>
    BY <1>0, <1>4, GotoTyped DEF WriteLogin, Steps
  <2> QED
    BY <2>1 DEF Safe, Parses, NoDuplicates, OwnScopes, Pending, Written, SharesComing, SharesGoing,
         RoutedApart, RoutedSharesAskForACredential, OneSharePerContainer
<1>5. CASE RestoreAliases
  <2>1. section.step = "aliases-again" /\ store = section.target /\ UNCHANGED <<store, shares>>
    BY <1>5 DEF RestoreAliases, Safe, Written
  <2>2. routed' = RoutedFor(section.read, {store})
    BY <1>5, <2>1 DEF RestoreAliases
  <2>3. \/ section' = Idle
        \/ /\ section'.step = "shares-last" /\ section'.target = section.target
           /\ section'.shares = section.shares
    BY <1>0, <1>5 DEF RestoreAliases, Section
  <2>4. section'.step \in {"idle", "shares-last"}
    BY <2>3, IdleTyped
  <2>5. RoutedApart'
    BY <2>1, <2>2, <2>4 DEF RoutedApart, RoutedFor, Conflicts
  <2>6. Written' /\ SharesComing'
    BY <2>1, <2>3, IdleTyped DEF Safe, Written, SharesComing
  <2> QED
    BY <2>1, <2>4, <2>5, <2>6 DEF Safe, Parses, NoDuplicates, OwnScopes, Pending, SharesGoing,
         RoutedSharesAskForACredential, OneSharePerContainer
<1>6. CASE WriteSharesLast
  <2>1. /\ section.step = "shares-last" /\ shares' = section.shares /\ section' = Idle
        /\ UNCHANGED <<store, routed>>
    BY <1>6 DEF WriteSharesLast
  <2>2. /\ \A share \in shares' : Covered(share, store)
        /\ \A s, t \in shares' : s.of.name = t.of.name => s = t
    BY <2>1 DEF Safe, Written, SharesComing
  <2> QED
    BY <2>1, <2>2, IdleTyped DEF Safe, Parses, NoDuplicates, OwnScopes, Pending, Written,
         SharesComing, SharesGoing, RoutedApart, Covered, RoutedSharesAskForACredential,
         OneSharePerContainer
<1> QED
  BY <1>1, <1>2, <1>3, <1>4, <1>5, <1>6 DEF WriteNext

LEMMA FailureSafe ==
  ASSUME Safe, Failure
  PROVE  Safe'
<1>1. CASE Crash
  BY <1>1, IdleSafe DEF Crash, files
<1>2. CASE WriteFails
  BY <1>2, IdleSafe DEF WriteFails, files
<1>3. ASSUME NEW q \in Requests, SaveAliasesFails(q)
      PROVE  Safe'
  BY <1>3, UnchangedSafe DEF SaveAliasesFails, files
<1> QED
  BY <1>1, <1>2, <1>3 DEF Failure

LEMMA NextInv == Inv /\ [Next]_vars => Inv'
<1> SUFFICES ASSUME Inv, [Next]_vars PROVE Inv'
  OBVIOUS
<1>0. TypeOK /\ Safe /\ NoDuplicates(store)
  BY DEF Inv, Safe, Parses
<1>1. TypeOK'
  BY <1>0, NextTypes
<1>2. Safe'
  <2>1. CASE Receive
    BY <1>0, <2>1, ReceiveSafe
  <2>2. CASE AtOnce
    BY <1>0, <2>2, AtOnceSafe
  <2>3. CASE Resume
    BY <1>0, <2>3, ResumeSafe DEF Resume
  <2>4. CASE WriteNext
    BY <1>0, <2>4, WriteSafe
  <2>5. CASE Failure
    BY <1>0, <2>5, FailureSafe
  <2>6. CASE Tick
    BY <1>0, <2>6, UnchangedSafe DEF Tick, files
  <2>7. CASE UNCHANGED vars
    BY <1>0, <2>7, UnchangedSafe DEF vars
  <2> QED
    BY <2>1, <2>2, <2>3, <2>4, <2>5, <2>6, <2>7 DEF Next
<1> QED
  BY <1>1, <1>2 DEF Inv

LEMMA Invariance == Spec => []Inv
<1>1. Init => Inv
  BY InitTypes, InitSafe DEF Inv
<1> QED
  BY <1>1, NextInv, PTL DEF Spec
-----------------------------------------------------------------------------
\* Whatever requests, failures and crashes come, the files and the requests in
\* flight keep their types: every alias that has a router is a stored one.
THEOREM Types == Spec => []TypeOK
BY Invariance, PTL DEF Inv

\* On a public host no state a section, a failed write or a crash leaves behind
\* routes an alias under a decision made for another service
\* (saveProtectionState, packages/server/src/services/protection-state.ts).
THEOREM AliasesStayApart == Spec => []NoAliasInheritsADecision
<1>1. Inv => NoAliasInheritsADecision
  BY DEF Inv, Safe, RoutedApart, NoAliasInheritsADecision
<1> QED
  BY <1>1, Invariance, PTL

\* A protected share with a router has its credential in force (createShare and
\* revokeShare, packages/server/src/services/shares.ts).
THEOREM SharesAreGuarded == Spec => []RoutedSharesAskForACredential
<1>1. Inv => RoutedSharesAskForACredential
  BY DEF Inv, Safe
<1> QED
  BY <1>1, Invariance, PTL

\* A container has one share, though two passwords hash for it at once
\* (createShare, packages/server/src/services/shares.ts:277).
THEOREM SharesAreSingle == Spec => []OneSharePerContainer
<1>1. Inv => OneSharePerContainer
  BY DEF Inv, Safe
<1> QED
  BY <1>1, Invariance, PTL

\* The registry is written by one action of the panel.
LEMMA OnlyWriteStore ==
  ASSUME Inv, [Next]_vars, store' # store
  PROVE  section.step = "store" /\ store' = section.target
<1>1. CASE WriteNext
  BY <1>1 DEF WriteNext, WriteSharesFirst, SuspendAliases, WriteStore, WriteLogin, RestoreAliases,
              WriteSharesLast
<1>2. CASE Receive
  BY <1>2 DEF Receive, ReceiveProtect, ReceiveCreate, ReceiveRegenerate, ReceiveAlias,
              ReceiveAliasRemoval, files
<1>3. CASE AtOnce
  BY <1>3 DEF AtOnce, OpenService, CloseService, CreatePublicShare, RevokeShare, files
<1>4. CASE Resume
  BY <1>4 DEF Resume, FinishProtect, FinishCreate, FinishRegenerate, WriteAliasRow, SaveAliases,
              UndoAliasRow, files
<1>5. CASE Failure
  BY <1>5 DEF Failure, Crash, WriteFails, SaveAliasesFails, files
<1>6. CASE Tick \/ UNCHANGED vars
  BY <1>6 DEF Tick, files, vars
<1> QED
  BY <1>1, <1>2, <1>3, <1>4, <1>5, <1>6 DEF Next

\* Registry takes its operators from Protections too: they are the same.
LEMMA SameOperators ==
  /\ Registered!Record = Record /\ Registered!Scopes = Scopes
  /\ \A s, h, sc : Registered!Collides(s, h, sc) <=> Collides(s, h, sc)
  /\ \A s, input : Registered!SetProtection(s, input) = SetProtection(s, input)
  /\ \A s, sc : Registered!RemoveProtection(s, sc) = RemoveProtection(s, sc)
<1>1. Registered!Scopes = Scopes
  BY DEF Registered!Scopes, Scopes, Registered!HostScope, HostScope, Registered!ShareScope, ShareScope
<1>2. Registered!Record = Record
  BY <1>1 DEF Registered!Record, Record, Registered!Modes, Modes
<1>3. \A s, h, sc : Registered!Collides(s, h, sc) <=> Collides(s, h, sc)
  BY DEF Registered!Collides, Collides, Registered!ForHost, ForHost
<1>4. \A s, sc : Registered!NextEpoch(s, sc) = NextEpoch(s, sc)
  BY DEF Registered!NextEpoch, NextEpoch, Registered!InScope, InScope
<1>5. \A s, input : Registered!SetProtection(s, input) = SetProtection(s, input)
  BY <1>4 DEF Registered!SetProtection, SetProtection
<1>6. \A s, sc : Registered!RemoveProtection(s, sc) = RemoveProtection(s, sc)
  BY DEF Registered!RemoveProtection, RemoveProtection
<1> QED
  BY <1>1, <1>2, <1>3, <1>5, <1>6

\* The panel implements the abstract registry: the file starts empty and every
\* write is one setProtection or one removeProtection of what the file holds at
\* that moment, however long the request hashed before (mutateStore,
\* packages/server/src/services/exposure.ts).
THEOREM PanelImplementsRegistry == Spec => ImplementsRegistry
<1>1. Init => Registered!Init
  BY DEF Init, Registered!Init
<1>2. Inv /\ [Next]_vars => [Registered!Next]_store
  <2> SUFFICES ASSUME Inv, [Next]_vars, store' # store PROVE Registered!Next
    OBVIOUS
  <2>1. Operation(store, store')
    BY OnlyWriteStore DEF Inv, Safe, Pending
  <2>2. CASE \E scope \in Scopes : store' = RemoveProtection(store, scope)
    BY <2>2, SameOperators DEF Registered!Remove, Registered!Next
  <2>3. ASSUME NEW input \in Input, ~Collides(store, input.host, input.scope),
               input.mode = "protected" <=> input.hash # None,
               store' = SetProtection(store, input)
        PROVE  Registered!Set
    <3>1. store \in SUBSET Record /\ NoDuplicates(store)
      BY DEF Inv, TypeOK, Safe, Parses
    <3>2. PICK r \in store' : /\ r \in Record
                              /\ r.scope = input.scope /\ r.host = input.host
                              /\ r.mode = input.mode /\ r.hash = input.hash
                              /\ SetProtection(store, r) = SetProtection(store, input)
      BY <2>3, <3>1, SetProtectionLeaves
    <3> QED
      BY <2>3, <3>2, SameOperators DEF Registered!Set
  <2> QED
    BY <2>1, <2>2, <2>3 DEF Operation, Registered!Next
<1> QED
  BY <1>1, <1>2, Invariance, PTL DEF Spec, ImplementsRegistry, Registered!Spec

\* A service request touches only the record of its own hostname, which guard
\* allows it at the moment of the write; a share request only its own credential.
THEOREM RecordsAreOwned == Spec => OnlyOwnRecords
<1>1. Inv /\ [Next]_vars
        => [\A r \in store \ store' :
              IF section.by # None
              THEN r.host = section.by.host /\ MayReplace(r, section.by, section.unscoped)
              ELSE r.scope = section.scope]_vars
  <2> SUFFICES ASSUME Inv, [Next]_vars, store' # store, NEW r \in store \ store'
               PROVE  Owns(section, r)
    BY DEF Owns, vars
  <2> QED
    BY OnlyWriteStore DEF Inv, Safe, Pending
<1> QED
  BY <1>1, Invariance, PTL DEF Spec, OnlyOwnRecords

\* The credential of a share revoked while another password was being hashed for
\* it never comes back (regenerateShare reads the shares again).
THEOREM RevokedSharesStayRevoked == Spec => NoCredentialForARevokedShare
<1>1. Inv /\ [Next]_vars
        => [\A r \in store' \ store : IsShare(r.scope) =>
              \E s \in shares \cup section.shares : ShareScope(s.id) = r.scope]_vars
  BY OnlyWriteStore DEF Inv, Safe, Pending, vars
<1> QED
  BY <1>1, Invariance, PTL DEF Spec, NoCredentialForARevokedShare
=============================================================================
