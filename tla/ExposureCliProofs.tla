-------------------------- MODULE ExposureCliProofs --------------------------
(***************************************************************************)
(* portta beside the panel on the same files, without a lock between them, *)
(* proved for every set of hostnames, requests and commands.  Which of the *)
(* panel's invariants survive is a short list: what it computed from the   *)
(* store need not be one operation away from it any more when it is        *)
(* written.  That each of the two only ever writes a whole registry that   *)
(* parses does.                                                            *)
(***************************************************************************)
EXTENDS ExposureCli, ExposureProofs
-----------------------------------------------------------------------------
\* What either process is about to write parses, whatever the other wrote since
\* it was computed.
BothParse == Parses(store) /\ Parses(section.target) /\ Parses(cli.target)
BothInv == BothTypeOK /\ BothParse

LEMMA EmptyParses == Parses({})
BY DEF Parses, NoDuplicates

LEMMA PartParses ==
  ASSUME NEW s, Parses(s), NEW t \in SUBSET s
  PROVE  Parses(t)
BY DEF Parses, NoDuplicates

LEMMA CliIdleTyped == CliIdle \in CliCommand /\ CliIdle.target = {} /\ CliIdle.step = "idle"
BY DEF CliIdle, CliCommand, CliSteps

LEMMA InitBoth == BothInit => BothInv
<1> SUFFICES ASSUME BothInit PROVE BothInv
  OBVIOUS
<1>1. TypeOK /\ store = {} /\ section = Idle /\ cli = CliIdle
  BY InitTypes DEF BothInit, Init
<1>2. section.target = {}
  BY <1>1 DEF Idle
<1> QED
  BY <1>1, <1>2, EmptyParses, CliIdleTyped DEF BothInv, BothTypeOK, BothParse

-----------------------------------------------------------------------------
(* The panel's steps.                                                      *)

\* What may be set parses once it is set.
LEMMA SettableParses ==
  ASSUME store \in SUBSET Record, Parses(store), NEW input \in Input, Settable(store, input),
         input.mode = "protected" <=> input.hash # None
  PROVE  SetProtection(store, input) \in SUBSET Record /\ Parses(SetProtection(store, input))
BY SetProtectionParses DEF Settable

\* A section that begins writes the target it was given.
LEMMA SaveTarget ==
  ASSUME NEW target, NEW by, NEW unscoped
  PROVE  Save(target, by, unscoped).target = target
BY DEF Save, Idle

\* A request that resumes after its await, or needs none.
LEMMA RequestParses ==
  ASSUME TypeOK, Parses(store), Parses(section.target), AtOnce \/ Resume
  PROVE  Parses(section'.target) /\ UNCHANGED store
<1>0. store \in SUBSET Record
  BY DEF TypeOK
<1>1. ASSUME NEW snapshot \in SUBSET Containers, NEW c \in Containers, NEW unscoped \in Callers,
             OpenService(c, snapshot, unscoped)
      PROVE  Parses(section'.target) /\ UNCHANGED store
  <2>1. PICK input : input = Decision(c, store, "public", None)
    OBVIOUS
  <2>2. input \in Input /\ input.mode = "public" /\ input.hash = None
    <3>1. input \in Input
      BY <1>0, <2>1, DecisionTyped DEF Modes
    <3> QED
      BY <2>1, <3>1 DEF Decision
  <2>3. Settable(store, input) /\ section' = Save(SetProtection(store, input), c, unscoped) /\ UNCHANGED store
    BY <1>1, <2>1 DEF OpenService, files
  <2> QED
    BY <1>0, <2>2, <2>3, SettableParses, SaveTarget
<1>2. ASSUME NEW c \in Containers, NEW unscoped \in Callers, CloseService(c, unscoped)
      PROVE  Parses(section'.target) /\ UNCHANGED store
  BY <1>0, <1>2, RemoveProtectionParses, SaveTarget DEF CloseService, files
<1>3. ASSUME NEW c \in Containers, NEW i \in ShareIds, NEW ttl \in Ttls, CreatePublicShare(c, i, ttl)
      PROVE  Parses(section'.target) /\ UNCHANGED store
  BY <1>3 DEF CreatePublicShare
<1>4. ASSUME NEW share \in shares, RevokeShare(share)
      PROVE  Parses(section'.target) /\ UNCHANGED store
  <2>1. section'.target = {} /\ UNCHANGED store
    BY <1>4 DEF RevokeShare, Idle, files
  <2> QED
    BY <2>1, EmptyParses
<1>5. ASSUME NEW q \in Requests, FinishProtect(q)
      PROVE  Parses(section'.target) /\ UNCHANGED store
  <2>1. requests[q] \in ProtectRequest
    BY <1>5, RequestKinds DEF FinishProtect, TypeOK
  <2>2. PICK c \in Containers, hash \in Hashes, unscoped \in BOOLEAN :
          requests[q].of = c /\ requests[q].hash = hash /\ requests[q].unscoped = unscoped
    BY <2>1 DEF ProtectRequest
  <2>3. PICK input : input = Decision(c, store, "protected", hash)
    OBVIOUS
  <2>4. input \in Input /\ input.mode = "protected" /\ input.hash # None
    <3>1. input \in Input
      BY <1>0, <2>3, DecisionTyped DEF Modes
    <3> QED
      BY <2>3, <3>1, NoneAssumption DEF Decision
  <2>5. /\ UNCHANGED store
        /\ \/ UNCHANGED section
           \/ /\ Settable(store, input)
              /\ section' = Save(SetProtection(store, input), c, unscoped)
    BY <1>5, <2>2, <2>3 DEF FinishProtect, files
  <2> QED
    BY <1>0, <2>4, <2>5, SettableParses, SaveTarget
<1>6. ASSUME NEW q \in Requests, FinishCreate(q)
      PROVE  Parses(section'.target) /\ UNCHANGED store
  <2>1. requests[q] \in CreateRequest
    BY <1>6, RequestKinds DEF FinishCreate, TypeOK
  <2>2. PICK share \in Share, hash \in Hashes, at \in Nat :
          requests[q].share = share /\ requests[q].hash = hash /\ requests[q].at = at
    BY <2>1 DEF CreateRequest
  <2>3. PICK input : input = ShareCredential(share, hash)
    OBVIOUS
  <2>4. input \in Input /\ input.mode = "protected" /\ input.hash # None
    BY <2>3, ShareCredentialTyped, NoneAssumption DEF ShareCredential
  <2>5. /\ UNCHANGED store
        /\ \/ UNCHANGED section
           \/ /\ Settable(store, input)
              /\ section' = [Save(SetProtection(store, input), None, TRUE) EXCEPT
                               !.shares = Live(shares, at) \cup {share}, !.scope = ShareScope(share.id)]
    BY <1>6, <2>2, <2>3 DEF FinishCreate, files
  <2>6. section' = section \/ (section'.target = SetProtection(store, input) /\ Settable(store, input))
    BY <2>5 DEF Save, Idle
  <2> QED
    BY <1>0, <2>4, <2>5, <2>6, SettableParses
<1>7. ASSUME NEW q \in Requests, FinishRegenerate(q)
      PROVE  Parses(section'.target) /\ UNCHANGED store
  <2>1. requests[q] \in RegenerateRequest
    BY <1>7, RequestKinds DEF FinishRegenerate, TypeOK
  <2>2. PICK share \in Share, hash \in Hashes : requests[q].share = share /\ requests[q].hash = hash
    BY <2>1 DEF RegenerateRequest
  <2>3. PICK input : input = ShareCredential(share, hash)
    OBVIOUS
  <2>4. input \in Input /\ input.mode = "protected" /\ input.hash # None
    BY <2>3, ShareCredentialTyped, NoneAssumption DEF ShareCredential
  <2>5. /\ UNCHANGED store
        /\ \/ UNCHANGED section
           \/ /\ Settable(store, input)
              /\ section' = [Save(SetProtection(store, input), None, TRUE) EXCEPT !.scope = ShareScope(share.id)]
    BY <1>7, <2>2, <2>3 DEF FinishRegenerate, files
  <2>6. section' = section \/ (section'.target = SetProtection(store, input) /\ Settable(store, input))
    BY <2>5 DEF Save, Idle
  <2> QED
    BY <1>0, <2>4, <2>5, <2>6, SettableParses
<1>8. ASSUME NEW q \in Requests, WriteAliasRow(q) \/ SaveAliases(q) \/ UndoAliasRow(q)
      PROVE  Parses(section'.target) /\ UNCHANGED store
  BY <1>8 DEF WriteAliasRow, SaveAliases, UndoAliasRow, files
<1>9. CASE AtOnce
  BY <1>1, <1>2, <1>3, <1>4, <1>9 DEF AtOnce
<1>10. CASE Resume
  BY <1>5, <1>6, <1>7, <1>8, <1>10 DEF Resume
<1> QED
  BY <1>9, <1>10

\* The writes of a section: only WriteStore changes the store, and to its target.
LEMMA WriteParses ==
  ASSUME TypeOK, Parses(store), Parses(section.target), WriteNext
  PROVE  Parses(section'.target) /\ Parses(store')
<1>0. store \in SUBSET Record /\ section \in Section
  BY DEF TypeOK
<1>1. Idle.target = {}
  BY DEF Idle
<1>2. CASE WriteSharesFirst
  <2>1. section'.target = RemoveProtection(store, section.scope) /\ UNCHANGED store
    BY <1>2 DEF WriteSharesFirst, Save, Idle
  <2> QED
    BY <1>0, <2>1, RemoveProtectionParses
<1>3. ASSUME NEW step, Goto(step) PROVE section'.target = section.target
  BY <1>0, <1>3 DEF Goto, Section
<1>4. CASE SuspendAliases \/ WriteStore \/ WriteLogin
  <2>1. section'.target = section.target
    BY <1>3, <1>4 DEF SuspendAliases, WriteStore, WriteLogin
  <2>2. store' = store \/ store' = section.target
    BY <1>4 DEF SuspendAliases, WriteStore, WriteLogin
  <2> QED
    BY <2>1, <2>2
<1>5. CASE RestoreAliases
  <2>1. section' = Idle \/ section' = [section EXCEPT !.step = "shares-last"]
    BY <1>5 DEF RestoreAliases
  <2>2. section'.target \in {{}, section.target}
    BY <1>0, <1>1, <2>1 DEF Section
  <2> QED
    BY <1>5, <2>2, EmptyParses DEF RestoreAliases
<1>6. CASE WriteSharesLast
  BY <1>1, <1>6, EmptyParses DEF WriteSharesLast
<1> QED
  BY <1>2, <1>4, <1>5, <1>6 DEF WriteNext

LEMMA PanelKeeps ==
  ASSUME BothInv, Next, UNCHANGED cli
  PROVE  BothInv'
<1>0. TypeOK /\ Parses(store) /\ NoDuplicates(store) /\ Parses(section.target)
  BY DEF BothInv, BothTypeOK, BothParse, Parses
<1>1. TypeOK'
  BY <1>0, NextTypes
<1>2. Parses(store') /\ Parses(section'.target)
  <2>1. CASE AtOnce \/ Resume
    BY <1>0, <2>1, RequestParses
  <2>2. CASE WriteNext
    BY <1>0, <2>2, WriteParses
  <2>3. CASE Receive
    BY <1>0, <2>3 DEF Receive, ReceiveProtect, ReceiveCreate, ReceiveRegenerate, ReceiveAlias,
                      ReceiveAliasRemoval, files
  <2>4. CASE Failure
    <3>1. UNCHANGED store /\ (section' = Idle \/ UNCHANGED section)
      BY <2>4 DEF Failure, Crash, WriteFails, SaveAliasesFails, files
    <3>2. section' = Idle => section'.target = {}
      BY DEF Idle
    <3> QED
      BY <1>0, <3>1, <3>2, EmptyParses
  <2>5. CASE Tick
    BY <1>0, <2>5 DEF Tick, files
  <2> QED
    BY <2>1, <2>2, <2>3, <2>4, <2>5 DEF Next
<1> QED
  BY <1>1, <1>2 DEF BothInv, BothTypeOK, BothParse

-----------------------------------------------------------------------------
(* The commands' steps.                                                    *)

\* Where only the command's memory changes, only that has to be looked at.
LEMMA VarsStay ==
  ASSUME BothInv, UNCHANGED vars, cli' \in CliCommand, Parses(cli'.target)
  PROVE  BothInv'
BY DEF BothInv, BothTypeOK, BothParse, TypeOK, vars

\* A command that begins remembers what it will write, and no more.
LEMMA Begun ==
  ASSUME NEW step \in CliSteps, NEW host \in CliHosts, NEW target \in SUBSET Record
  PROVE  /\ [CliIdle EXCEPT !.step = step, !.host = host, !.target = target] \in CliCommand
         /\ [CliIdle EXCEPT !.step = step, !.host = host, !.target = target].target = target
<1>1. host \in Hosts
  BY CliAssumption
<1> QED
  BY <1>1 DEF CliIdle, CliCommand, CliSteps

LEMMA CliGone ==
  ASSUME cli \in CliCommand, NEW step \in CliSteps, CliGoto(step)
  PROVE  cli' \in CliCommand /\ cli'.target = cli.target
BY DEF CliGoto, CliCommand

LEMMA CliDecisionTyped ==
  ASSUME store \in SUBSET Record, NEW host \in CliHosts, NEW mode \in Modes, NEW hash \in Hashes \cup {None}
  PROVE  /\ CliDecision(host, mode, hash) \in Input
         /\ CliDecision(host, mode, hash).mode = mode /\ CliDecision(host, mode, hash).hash = hash
<1>1. host \in Hosts /\ HostScope(host) \in Scopes
  BY CliAssumption DEF Scopes
<1>2. ScopeOf(store, host, HostScope(host)) \in Scopes
  <2>1. CASE ForHost(store, host) = {}
    BY <1>1, <2>1 DEF ScopeOf
  <2>2. CASE ForHost(store, host) # {}
    <3>1. (CHOOSE r \in ForHost(store, host) : TRUE) \in ForHost(store, host)
      BY <2>2
    <3>2. \A r \in ForHost(store, host) : r.scope \in Scopes
      BY DEF ForHost, Record
    <3> QED
      BY <2>2, <3>1, <3>2 DEF ScopeOf
  <2> QED
    BY <2>1, <2>2
<1> QED
  BY <1>1, <1>2 DEF CliDecision, Input

\* What portta protect and portta open are to write, decided on what they read.
LEMMA DecidedParses ==
  ASSUME store \in SUBSET Record, Parses(store), NEW host \in CliHosts, NEW mode \in Modes,
         NEW hash \in Hashes \cup {None}, mode = "protected" <=> hash # None,
         Settable(store, CliDecision(host, mode, hash))
  PROVE  /\ SetProtection(store, CliDecision(host, mode, hash)) \in SUBSET Record
         /\ Parses(SetProtection(store, CliDecision(host, mode, hash)))
<1>1. PICK input : input = CliDecision(host, mode, hash)
  OBVIOUS
<1>2. input \in Input /\ input.mode = mode /\ input.hash = hash
  BY <1>1, CliDecisionTyped
<1> QED
  BY <1>1, <1>2, SettableParses

\* A command that decides: what it read parses, and so does what it will write.
LEMMA DecideKeeps ==
  ASSUME BothInv, NEW host \in CliHosts, CliProtect(host) \/ CliOpen(host) \/ CliRemove(host)
  PROVE  BothInv'
<1>0. store \in SUBSET Record /\ Parses(store) /\ TypeOK
  BY DEF BothInv, BothTypeOK, BothParse, TypeOK
<1>1. ASSUME NEW step \in CliSteps, NEW target \in SUBSET Record, Parses(target),
             cli' = [CliIdle EXCEPT !.step = step, !.host = host, !.target = target]
      PROVE  cli' \in CliCommand /\ Parses(cli'.target)
  BY <1>1, Begun
<1>2. CASE CliProtect(host)
  <2>1. PICK hash : hash = NewHash
    OBVIOUS
  <2>2. hash \in Hashes /\ hash # None
    BY <1>2, <2>1, NewHashTyped, NoneAssumption DEF CliProtect
  <2>3. PICK target : target = SetProtection(store, CliDecision(host, "protected", hash))
    OBVIOUS
  <2>4. /\ Settable(store, CliDecision(host, "protected", hash))
        /\ cli' = [CliIdle EXCEPT !.step = "hashing", !.host = host, !.target = target]
        /\ minted' = minted \cup {hash}
        /\ UNCHANGED <<store, loginHosts, shares, aliases, routed, aliasRows, section, requests, now>>
    BY <1>2, <2>1, <2>3 DEF CliProtect, files
  <2>5. target \in SUBSET Record /\ Parses(target)
    BY <1>0, <2>2, <2>3, <2>4, DecidedParses DEF Modes
  <2>6. cli' \in CliCommand /\ Parses(cli'.target)
    BY <1>1, <2>4, <2>5 DEF CliSteps
  <2>7. TypeOK'
    BY <1>0, <2>2, <2>4 DEF TypeOK
  <2> QED
    BY <2>4, <2>6, <2>7 DEF BothInv, BothTypeOK, BothParse
<1>3. CASE CliOpen(host)
  <2>1. PICK target : target = SetProtection(store, CliDecision(host, "public", None))
    OBVIOUS
  <2>2. /\ Settable(store, CliDecision(host, "public", None)) /\ UNCHANGED vars
        /\ cli' = [CliIdle EXCEPT !.step = "save", !.host = host, !.target = target]
    BY <1>3, <2>1 DEF CliOpen
  <2>3. target \in SUBSET Record /\ Parses(target)
    BY <1>0, <2>1, <2>2, DecidedParses DEF Modes
  <2>4. cli' \in CliCommand /\ Parses(cli'.target)
    BY <1>1, <2>2, <2>3 DEF CliSteps
  <2> QED
    BY <2>2, <2>4, VarsStay
<1>4. CASE CliRemove(host)
  <2>1. PICK target : target = RemoveProtection(store, ScopeOf(store, host, None))
    OBVIOUS
  <2>2. UNCHANGED vars /\ cli' = [CliIdle EXCEPT !.step = "save", !.host = host, !.target = target]
    BY <1>4, <2>1 DEF CliRemove
  <2>3. target \in SUBSET Record /\ Parses(target)
    BY <1>0, <2>1, RemoveProtectionParses
  <2>4. cli' \in CliCommand /\ Parses(cli'.target)
    BY <1>1, <2>2, <2>3 DEF CliSteps
  <2> QED
    BY <2>2, <2>4, VarsStay
<1> QED
  BY <1>2, <1>3, <1>4

\* The shares a command writes are some of those it read.
LEMMA SharesKeep ==
  ASSUME BothInv, CliWriteShares \/ CliReadScopes \/ \E dropped \in SUBSET shares : CliDropShares(dropped)
  PROVE  BothInv'
<1>0. TypeOK /\ cli \in CliCommand /\ shares \in SUBSET Share /\ store \in SUBSET Record
  BY DEF BothInv, BothTypeOK, TypeOK
<1>1. CASE CliWriteShares
  <2>1. cli' \in CliCommand /\ cli'.target = cli.target
    BY <1>0, <1>1, CliGone DEF CliWriteShares, CliSteps
  <2>2. shares' \in SUBSET Share
    BY <1>0, <1>1 DEF CliWriteShares, CliCommand
  <2>3. TypeOK'
    BY <1>0, <1>1, <2>2 DEF CliWriteShares, TypeOK
  <2> QED
    BY <1>1, <2>1, <2>3 DEF CliWriteShares, BothInv, BothTypeOK, BothParse
<1>2. CASE CliReadScopes
  <2>1. PICK target : target = {r \in store : r.scope \notin cli.scopes}
    OBVIOUS
  <2>2. UNCHANGED vars /\ cli' = [cli EXCEPT !.step = "scopes-store", !.target = target]
    BY <1>2, <2>1 DEF CliReadScopes
  <2>3. target \in SUBSET Record /\ Parses(target)
    BY <1>0, <2>1, PartParses DEF BothInv, BothParse
  <2>4. cli' \in CliCommand /\ cli'.target = target
    BY <1>0, <2>2, <2>3 DEF CliCommand, CliSteps
  <2> QED
    BY <2>2, <2>3, <2>4, VarsStay
<1>3. ASSUME NEW dropped \in SUBSET shares, CliDropShares(dropped)
      PROVE  BothInv'
  <2>1. PICK kept, scopes : kept = shares \ dropped /\ scopes = {ShareScope(s.id) : s \in dropped}
    OBVIOUS
  <2>2. UNCHANGED vars /\ cli' = [CliIdle EXCEPT !.step = "shares", !.shares = kept, !.scopes = scopes]
    BY <1>3, <2>1 DEF CliDropShares
  <2>3. kept \in SUBSET Share /\ scopes \in SUBSET Scopes
    BY <1>0, <2>1 DEF Share, Scopes
  <2>4. cli' \in CliCommand /\ cli'.target = {}
    BY <2>2, <2>3 DEF CliIdle, CliCommand, CliSteps
  <2> QED
    BY <2>2, <2>4, VarsStay, EmptyParses
<1> QED
  BY <1>1, <1>2, <1>3

\* saveExposure: the same four writes, of what the command computed when it read.
LEMMA SaveKeeps ==
  ASSUME BothInv,
         \/ CliHashed \/ CliSave \/ CliSuspendAliases \/ CliWriteStore \/ CliWriteLogin
         \/ CliRestoreAliases \/ CliStops
  PROVE  BothInv'
<1>0. /\ TypeOK /\ cli \in CliCommand /\ store \in SUBSET Record /\ aliases \in SUBSET Alias
      /\ cli.target \in SUBSET Record /\ cli.read \in SUBSET Alias
  BY DEF BothInv, BothTypeOK, TypeOK, CliCommand
<1>1. CASE CliHashed
  <2>1. cli' \in CliCommand /\ cli'.target = cli.target /\ UNCHANGED vars
    BY <1>0, <1>1, CliGone DEF CliHashed, CliSteps
  <2> QED
    BY <2>1, VarsStay DEF BothInv, BothParse
<1>2. CASE CliSave
  <2>1. UNCHANGED vars /\ cli' = [cli EXCEPT !.step = "aliases", !.read = aliases, !.before = store]
    BY <1>2 DEF CliSave
  <2>2. cli' \in CliCommand /\ cli'.target = cli.target
    BY <1>0, <2>1 DEF CliCommand, CliSteps
  <2> QED
    BY <2>1, <2>2, VarsStay DEF BothInv, BothParse
<1>3. CASE CliSuspendAliases
  <2>1. cli' \in CliCommand /\ cli'.target = cli.target
    BY <1>0, <1>3, CliGone DEF CliSuspendAliases, CliSteps
  <2>2. TypeOK'
    BY <1>0, <1>3, RoutedForTyped DEF CliSuspendAliases, TypeOK
  <2> QED
    BY <1>3, <2>1, <2>2 DEF CliSuspendAliases, BothInv, BothTypeOK, BothParse
<1>4. CASE CliWriteStore
  <2>1. cli' \in CliCommand /\ cli'.target = cli.target
    BY <1>0, <1>4, CliGone DEF CliWriteStore, CliSteps
  <2>2. store' = cli.target /\ TypeOK'
    BY <1>0, <1>4 DEF CliWriteStore, TypeOK
  <2> QED
    BY <1>4, <2>1, <2>2 DEF CliWriteStore, BothInv, BothTypeOK, BothParse
<1>5. CASE CliWriteLogin
  <2>1. \/ cli' = [cli EXCEPT !.step = "aliases-again"]
        \/ cli' = CliIdle
    BY <1>5 DEF CliWriteLogin
  <2>2. cli' \in CliCommand /\ cli'.target \in {{}, cli.target}
    BY <1>0, <2>1, CliIdleTyped DEF CliCommand, CliSteps
  <2>3. LoginHosts(cli.target) \subseteq Hosts
    BY <1>0 DEF LoginHosts, Record
  <2>4. TypeOK'
    BY <1>0, <1>5, <2>3 DEF CliWriteLogin, TypeOK
  <2> QED
    BY <1>5, <2>2, <2>4, EmptyParses DEF CliWriteLogin, BothInv, BothTypeOK, BothParse
<1>6. CASE CliRestoreAliases
  <2>1. TypeOK'
    BY <1>0, <1>6, RoutedForTyped DEF CliRestoreAliases, TypeOK
  <2> QED
    BY <1>6, <2>1, CliIdleTyped, EmptyParses DEF CliRestoreAliases, BothInv, BothTypeOK, BothParse
<1>7. CASE CliStops
  BY <1>7, CliIdleTyped, EmptyParses, VarsStay DEF CliStops
<1> QED
  BY <1>1, <1>2, <1>3, <1>4, <1>5, <1>6, <1>7

LEMMA BothStep == BothInv /\ [BothNext]_cliVars => BothInv'
<1> SUFFICES ASSUME BothInv, [BothNext]_cliVars PROVE BothInv'
  OBVIOUS
<1>1. CASE Next /\ UNCHANGED cli
  BY <1>1, PanelKeeps
<1>2. ASSUME NEW share \in shares, CliRevoke(share) PROVE BothInv'
  BY <1>2, SharesKeep DEF CliRevoke
<1>3. CASE CliGc
  BY <1>3, SharesKeep DEF CliGc
<1>4. CASE UNCHANGED cliVars
  BY <1>4, VarsStay DEF cliVars, BothInv, BothTypeOK, BothParse
<1> QED
  BY <1>1, <1>2, <1>3, <1>4, DecideKeeps, SharesKeep, SaveKeeps DEF BothNext, CliNext

LEMMA BothInvariant == BothSpec => []BothInv
BY InitBoth, BothStep, PTL DEF BothSpec

\* With a command beside it the panel's files and sections keep their types, and so
\* does what the command remembers.
THEOREM BothTypes == BothSpec => []BothTypeOK
<1>1. BothInv => BothTypeOK
  BY DEF BothInv
<1> QED
  BY BothInvariant, <1>1, PTL

\* However the two processes interleave, fail and stop, no reader ever meets a registry
\* it must refuse, for all that a write of the one may undo a write of the other.
THEOREM BothWriteWhatParses == BothSpec => []RegistryAlwaysParses
<1>1. BothInv => RegistryAlwaysParses
  BY DEF BothInv, BothParse, RegistryAlwaysParses
<1> QED
  BY BothInvariant, <1>1, PTL
=============================================================================
