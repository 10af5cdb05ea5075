------------------------------ MODULE ExposureCli ------------------------------
(***************************************************************************)
(* The portta command beside the panel: a second process on the same files *)
(* (packages/cli/src/commands/exposure.ts, protect.ts, share.ts), with no  *)
(* lock between the two.  One command runs at a time; every read and every *)
(* write of it is a step the panel's own steps may fall between.           *)
(***************************************************************************)
EXTENDS Exposure

CONSTANTS CliHosts,     \* hostnames a command is run for
          CliKinds      \* the commands this instance exercises

ASSUME CliAssumption == CliHosts \subseteq Hosts

VARIABLE cli            \* the command in progress: what it has read and what it writes next

CliSteps == {"idle", "hashing", "save", "aliases", "store", "login", "aliases-again",
             "shares", "scopes", "scopes-store", "scopes-login"}
CliIdle == [step |-> "idle", host |-> None, target |-> {}, read |-> {}, before |-> {}, shares |-> {}, scopes |-> {}]
CliCommand == [step : CliSteps, host : Hosts \cup {None}, target : SUBSET Record, read : SUBSET Alias, before : SUBSET Record,
               shares : SUBSET Share, scopes : SUBSET Scopes]

cliVars == <<vars, cli>>
CliGoto(step) == cli' = [cli EXCEPT !.step = step]
CliBegins(kind) == kind \in CliKinds /\ cli.step = "idle"

\* protectedStore and openStore keep the scope of the record the host has. The
\* labels are optional, and a command run without them names no service.
CliDecision(host, mode, hash) ==
  [scope |-> ScopeOf(store, host, HostScope(host)), host |-> host, mode |-> mode, hash |-> hash,
   project |-> None, service |-> None]

\* portta protect host: the registry is read, and then the password hashed.
CliProtect(host) ==
  /\ CliBegins("protect")
  /\ Fresh # {}
  /\ Settable(store, CliDecision(host, "protected", NewHash))
  /\ cli' = [CliIdle EXCEPT !.step = "hashing", !.host = host,
                            !.target = SetProtection(store, CliDecision(host, "protected", NewHash))]
  /\ minted' = minted \cup {NewHash}
  /\ UNCHANGED <<files, aliasRows, section, requests, now>>

CliHashed ==
  /\ cli.step = "hashing"
  /\ CliGoto("save")
  /\ UNCHANGED vars

CliOpen(host) ==
  /\ CliBegins("open")
  /\ Settable(store, CliDecision(host, "public", None))
  /\ cli' = [CliIdle EXCEPT !.step = "save", !.host = host,
                            !.target = SetProtection(store, CliDecision(host, "public", None))]
  /\ UNCHANGED vars

\* portta protect remove: no guard, the operator of the host decides.
CliRemove(host) ==
  /\ CliBegins("remove")
  /\ ForHost(store, host) # {}
  /\ cli' = [CliIdle EXCEPT !.step = "save", !.host = host,
                            !.target = RemoveProtection(store, ScopeOf(store, host, None))]
  /\ UNCHANGED vars

\* saveExposure: what saveProtectionState does, by the other process.
CliSave ==
  /\ cli.step = "save"
  /\ cli' = [cli EXCEPT !.step = "aliases", !.read = aliases, !.before = store]
  /\ UNCHANGED vars

CliSuspendAliases ==
  /\ cli.step = "aliases"
  /\ aliases' = cli.read
  /\ routed' = RoutedFor(cli.read, {cli.target, cli.before})
  /\ CliGoto("store")
  /\ UNCHANGED <<store, loginHosts, shares, aliasRows, section, requests, minted, now>>

\* Mutant of CliWriteStore: what was removed stays.
CliWriteStoreMerged ==
  /\ cli.step \in {"store", "scopes-store"}
  /\ store' = store \cup cli.target
  /\ CliGoto(IF cli.step = "store" THEN "login" ELSE "scopes-login")
  /\ UNCHANGED <<loginHosts, shares, aliases, routed, aliasRows, section, requests, minted, now>>

CliWriteStore ==
  /\ cli.step \in {"store", "scopes-store"}
  /\ store' = cli.target
  /\ CliGoto(IF cli.step = "store" THEN "login" ELSE "scopes-login")
  /\ UNCHANGED <<loginHosts, shares, aliases, routed, aliasRows, section, requests, minted, now>>

CliWriteLogin ==
  /\ cli.step \in {"login", "scopes-login"}
  /\ loginHosts' = LoginHosts(cli.target)
  /\ cli' = IF cli.step = "login" THEN [cli EXCEPT !.step = "aliases-again"] ELSE CliIdle
  /\ UNCHANGED <<store, shares, aliases, routed, aliasRows, section, requests, minted, now>>

CliRestoreAliases ==
  /\ cli.step = "aliases-again"
  /\ aliases' = cli.read
  /\ routed' = RoutedFor(cli.read, {cli.target})
  /\ cli' = CliIdle
  /\ UNCHANGED <<store, loginHosts, shares, aliasRows, section, requests, minted, now>>

\* Mutant of CliDropShares: the ids are remembered, and not the scopes.
CliDropShareIds(dropped) ==
  /\ dropped # {}
  /\ cli' = [CliIdle EXCEPT !.step = "shares", !.shares = shares \ dropped,
                            !.scopes = {s.id : s \in dropped}]
  /\ UNCHANGED vars

\* portta share revoke and share gc: the routers written, then removeScopes.
CliDropShares(dropped) ==
  /\ dropped # {}
  /\ cli' = [CliIdle EXCEPT !.step = "shares", !.shares = shares \ dropped,
                            !.scopes = {ShareScope(s.id) : s \in dropped}]
  /\ UNCHANGED vars

CliRevoke(share) == CliBegins("revoke") /\ CliDropShares({share})
CliGc == CliBegins("gc") /\ CliDropShares(shares \ Live(shares, now))

CliWriteShares ==
  /\ cli.step = "shares"
  /\ shares' = cli.shares
  /\ CliGoto("scopes")
  /\ UNCHANGED <<store, loginHosts, aliases, routed, aliasRows, section, requests, minted, now>>

CliReadScopes ==
  /\ cli.step = "scopes"
  /\ cli' = [cli EXCEPT !.step = "scopes-store", !.target = {r \in store : r.scope \notin cli.scopes}]
  /\ UNCHANGED vars

\* The command is interrupted, or one of its writes fails.
CliStops ==
  /\ Faults /\ cli.step # "idle"
  /\ cli' = CliIdle
  /\ UNCHANGED vars

CliNext ==
  \/ \E host \in CliHosts : CliProtect(host) \/ CliOpen(host) \/ CliRemove(host)
  \/ \E share \in shares : CliRevoke(share)
  \/ CliGc \/ CliHashed \/ CliSave \/ CliSuspendAliases \/ CliWriteStore \/ CliWriteLogin
  \/ CliRestoreAliases \/ CliWriteShares \/ CliReadScopes \/ CliStops

BothInit == Init /\ cli = CliIdle
BothNext == (Next /\ UNCHANGED cli) \/ CliNext
BothSpec == BothInit /\ [][BothNext]_cliVars
-----------------------------------------------------------------------------
BothTypeOK == TypeOK /\ cli \in CliCommand

\* Whatever the two processes interleave, the login service never reads a file
\* it must refuse: each writes a whole registry that parses, by a rename.
RegistryAlwaysParses == Parses(store)

\* What services/exposure.ts asks of the time a password takes to hash, here of
\* a command's: a close that succeeded meanwhile stays effective, so a command that
\* decides about one hostname puts back no record of another that is gone.
CloseStaysEffective ==
  [][cli.step = "store" /\ CliWriteStore
       => \A r \in store' : r.host = cli.host \/ InScope(store, r.scope) # {}]_cliVars
=============================================================================
