----------------------------- MODULE Protections -----------------------------
(***************************************************************************)
(* The ForwardAuth registry, state/auth/protections.json, as a value: what *)
(* a record is, which files parse, and what the two pure operations on it  *)
(* return (packages/core/src/protections.ts).  The file is kept sorted by  *)
(* scope, so it is a set here.  Entry points, labels and tech badges take  *)
(* part in no decision and are left out.                                   *)
(***************************************************************************)
EXTENDS Naturals

CONSTANTS Hosts,      \* normalized hostnames (normalizeProtectionHost)
          ShareIds,   \* the two random bytes that name a temporary share
          Projects,   \* Compose project names a record may carry
          Names,      \* Compose service names a record may carry
          Hashes,     \* the credentials: one per generated password
          None        \* an absent optional field

ASSUME NoneAssumption == None \notin Hashes

Modes == {"protected", "public"}

\* What a record is filed under: host:<h>, or share:<id> for a share.
HostScope(h) == <<"host", h>>
ShareScope(id) == <<"share", id>>
Scopes == {HostScope(h) : h \in Hosts} \cup {ShareScope(id) : id \in ShareIds}
IsShare(scope) == scope[1] = "share"

Record == [scope : Scopes, host : Hosts, mode : Modes,
           hash : Hashes \cup {None}, epoch : Nat,
           project : Projects \cup {None}, service : Names \cup {None}]

\* parseRecord: a hash exactly when the mode is protected, an epoch from 1.
WellFormed(r) == /\ r.epoch >= 1
                 /\ r.mode = "protected" <=> r.hash # None

\* parseProtectionStore refuses a file that answers a scope or a host twice.
NoDuplicates(store) ==
  \A r, s \in store : (r.scope = s.scope \/ r.host = s.host) => r = s

Parses(store) == (\A r \in store : WellFormed(r)) /\ NoDuplicates(store)

InScope(store, scope) == {r \in store : r.scope = scope}

\* protectionForHost, as a set of at most one record.
ForHost(store, host) == {r \in store : r.host = host}

ScopeOf(store, host, otherwise) ==
  IF ForHost(store, host) = {} THEN otherwise
  ELSE (CHOOSE r \in ForHost(store, host) : TRUE).scope

\* What setProtection is given.
Input == [scope : Scopes, host : Hosts, mode : Modes, hash : Hashes \cup {None},
          project : Projects \cup {None}, service : Names \cup {None}]

\* setProtection throws when another scope already answers for the host.
Collides(store, host, scope) == \E r \in ForHost(store, host) : r.scope # scope

\* The epoch follows the record of the same scope and starts again without one.
NextEpoch(store, scope) ==
  IF InScope(store, scope) = {} THEN 1
  ELSE (CHOOSE r \in InScope(store, scope) : TRUE).epoch + 1

SetProtection(store, input) ==
  {r \in store : r.scope # input.scope}
    \cup {[scope |-> input.scope, host |-> input.host, mode |-> input.mode,
           hash |-> input.hash, epoch |-> NextEpoch(store, input.scope),
           project |-> input.project, service |-> input.service]}

RemoveProtection(store, scope) == {r \in store : r.scope # scope}
=============================================================================
