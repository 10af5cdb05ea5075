------------------------------ MODULE Accounts ------------------------------
(***************************************************************************)
(* The panel's accounts: who owns the panel, who administers it, and how   *)
(* the first owner comes to be.                                            *)
(*                                                                         *)
(* A request is judged by the role its session vouches for, which Better   *)
(* Auth caches in the cookie, and by the role its target has when the rule *)
(* reads it.  The write itself is the library's: it verifies the session   *)
(* again first, so other requests run between the rule and the write.      *)
(* Only a transfer of ownership writes in the same step as its rule.       *)
(*                                                                         *)
(* A viewer and a developer are alike here.  A token can only transfer,    *)
(* with the role its account has: a session just refreshed.                *)
(***************************************************************************)
EXTENDS Naturals, FiniteSets

CONSTANTS
  People,     \* the email addresses an account may have
  Slots       \* the requests the panel answers at the same time

Nothing == "none"   \* no value

Roles == {"owner", "admin", "developer"}

\* The roles that hold every user permission.
Administrators == {"owner", "admin"}

UserVerbs == {"setup", "create", "set-role", "ban", "unban", "remove"}

VARIABLES
  role,       \* [People -> Roles, or Nothing without an account]: the users table
  banned,     \* the people whose account is banned
  session,    \* [People -> the role their session vouches for, or Nothing]
  call        \* [Slots -> Call]: the write the library is about to make

accountVars == <<role, banned, session, call>>

Call(verb, p, to) == [verb |-> verb, on |-> p, to |-> to]
Idle == Call(Nothing, Nothing, Nothing)
Calls ==
  [verb : {"setup"}, on : People, to : {"owner"}]
  \cup [verb : {"create", "set-role"}, on : People, to : Roles \ {"owner"}]
  \cup [verb : {"ban", "unban", "remove"}, on : People, to : {Nothing}]

AccountsInit ==
  /\ role = [p \in People |-> Nothing]
  /\ banned = {}
  /\ session = [p \in People |-> Nothing]
  /\ call = [r \in Slots |-> Idle]

-----------------------------------------------------------------------------
Owners(roles) == {p \in People : roles[p] = "owner"}

hasOwner == Owners(role) # {}

UniqueOwner(roles) ==
  \A p, q \in People : roles[p] = "owner" /\ roles[q] = "owner" => p = q

\* Mutant of Stored: no unique index over the owner.
StoredUnindexed(next) == role' = next

\* The database refuses a row that would make a second owner.
Stored(next) ==
  IF UniqueOwner(next) THEN role' = next ELSE UNCHANGED role

\* The middleware and the permission of the route: a panel without an owner
\* answers nothing, and only an administrator gets to the rules.
Admitted(by) == session[by] \in Administrators /\ hasOwner

refusalForUserWrite(by, p) == role[p] = "owner" /\ session[by] # "owner"

refusalForRoleChange(by, p, to) ==
  by = p \/ refusalForUserWrite(by, p) \/ to = "owner"

refusalForBan(by, p) == by = p \/ refusalForUserWrite(by, p)

refusalForRemoval(by, p) ==
  \/ by = p
  \/ refusalForUserWrite(by, p)
  \/ role[p] = "owner" /\ Cardinality(Owners(role)) <= 1

refusalForTransfer(by, p) == session[by] # "owner" \/ by = p

\* The library takes the call and first verifies the session it came with.
Take(r, verb, p, to) ==
  /\ call' = [call EXCEPT ![r] = Call(verb, p, to)]
  /\ UNCHANGED <<role, banned, session>>

-----------------------------------------------------------------------------
(***************************************************************************)
(* The rules, each in the step that reads the account they are about.      *)
(***************************************************************************)
bootstrapOwner(r, p) ==
  /\ ~ hasOwner
  /\ Take(r, "setup", p, "owner")

create(r, by, p, to) ==
  /\ Admitted(by)
  /\ to # "owner"
  /\ Take(r, "create", p, to)

setRole(r, by, p, to) ==
  /\ Admitted(by)
  /\ role[p] # Nothing
  /\ ~ refusalForRoleChange(by, p, to)
  /\ Take(r, "set-role", p, to)

setBan(r, by, p, verb) ==
  /\ Admitted(by)
  /\ role[p] # Nothing
  /\ ~ refusalForBan(by, p)
  /\ Take(r, verb, p, Nothing)

remove(r, by, p) ==
  /\ Admitted(by)
  /\ role[p] # Nothing
  /\ ~ refusalForRemoval(by, p)
  /\ Take(r, "remove", p, Nothing)

\* Mutant of transferOwnership: whoever owns the panel is demoted, not the caller.
transferFromWhoeverOwns(by, p) ==
  /\ Admitted(by)
  /\ role[p] # Nothing
  /\ ~ refusalForTransfer(by, p)
  /\ Stored([q \in People |-> CASE q = p -> "owner"
                                [] q # p /\ role[q] = "owner" -> "admin"
                                [] OTHER -> role[q]])
  /\ UNCHANGED <<banned, session, call>>

\* One synchronous transaction: demote the caller, promote the target.
transferOwnership(by, p) ==
  /\ Admitted(by)
  /\ role[p] # Nothing
  /\ ~ refusalForTransfer(by, p)
  /\ Stored([q \in People |-> CASE q = p -> "owner"
                                [] q = by /\ by # p /\ role[by] # Nothing -> "admin"
                                [] OTHER -> role[q]])
  /\ UNCHANGED <<banned, session, call>>

-----------------------------------------------------------------------------
(***************************************************************************)
(* The library's writes.  None of them reads the rules again.              *)
(***************************************************************************)
Returned(r) == call' = [call EXCEPT ![r] = Idle]

\* The session did not verify, or the panel went down.
Refuse(r) ==
  /\ call[r] # Idle
  /\ Returned(r)
  /\ UNCHANGED <<role, banned, session>>

\* signUpEmail and createUser: an address has one account.
AddUser(r) ==
  /\ call[r].verb \in {"setup", "create"}
  /\ IF role[call[r].on] = Nothing
       THEN Stored([role EXCEPT ![call[r].on] = call[r].to])
       ELSE UNCHANGED role
  /\ Returned(r)
  /\ UNCHANGED <<banned, session>>

\* An update of an account that is gone changes no row.
UpdateRole(r) ==
  /\ call[r].verb = "set-role"
  /\ IF role[call[r].on] # Nothing
       THEN Stored([role EXCEPT ![call[r].on] = call[r].to])
       ELSE UNCHANGED role
  /\ Returned(r)
  /\ UNCHANGED <<banned, session>>

UpdateBan(r) ==
  /\ call[r].verb \in {"ban", "unban"}
  /\ banned' = IF call[r].verb = "ban" /\ role[call[r].on] # Nothing
                 THEN banned \cup {call[r].on}
                 ELSE banned \ {call[r].on}
  /\ Returned(r)
  /\ UNCHANGED <<role, session>>

\* Mutant of DeleteUser: what belongs to the account stays.
DeleteUserAlone(r) ==
  /\ call[r].verb = "remove"
  /\ Stored([role EXCEPT ![call[r].on] = Nothing])
  /\ Returned(r)
  /\ UNCHANGED <<banned, session>>

DeleteUser(r) ==
  /\ call[r].verb = "remove"
  /\ Stored([role EXCEPT ![call[r].on] = Nothing])
  /\ banned' = banned \ {call[r].on}
  /\ Returned(r)
  /\ UNCHANGED session

\* A sign-in, or the end of what the cookie had cached: the account is read.
RefreshSession(p) ==
  /\ session' = [session EXCEPT ![p] = IF p \in banned THEN Nothing ELSE role[p]]
  /\ session' # session
  /\ UNCHANGED <<role, banned, call>>

-----------------------------------------------------------------------------
\* A new request, about one account.
Rule(r) ==
  /\ call[r] = Idle
  /\ \E p \in People :
       \/ bootstrapOwner(r, p)
       \/ \E by \in People :
            \/ \E to \in Roles : create(r, by, p, to) \/ setRole(r, by, p, to)
            \/ \E verb \in {"ban", "unban"} : setBan(r, by, p, verb)
            \/ remove(r, by, p)

Library(r) == Refuse(r) \/ AddUser(r) \/ UpdateRole(r) \/ UpdateBan(r) \/ DeleteUser(r)

AccountsNext ==
  \/ \E r \in Slots : Rule(r) \/ Library(r)
  \/ \E by, p \in People : transferOwnership(by, p)
  \/ \E p \in People : RefreshSession(p)

AccountsSpec == AccountsInit /\ [][AccountsNext]_accountVars

-----------------------------------------------------------------------------
\* What the table, the cookies and the calls in flight hold: only an account
\* that exists is banned, and no call in flight assigns ownership but a setup.
AccountsTypeOK ==
  /\ role \in [People -> Roles \cup {Nothing}]
  /\ banned \subseteq {p \in People : role[p] # Nothing}
  /\ session \in [People -> Roles \cup {Nothing}]
  /\ call \in [Slots -> Calls \cup {Idle}]

\* bootstrapOwner: however many open /setup at once, and whatever an
\* administrator assigns or a transfer moves, there is at most one owner.
OneOwner == UniqueOwner(role)

\* transferOwnership: ownership passes from one person to another only in a
\* session of the one who holds it, which leaves them an administrator.
OwnershipMovesByItsHolder ==
  [][\A p, q \in People :
       p # q /\ role[p] = "owner" /\ role'[q] = "owner" =>
         session[p] = "owner" /\ role'[p] = "admin"]_accountVars

\* refusalForRemoval: once there is an owner there always is one, so that the
\* bootstrap never opens again.
OwnerStays == [][hasOwner => hasOwner']_accountVars
=============================================================================
