------------------------------ MODULE Memberships ------------------------------
(***************************************************************************)
(* Which Projects one account reaches: setProjects, and what create,       *)
(* setRole, transferOwnership and remove do to the rows of project_members *)
(* (packages/server/src/services/users.ts).                                *)
(*                                                                         *)
(* Accounts judges who may do what to whom; here every request has been    *)
(* judged, and what matters is that each is several statements with awaits *)
(* between them and no transaction around them.                            *)
(***************************************************************************)
EXTENDS Naturals

CONSTANTS Grantable,    \* the Projects that exist
          Changes       \* naturals: the requests, as they arrive

NoRole == "none"

VARIABLES memberRole,   \* of the account: NoRole before it exists and after it is gone
          member,       \* its rows in project_members
          change,       \* [Changes -> what each is at]
          undisturbed   \* no two requests were under way at once and none was cut off (for the properties)

memberVars == <<memberRole, member, change, undisturbed>>

\* Owners and administrators are alike here, and so are developers and viewers.
MemberRoles == {"admin", "developer"}
ChangeSteps == {"new", "create", "write", "ask", "read", "insert", "delete", "clear", "done", "failed"}
Change == [to : MemberRoles \cup {NoRole}, wanted : SUBSET Grantable, held : SUBSET Grantable, step : ChangeSteps]

MembershipsInit ==
  /\ memberRole \in MemberRoles \cup {NoRole} /\ member = {} /\ undisturbed = TRUE
  /\ change = [r \in Changes |-> [to |-> NoRole, wanted |-> {}, held |-> {}, step |-> "new"]]

UnderWay == {r \in Changes : change[r].step \notin {"new", "done", "failed"}}

\* A row without an account does not exist, whatever raced its removal.
MembershipsTypeOK ==
  /\ memberRole \in MemberRoles \cup {NoRole} /\ member \subseteq Grantable
  /\ change \in [Changes -> Change] /\ undisturbed \in BOOLEAN
  /\ memberRole = NoRole => member = {}

-----------------------------------------------------------------------------
Goes(r, step) ==
  change' = [change EXCEPT ![r].step = step]

\* A new request, with what it asks.
Arrive(r, to, wanted, step) ==
  /\ change[r].step = "new" /\ \A q \in Changes : q < r => change[q].step # "new"
  /\ change' = [change EXCEPT ![r] = [to |-> to, wanted |-> wanted, held |-> {}, step |-> step]]
  /\ undisturbed' = (undisturbed /\ UnderWay = {})
  /\ UNCHANGED <<memberRole, member>>

\* Mutant of Ask: administrators are given a list too.
AskAnybody(r) ==
  /\ change[r].step = "ask"
  /\ Goes(r, IF memberRole = NoRole THEN "failed" ELSE "read")
  /\ UNCHANGED <<memberRole, member, undisturbed>>

\* setProjects reads its target: there is none, or one that sees every Project.
Ask(r) ==
  /\ change[r].step = "ask"
  /\ Goes(r, IF memberRole = "developer" THEN "read" ELSE "failed")
  /\ UNCHANGED <<memberRole, member, undisturbed>>

\* Then the rows there are.
Read(r) ==
  /\ change[r].step = "read"
  /\ change' = [change EXCEPT ![r].held = member, ![r].step = "insert"]
  /\ UNCHANGED <<memberRole, member, undisturbed>>

\* Mutant of Insert: no reference to the account.
InsertUnreferenced(r) ==
  LET added == change[r].wanted \ change[r].held
  IN /\ change[r].step = "insert" /\ added \cap member = {}
     /\ Goes(r, "delete") /\ member' = member \cup added
     /\ UNCHANGED <<memberRole, undisturbed>>

\* One insert of all the rows that were missing.  A row somebody inserted meanwhile
\* (the primary key) or an account that is gone (the reference) refuses them all.
Insert(r) ==
  LET added == change[r].wanted \ change[r].held
  IN /\ change[r].step = "insert"
     /\ IF added # {} /\ (memberRole = NoRole \/ added \cap member # {})
          THEN Goes(r, "failed") /\ UNCHANGED member
          ELSE Goes(r, "delete") /\ member' = member \cup added
     /\ UNCHANGED <<memberRole, undisturbed>>

\* Mutant of Delete: what it held goes, and not only what is no longer wanted.
DeleteHeld(r) ==
  /\ change[r].step = "delete"
  /\ member' = member \ change[r].held
  /\ Goes(r, "done")
  /\ UNCHANGED <<memberRole, undisturbed>>

\* Mutant of Delete: rows are only ever added.
DeleteNothing(r) ==
  /\ change[r].step = "delete"
  /\ Goes(r, "done")
  /\ UNCHANGED <<memberRole, member, undisturbed>>

\* And one delete of the rows it read that are not wanted.
Delete(r) ==
  /\ change[r].step = "delete"
  /\ member' = member \ (change[r].held \ change[r].wanted)
  /\ Goes(r, "done")
  /\ UNCHANGED <<memberRole, undisturbed>>

\* A new account, and then the Projects it was asked for.  An address has one account.
Create(r) ==
  /\ change[r].step = "create"
  /\ IF memberRole = NoRole
       THEN memberRole' = change[r].to /\ Goes(r, IF change[r].wanted = {} THEN "done" ELSE "ask")
       ELSE UNCHANGED memberRole /\ Goes(r, "failed")
  /\ UNCHANGED <<member, undisturbed>>

\* The write of a role, by the library or by a transfer.  The rows of somebody who sees
\* every Project go in a statement of their own.
Write(r) ==
  /\ change[r].step = "write"
  /\ memberRole' = IF memberRole = NoRole THEN NoRole ELSE change[r].to
  /\ Goes(r, CASE memberRole = NoRole -> "failed"
               [] memberRole # NoRole /\ change[r].to = "admin" -> "clear"
               [] OTHER -> "done")
  /\ UNCHANGED <<member, undisturbed>>

Clear(r) ==
  /\ change[r].step = "clear"
  /\ member' = {}
  /\ Goes(r, "done")
  /\ UNCHANGED <<memberRole, undisturbed>>

\* The rows reference the account and go with it.
RemoveAccount ==
  /\ memberRole # NoRole /\ memberRole' = NoRole /\ member' = {}
  /\ undisturbed' = (undisturbed /\ UnderWay = {})
  /\ UNCHANGED change

\* The panel stops, or the session does not verify.
Cut(r) ==
  /\ r \in UnderWay
  /\ Goes(r, "failed")
  /\ undisturbed' = FALSE
  /\ UNCHANGED <<memberRole, member>>

MembershipsNext ==
  \/ \E r \in Changes :
       \/ \E wanted \in SUBSET Grantable :
            \/ Arrive(r, NoRole, wanted, "ask")
            \/ \E to \in MemberRoles : Arrive(r, to, wanted, "create")
       \/ \E to \in MemberRoles : Arrive(r, to, {}, "write")
       \/ Ask(r) \/ Read(r) \/ Insert(r) \/ Delete(r)
       \/ Create(r) \/ Write(r) \/ Clear(r) \/ Cut(r)
  \/ RemoveAccount

MembershipsSpec == MembershipsInit /\ [][MembershipsNext]_memberVars

-----------------------------------------------------------------------------
(* Properties.                                                             *)

\* "The whole list, every time" (packages/server/src/api/routes/users.ts): a list that
\* nobody raced is what the account reaches when it is answered, whatever it held.
\* Of two lists at once neither may be: the rows one of them read are not those it
\* changes.
AloneListIsWhole ==
  [][\A r \in Changes :
       /\ undisturbed /\ change[r].step # "done" /\ change'[r].step = "done"
       /\ change[r].to = NoRole \/ change[r].wanted # {}
       => member' = change[r].wanted]_memberVars

\* "A role that no longer sees every Project keeps no stale memberships, and one that
\* sees everything has no use for them" (setRole): as long as no two requests overlap
\* and none is cut off, an administrator holds no row that a demotion would bring back.
AloneAdministratorsHoldNone ==
  undisturbed /\ UnderWay = {} /\ memberRole = "admin" => member = {}

\* A Project that every list under way names is never out of the account's reach in
\* between: the rows are changed by their difference ("A diff rather than a set of adds
\* and removes"), unless a role that has no use for them or a removal takes them all.
KeptThroughout ==
  [][\A p \in member :
       /\ memberRole' = "developer"
       /\ \A r \in UnderWay : change[r].step # "clear" /\ (change[r].step = "write" \/ p \in change[r].wanted)
       => p \in member']_memberVars
=============================================================================
