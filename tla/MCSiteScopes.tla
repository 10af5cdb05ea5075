----------------------------- MODULE MCSiteScopes -----------------------------
(***************************************************************************)
(* SiteAccess in four scopes, each an instance of its own over the same    *)
(* variables: what one run checks is the union of their states, and its    *)
(* properties are those of the instance with every constant at its         *)
(* largest.  The actions on the containers of an environment and the       *)
(* bridges into it, which share no state with it, are two more scopes.     *)
(***************************************************************************)
EXTENDS MCSiteAccess, MCLayouts, EnvironmentActions, AccessBridges

VARIABLE scope     \* "lasting", "entry", "respent", "losing", "environment" or "bridges"

\* One browser, whose password attempts and tokens race what is decided about the
\* hostname, with a login service that forgets what was spent.
Lasting == INSTANCE SiteAccess
  WITH People <- {ada}, TokenIds <- {1}, StateIds <- {3}, Ways <- {"password", "panel"},
       MaxNow <- 1

\* Two browsers, the addresses sent from one to the other, with and without a token,
\* and followed twice.
Entry == INSTANCE SiteAccess
  WITH Hashes <- {1}, Ways <- {"panel"}, Restarts <- FALSE, MaxEpoch <- 1, MaxNow <- 1

\* The same, with a login service that forgets what was spent.
Respent == INSTANCE SiteAccess
  WITH TokenIds <- {1}, Hashes <- {1}, Ways <- {"panel"}, MaxEpoch <- 1, MaxNow <- 1

\* A person who loses the right to the project, by each of the ways there are.
Losing == INSTANCE SiteAccess
  WITH People <- {ada}, TokenIds <- {1}, StateIds <- {3}, Hashes <- {1},
       Ways <- {"panel", "lose"}, MaxInFlight <- 1, MaxEpoch <- 1

\* Who may see the project, each in another way, and never removed from it but in
\* the scope that is about it: an administrator, one a list left a row, a member.
Standing(role, row) == [role |-> role, banned |-> FALSE, row |-> row]
Standings == {Standing("all", FALSE), Standing("all", TRUE), Standing("some", TRUE)}

\* The one environment of the behaviours that are of another scope.
Untouched ==
  /\ service = <<1, 2, 3>> /\ dependsOn = {}
  /\ kind = [c \in Containers |-> "service"] /\ docker = [c \in Containers |-> "running"]

ScopedInit ==
  /\ Init /\ EnvironmentInit /\ BridgesInit
  /\ scope \in {"lasting", "entry", "respent", "losing", "environment", "bridges"}
  /\ account[bob] = Standing("some", TRUE) /\ account[ada] \in Standings
  /\ scope # "losing" => account[ada] = Standing("all", FALSE)
  /\ scope # "environment" => Untouched
  /\ Cardinality({c \in Containers : kind[c] # "service"}) <= 1   \* a bound
  /\ scope # "bridges" => up = {}

ScopedSpec ==
  /\ ScopedInit
  /\ [][/\ UNCHANGED scope
        /\ \/ scope = "lasting" /\ Lasting!Next /\ UNCHANGED <<environmentVars, bridgeVars>>
           \/ scope = "entry" /\ Entry!Next /\ UNCHANGED <<environmentVars, bridgeVars>>
           \/ scope = "respent" /\ Respent!Next /\ UNCHANGED <<environmentVars, bridgeVars>>
           \/ scope = "losing" /\ Losing!Next /\ UNCHANGED <<environmentVars, bridgeVars>>
           \/ scope = "environment" /\ EnvironmentNext /\ UNCHANGED <<vars, bridgeVars>>
           \/ scope = "bridges" /\ BridgesNext /\ UNCHANGED <<vars, environmentVars>>
     ]_<<scope, vars, environmentVars, bridgeVars>>
=============================================================================
