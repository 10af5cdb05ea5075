--------------------------- MODULE MCAdministration ---------------------------
(***************************************************************************)
(* What people with an account do to projects, through the runner, and to  *)
(* each other, and which projects one of them reaches: three parts that    *)
(* share no state, and one behaviour is of one of them.  Projects, people  *)
(* and requests are interchangeable.                                       *)
(***************************************************************************)
EXTENDS Runner, Accounts, Memberships, TLC

CONSTANTS ana, bia, caio,      \* people
          shop, blog           \* projects

VARIABLE scope                 \* "runner", "accounts" or "members"

\* Requests and Slots are the same model values in the instance.  A part has people
\* or projects, so that one permutation may move both: fewer of them to try.
Turn == ana :> bia @@ bia :> caio @@ caio :> ana
Swap == ana :> bia @@ bia :> ana @@ shop :> blog @@ blog :> shop
Everybody == Permutations(Requests) \cup {Turn, Swap}

ScopedInit ==
  /\ Init /\ AccountsInit /\ MembershipsInit /\ scope \in {"runner", "accounts", "members"}
  /\ scope # "members" => memberRole = "developer"

ScopedSpec ==
  /\ ScopedInit
  /\ [][/\ UNCHANGED scope
        /\ \/ scope = "runner" /\ Next /\ UNCHANGED <<accountVars, memberVars>>
           \/ scope = "accounts" /\ AccountsNext /\ UNCHANGED <<vars, memberVars>>
           \/ scope = "members" /\ MembershipsNext /\ UNCHANGED <<vars, accountVars>>
     ]_<<scope, vars, accountVars, memberVars>>
=============================================================================
