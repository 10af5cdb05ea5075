--------------------------- MODULE MCExposureScopes ---------------------------
(***************************************************************************)
(* Exposure in two scopes, each an instance of its own over the same       *)
(* variables: what one run checks is the union of their states, and its    *)
(* properties are those of the instance with every constant at its         *)
(* largest.                                                                *)
(***************************************************************************)
EXTENDS MCExposure

VARIABLE scope       \* which of the two this behaviour is of

\* Who may decide about a hostname two environments derive in turn, and who may
\* take it as an alias meanwhile.
Deciding == INSTANCE Exposure
  WITH Containers <- RivalsAndNeighbour, AliasHosts <- {hWeb}, Hosts <- {hWeb, hApi},
       ShareIds <- {}, Hashes <- {1}, Ttls <- {1}, MaxNow <- 0,
       Kinds <- {"protect", "open", "close", "alias", "unalias"}

\* Temporary shares of two services, two of them in flight.
Sharing == INSTANCE Exposure
  WITH Containers <- Siblings, Kinds <- {"create", "create-public", "regenerate", "revoke"}

Everything == RivalsAndNeighbour \cup Siblings

ScopedInit == Init /\ scope \in {"deciding", "sharing"}

ScopedSpec ==
  /\ ScopedInit
  /\ [][/\ UNCHANGED scope
        /\ \/ scope = "deciding" /\ Deciding!Next
           \/ scope = "sharing" /\ Sharing!Next]_<<vars, scope>>
=============================================================================
