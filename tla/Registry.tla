------------------------------- MODULE Registry -------------------------------
(***************************************************************************)
(* What the registry promises its readers: whoever writes it, and however  *)
(* long hashing a password took before the write, the file changes by one  *)
(* setProtection or one removeProtection of its CURRENT contents.  Nothing *)
(* else is ever put back, dropped or rewound by a write.                   *)
(***************************************************************************)
EXTENDS Protections

VARIABLE store     \* the parsed contents of state/auth/protections.json

Init == store = {}

\* What a write was given stands in the file it leaves.
Set == \E r \in store' :
         /\ r \in Record
         /\ ~Collides(store, r.host, r.scope)
         /\ r.mode = "protected" <=> r.hash # None
         /\ store' = SetProtection(store, r)

Remove == \E scope \in Scopes : store' = RemoveProtection(store, scope)

\* A removal of what is not there changes nothing, and is a stutter.
Next == store' # store /\ (Set \/ Remove)

Spec == Init /\ [][Next]_store
-----------------------------------------------------------------------------
(* A file on which Set and Remove are ever applied keeps parsing: no reader *)
(* meets a store that answers a host or a scope twice, or a protected host  *)
(* without a credential.                                                    *)
TypeOK == store \subseteq Record
AlwaysParses == Parses(store)

(* While a scope stays in the file its epoch only grows, and any change to  *)
(* the record moves it: a session made for an earlier epoch cannot match.   *)
EpochsAdvance ==
  [][\A r \in store, s \in store' : r.scope = s.scope => r = s \/ r.epoch < s.epoch]_store
=============================================================================
