--------------------------- MODULE ProtectionsProofs ---------------------------
(***************************************************************************)
(* What the two pure operations on the registry preserve: lemmas about the *)
(* operators of Protections, cited by the proofs about their writers.      *)
(***************************************************************************)
EXTENDS Protections, TLAPS

\* The epoch setProtection gives is a positive number past the epoch of the
\* record it replaces (packages/core/src/protections.ts, setProtection).
LEMMA NextEpochAdvances ==
  ASSUME NEW store \in SUBSET Record, NoDuplicates(store), NEW scope \in Scopes
  PROVE  /\ NextEpoch(store, scope) \in Nat
         /\ NextEpoch(store, scope) >= 1
         /\ \A r \in InScope(store, scope) : r.epoch < NextEpoch(store, scope)
<1>1. CASE InScope(store, scope) = {}
  BY <1>1 DEF NextEpoch
<1>2. CASE InScope(store, scope) # {}
  <2> DEFINE r == CHOOSE q \in InScope(store, scope) : TRUE
  <2>1. r \in InScope(store, scope)
    BY <1>2
  <2>2. r \in Record /\ r.epoch \in Nat
    BY <2>1 DEF InScope, Record
  <2>3. \A q \in InScope(store, scope) : q = r
    BY <2>1 DEF InScope, NoDuplicates
  <2>4. NextEpoch(store, scope) = r.epoch + 1
    BY <1>2 DEF NextEpoch
  <2> HIDE DEF r
  <2> QED
    BY <2>2, <2>3, <2>4
<1> QED
  BY <1>1, <1>2

\* The record setProtection adds.
LEMMA SetProtectionAdds ==
  ASSUME NEW store \in SUBSET Record, NoDuplicates(store), NEW input \in Input
  PROVE  \E r \in Record :
           /\ SetProtection(store, input) = {q \in store : q.scope # input.scope} \cup {r}
           /\ r.scope = input.scope /\ r.host = input.host
           /\ r.mode = input.mode /\ r.hash = input.hash
           /\ r.project = input.project /\ r.service = input.service
           /\ r.epoch = NextEpoch(store, input.scope)
<1> DEFINE r == [scope |-> input.scope, host |-> input.host, mode |-> input.mode,
                 hash |-> input.hash, epoch |-> NextEpoch(store, input.scope),
                 project |-> input.project, service |-> input.service]
<1>1. NextEpoch(store, input.scope) \in Nat
  BY NextEpochAdvances DEF Input
<1>2. r \in Record
  BY <1>1 DEF Input, Record
<1>3. SetProtection(store, input) = {q \in store : q.scope # input.scope} \cup {r}
  BY DEF SetProtection
<1> QED
  BY <1>2, <1>3

\* A record is an input with an epoch, which setProtection does not read.
LEMMA SetProtectionOfRecord ==
  ASSUME NEW r \in Record
  PROVE  \E input \in Input :
           /\ input.scope = r.scope /\ input.host = r.host
           /\ input.mode = r.mode /\ input.hash = r.hash
           /\ \A s : SetProtection(s, r) = SetProtection(s, input)
<1> DEFINE input == [scope |-> r.scope, host |-> r.host, mode |-> r.mode, hash |-> r.hash,
                     project |-> r.project, service |-> r.service]
<1>1. input \in Input
  BY DEF Record, Input
<1>2. \A s : SetProtection(s, r) = SetProtection(s, input)
  BY DEF SetProtection
<1> QED
  BY <1>1, <1>2

\* What setProtection was given stands in the file it leaves, and setting it
\* again on the same file says the same.
LEMMA SetProtectionLeaves ==
  ASSUME NEW store \in SUBSET Record, NoDuplicates(store), NEW input \in Input
  PROVE  \E r \in SetProtection(store, input) :
           /\ r \in Record
           /\ r.scope = input.scope /\ r.host = input.host
           /\ r.mode = input.mode /\ r.hash = input.hash
           /\ SetProtection(store, r) = SetProtection(store, input)
<1>1. PICK r \in Record :
        /\ SetProtection(store, input) = {q \in store : q.scope # input.scope} \cup {r}
        /\ r.scope = input.scope /\ r.host = input.host
        /\ r.mode = input.mode /\ r.hash = input.hash
        /\ r.project = input.project /\ r.service = input.service
  BY SetProtectionAdds
<1>2. SetProtection(store, r) = SetProtection(store, input)
  BY <1>1 DEF SetProtection
<1> QED
  BY <1>1, <1>2

\* setProtection of a file that parses gives a file that parses, once it has
\* refused the host another scope answers for.
LEMMA SetProtectionParses ==
  ASSUME NEW store \in SUBSET Record, Parses(store), NEW input \in Input,
         ~Collides(store, input.host, input.scope),
         input.mode = "protected" <=> input.hash # None
  PROVE  /\ SetProtection(store, input) \subseteq Record
         /\ Parses(SetProtection(store, input))
<1>1. NoDuplicates(store)
  BY DEF Parses
<1>2. PICK r \in Record :
        /\ SetProtection(store, input) = {q \in store : q.scope # input.scope} \cup {r}
        /\ r.scope = input.scope /\ r.host = input.host
        /\ r.mode = input.mode /\ r.hash = input.hash
        /\ r.epoch = NextEpoch(store, input.scope)
  BY <1>1, SetProtectionAdds
<1>3. WellFormed(r)
  BY <1>1, <1>2, NextEpochAdvances DEF WellFormed, Input
<1>4. \A q \in store : q.scope # input.scope => q.host # r.host
  BY <1>2 DEF Collides, ForHost
<1>5. NoDuplicates(SetProtection(store, input))
  BY <1>1, <1>2, <1>4 DEF NoDuplicates
<1> QED
  BY <1>2, <1>3, <1>5 DEF Parses

\* removeProtection leaves a file that parses.
LEMMA RemoveProtectionParses ==
  ASSUME NEW store \in SUBSET Record, Parses(store), NEW scope
  PROVE  /\ RemoveProtection(store, scope) \subseteq Record
         /\ Parses(RemoveProtection(store, scope))
BY DEF RemoveProtection, Parses, NoDuplicates
=============================================================================
