---------------------------- MODULE RegistryProofs ----------------------------
(***************************************************************************)
(* The promises of Registry, proved for every set of hostnames, shares and *)
(* credentials: every file its writers make parses, and epochs only grow.  *)
(***************************************************************************)
EXTENDS Registry, ProtectionsProofs

RegistryInv == TypeOK /\ AlwaysParses

LEMMA InitParses == Init => RegistryInv
BY DEF Init, RegistryInv, TypeOK, AlwaysParses, Parses, NoDuplicates

LEMMA NextParses == RegistryInv /\ [Next]_store => RegistryInv'
<1> SUFFICES ASSUME RegistryInv, [Next]_store PROVE RegistryInv'
  OBVIOUS
<1>0. store \in SUBSET Record /\ Parses(store)
  BY DEF RegistryInv, TypeOK, AlwaysParses
<1>1. CASE Set
  <2>1. PICK r \in Record : /\ ~Collides(store, r.host, r.scope)
                            /\ r.mode = "protected" <=> r.hash # None
                            /\ store' = SetProtection(store, r)
    BY <1>1 DEF Set
  <2>2. PICK input \in Input : /\ input.scope = r.scope /\ input.host = r.host
                               /\ input.mode = r.mode /\ input.hash = r.hash
                               /\ store' = SetProtection(store, input)
    BY <2>1, SetProtectionOfRecord
  <2>3. ~Collides(store, input.host, input.scope) /\ (input.mode = "protected" <=> input.hash # None)
    BY <2>1, <2>2
  <2> QED
    BY <1>0, <2>2, <2>3, SetProtectionParses DEF RegistryInv, TypeOK, AlwaysParses
<1>2. CASE Remove
  BY <1>0, <1>2, RemoveProtectionParses DEF Remove, RegistryInv, TypeOK, AlwaysParses
<1>3. CASE UNCHANGED store
  BY <1>3 DEF RegistryInv, TypeOK, AlwaysParses
<1> QED
  BY <1>1, <1>2, <1>3 DEF Next

\* A file that only setProtection and removeProtection change never answers a
\* host or a scope twice, and no protected host in it is without a credential:
\* parseProtectionStore accepts every version of it.
THEOREM RegistryAlwaysParses == Spec => [](TypeOK /\ AlwaysParses)
<1>1. Spec => []RegistryInv
  BY InitParses, NextParses, PTL DEF Spec
<1> QED
  BY <1>1, PTL DEF RegistryInv

\* What one write may do to the epochs: any change to the record of a scope
\* that stays in the file moves its epoch forward.
LEMMA StepAdvances ==
  RegistryInv /\ [Next]_store
    => \A r \in store, s \in store' : r.scope = s.scope => r = s \/ r.epoch < s.epoch
<1> SUFFICES ASSUME RegistryInv, [Next]_store, NEW r \in store, NEW s \in store',
                    r.scope = s.scope
             PROVE  r = s \/ r.epoch < s.epoch
  OBVIOUS
<1>0. store \in SUBSET Record /\ NoDuplicates(store)
  BY DEF RegistryInv, TypeOK, AlwaysParses, Parses
<1>1. CASE Set
  <2>1. PICK input \in Input : store' = SetProtection(store, input)
    BY <1>1, SetProtectionOfRecord DEF Set
  <2>2. PICK t \in Record :
          /\ SetProtection(store, input) = {q \in store : q.scope # input.scope} \cup {t}
          /\ t.scope = input.scope
          /\ t.epoch = NextEpoch(store, input.scope)
    BY <1>0, <2>1, SetProtectionAdds
  <2>3. CASE s \in store
    BY <1>0, <2>3 DEF NoDuplicates
  <2>4. CASE s = t
    BY <1>0, <2>2, <2>4, NextEpochAdvances DEF InScope, Input
  <2> QED
    BY <2>1, <2>2, <2>3, <2>4
<1>2. CASE Remove
  BY <1>0, <1>2 DEF Remove, RemoveProtection, NoDuplicates
<1>3. CASE UNCHANGED store
  BY <1>0, <1>3 DEF NoDuplicates
<1> QED
  BY <1>1, <1>2, <1>3 DEF Next

\* While a scope stays in the file its epoch only grows, so a session cookie of
\* an earlier credential of it never matches again (apps/auth/src/app.ts, verify).
THEOREM EpochsOnlyGrow == Spec => EpochsAdvance
<1>1. Spec => []RegistryInv
  BY InitParses, NextParses, PTL DEF Spec
<1>2. RegistryInv /\ [Next]_store
        => [\A r \in store, s \in store' : r.scope = s.scope => r = s \/ r.epoch < s.epoch]_store
  BY StepAdvances
<1> QED
  BY <1>1, <1>2, PTL DEF Spec, EpochsAdvance
=============================================================================
