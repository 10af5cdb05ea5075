------------------------------ MODULE MCExposure ------------------------------
(* Instances of Exposure for TLC: which services, hostnames and requests.  *)
EXTENDS Exposure, TLC

CONSTANTS pA, pB, web, api, hWeb, hApi, hS1, hS2, hNick, id1, id2

\* Two environments derive the same hostname in turn, which is what guard is there
\* for, and a service with another hostname may take it as an alias meanwhile.
RivalsAndNeighbour ==
  {[name |-> "a-web", project |-> pA, service |-> web, host |-> hWeb],
   [name |-> "b-web", project |-> pB, service |-> web, host |-> hWeb],
   [name |-> "b-api", project |-> pB, service |-> api, host |-> hApi]}

\* Two services of one environment, each with a hostname of its own.
Siblings == {[name |-> "a-web", project |-> pA, service |-> web, host |-> hWeb],
             [name |-> "a-api", project |-> pA, service |-> api, host |-> hApi]}

\* Two environments; the second may take the hostname of the first as an alias
\* while the first is down.
Neighbours == {[name |-> "a-web", project |-> pA, service |-> web, host |-> hWeb],
               [name |-> "b-web", project |-> pB, service |-> web, host |-> hApi]}

HostOfShare == [i \in ShareIds |-> IF i = id1 THEN hS1 ELSE hS2]

\* Slots only name the requests in flight.
Slots == Permutations(Requests)
=============================================================================
