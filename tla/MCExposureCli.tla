----------------------------- MODULE MCExposureCli -----------------------------
(* Instances of ExposureCli for TLC.                                       *)
EXTENDS ExposureCli

CONSTANTS pA, pB, web, api, hWeb, hApi, hS1, hS2, hNick, id1, id2

Siblings == {[name |-> "a-web", project |-> pA, service |-> web, host |-> hWeb],
             [name |-> "a-api", project |-> pA, service |-> api, host |-> hApi]}
WebOnly == {c \in Siblings : c.service = web}

\* Two environments; the second may take the hostname of the first as an alias
\* while the first is down.
Neighbours == {[name |-> "a-web", project |-> pA, service |-> web, host |-> hWeb],
               [name |-> "b-web", project |-> pB, service |-> web, host |-> hApi]}

HostOfShare == [i \in ShareIds |-> IF i = id1 THEN hS1 ELSE hS2]
=============================================================================
