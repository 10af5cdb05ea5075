----------------------------- MODULE AccessBridges -----------------------------
(***************************************************************************)
(* The loopback bridges into a project's private network: openBridge and   *)
(* closeBridge of the panel (packages/server/src/services/access.ts, behind *)
(* POST and DELETE /access) and portta access open, close and gc           *)
(* (packages/cli/src/commands/access.ts).                                  *)
(*                                                                         *)
(* A bridge is a container whose labels name the service it reaches, made  *)
(* and started by two calls to Docker and never started again (restart     *)
(* "no", and the panel's container actions refuse it).  No lock is held    *)
(* between reading which bridges there are and acting on it.               *)
(***************************************************************************)
EXTENDS Naturals, FiniteSets

CONSTANTS Targets,      \* the services a bridge may reach
          BridgeIds,    \* naturals: the containers, as they are made
          Requests,     \* naturals: the requests, as they arrive
          NoTarget      \* no service

ASSUME NoTargetAssumption == NoTarget \notin Targets

VARIABLES up,           \* the services with a running container
          reaches,      \* the service on the label of each bridge
          bridge,       \* what Docker says of it
          timed,        \* the bridges with a time to live
          late,         \* those of them whose portta.access.expires has passed
          asked,        \* what each request is at
          overlapped    \* whether two requests were ever under way at once (for a property)

bridgeVars == <<up, reaches, bridge, timed, late, asked, overlapped>>

BridgeSteps == {"new", "create", "start", "settle", "remove", "done"}
Answers == {"none", "opened", "failed", "closed"}
BridgeRequest ==
  [by : {"nobody", "panel", "portta"}, service : Targets \cup {NoTarget},
   ttl : BOOLEAN, list : SUBSET BridgeIds, step : BridgeSteps, answer : Answers]
NotAsked ==
  [by |-> "nobody", service |-> NoTarget, ttl |-> FALSE, list |-> {}, step |-> "new",
   answer |-> "none"]

BridgesInit ==
  /\ up \in SUBSET Targets
  /\ reaches = [b \in BridgeIds |-> NoTarget] /\ bridge = [b \in BridgeIds |-> "none"]
  /\ timed = {} /\ late = {} /\ overlapped = FALSE
  /\ asked = [q \in Requests |-> NotAsked]

\* Types: a bridge has a label once it is made, and a deadline only if it was given one.
BridgesTypeOK ==
  /\ up \subseteq Targets
  /\ reaches \in [BridgeIds -> Targets \cup {NoTarget}]
  /\ bridge \in [BridgeIds -> {"none", "created", "running", "exited", "gone"}]
  /\ late \subseteq timed /\ timed \subseteq BridgeIds
  /\ asked \in [Requests -> BridgeRequest]
  /\ \A b \in BridgeIds : bridge[b] = "none" <=> reaches[b] = NoTarget

-----------------------------------------------------------------------------
(* Opening.                                                                *)

Listed == {b \in BridgeIds : bridge[b] \in {"created", "running", "exited"}}
Running == {b \in BridgeIds : bridge[b] = "running"}

\* Mutant of ExistingBridges: portta does not look for a bridge there is.
ExistingForPanelOnly(by, s) ==
  IF by = "panel" THEN {b \in Listed : reaches[b] = s} ELSE {}

\* The panel's snapshot holds every container, and listBridges takes them whatever
\* their state; portta lists what runs (inspectContainers(false)).
ExistingBridges(by, s) == {b \in IF by = "panel" THEN Listed ELSE Running : reaches[b] = s}

UnderWay == {q \in Requests : asked[q].step \notin {"new", "done"}}

\* A request arrives, reads what there is and goes on with step, or is answered.
Arrive(q, to) ==
  /\ asked[q].step = "new" /\ \A p \in Requests : p < q => asked[p].step # "new"
  /\ asked' = [asked EXCEPT ![q] = to]
  /\ overlapped' = (overlapped \/ UnderWay # {})
  /\ UNCHANGED <<up, reaches, bridge, timed, late>>

Answered(r, answer) == [r EXCEPT !.step = "done", !.answer = answer]

\* A bridge that exists is the answer of the panel before it looks at the service;
\* portta looks for a running container of the service first.  Without one the request
\* is refused: nothing runs, or nobody can tell which port or network was meant.
OpenAsked(q, by, s, ttl) ==
  LET r == [NotAsked EXCEPT !.by = by, !.service = s, !.ttl = ttl]
      reachable == s \in up
  IN \/ /\ ExistingBridges(by, s) = {} \/ (by = "portta" /\ ~reachable)
        /\ Arrive(q, Answered(r, "failed"))
     \/ /\ by = "portta" => reachable
        /\ \E b \in ExistingBridges(by, s) : Arrive(q, Answered([r EXCEPT !.list = {b}], "opened"))
     \/ /\ ExistingBridges(by, s) = {} /\ reachable
        /\ Arrive(q, [r EXCEPT !.step = "create"])

Goes(q, to) ==
  /\ asked' = [asked EXCEPT ![q] = to]
  /\ UNCHANGED <<up, late, overlapped>>

\* Mutant of Create: the labels are left for later.
CreateUnlabelled(q) ==
  LET r == asked[q]
  IN /\ r.step = "create"
     /\ \E b \in BridgeIds :
          /\ bridge[b] = "none" /\ bridge' = [bridge EXCEPT ![b] = "created"]
          /\ Goes(q, [r EXCEPT !.step = "start", !.list = {b}])
     /\ UNCHANGED <<reaches, timed>>

\* The container is made with its labels, the deadline among them.  Docker may
\* refuse: the image may not be there.
Create(q) ==
  LET r == asked[q]
  IN /\ r.step = "create"
     /\ \/ \E b \in BridgeIds :
             /\ bridge[b] = "none" /\ \A c \in BridgeIds : c < b => bridge[c] # "none"
             /\ bridge' = [bridge EXCEPT ![b] = "created"]
             /\ reaches' = [reaches EXCEPT ![b] = r.service]
             /\ timed' = IF r.ttl THEN timed \cup {b} ELSE timed
             /\ Goes(q, [r EXCEPT !.step = "start", !.list = {b}])
        \/ Goes(q, Answered(r, "failed")) /\ UNCHANGED <<bridge, reaches, timed>>

\* The second call.  It fails when the local port is taken, or when somebody removed
\* the container meanwhile, and nobody removes what it leaves.
Start(q) ==
  LET r == asked[q]
  IN /\ r.step = "start"
     /\ \/ \E b \in r.list :
             /\ bridge[b] = "created"
             /\ bridge' = [bridge EXCEPT ![b] = "running"]
             /\ Goes(q, [r EXCEPT !.step = "settle"])
        \/ Goes(q, Answered(r, "failed")) /\ UNCHANGED bridge
     /\ UNCHANGED <<reaches, timed>>

\* Mutant of LooksOpen: portta asks whether it exited, as the panel does, and a
\* bridge that is gone did not.
LooksOpenUnlessExited(by, b) == bridge[b] # "exited"

\* After the settling time.  To the panel a container it cannot inspect, because it
\* was removed, is one it has nothing against; portta wants to see it running.
LooksOpen(by, b) == bridge[b] = "running" \/ (by = "panel" /\ bridge[b] = "gone")

\* What does not look open is removed, unless Docker refuses that too.
Settle(q) ==
  LET r == asked[q]
  IN /\ r.step = "settle"
     /\ \E b \in r.list :
          \/ LooksOpen(r.by, b) /\ Goes(q, Answered(r, "opened")) /\ UNCHANGED bridge
          \/ /\ ~LooksOpen(r.by, b)
             /\ bridge' \in {bridge, [bridge EXCEPT ![b] = "gone"]}
             /\ Goes(q, Answered(r, "failed"))
     /\ UNCHANGED <<reaches, timed>>

-----------------------------------------------------------------------------
(* Closing and collecting.                                                 *)

\* closeBridge finds one id in the snapshot; portta closes an id, a project's, or all.
CloseAsked(q, by) ==
  \E chosen \in SUBSET Listed :
    /\ by = "panel" => Cardinality(chosen) <= 1
    /\ Arrive(q, [NotAsked EXCEPT !.by = by, !.list = chosen,
                   !.step = IF chosen = {} THEN "done" ELSE "remove",
                   !.answer = IF chosen = {} /\ by = "panel" THEN "failed" ELSE "closed"])

\* accessGc: not running, past its deadline, or for a service that does not run.
Stale == {b \in Listed : bridge[b] # "running" \/ b \in late \/ reaches[b] \notin up}

CollectAsked(q) ==
  Arrive(q, [NotAsked EXCEPT !.by = "portta", !.list = Stale,
              !.step = IF Stale = {} THEN "done" ELSE "remove", !.answer = "closed"])

\* One `rm -f` after the other, of what was listed: what each is by now is not asked
\* beyond that it is there and Portta's.
RemoveListed(q) ==
  LET r == asked[q]
  IN /\ r.step = "remove"
     /\ \E b \in r.list :
          /\ bridge' = [bridge EXCEPT ![b] = "gone"]
          /\ Goes(q, [r EXCEPT !.list = @ \ {b},
                       !.step = IF r.list = {b} THEN "done" ELSE "remove",
                       !.answer = IF r.by = "panel" /\ bridge[b] = "gone" THEN "failed" ELSE @])
     /\ UNCHANGED <<reaches, timed>>

-----------------------------------------------------------------------------
(* What else happens.                                                      *)

\* A container of the service starts or stops.
ServiceTurns(s) ==
  /\ up' = IF s \in up THEN up \ {s} ELSE up \cup {s}
  /\ UNCHANGED <<reaches, bridge, timed, late, asked, overlapped>>

\* A bridge exits: its time is over, Docker stopped, the forwarder failed.
BridgeEnds(b) ==
  /\ b \in Running
  /\ bridge' = [bridge EXCEPT ![b] = "exited"]
  /\ UNCHANGED <<up, reaches, timed, late, asked, overlapped>>

\* The deadline on the label passes, which the container outlives by as long as it
\* took to be started.
DeadlinePasses(b) ==
  /\ b \in timed \ late
  /\ late' = late \cup {b}
  /\ UNCHANGED <<up, reaches, bridge, timed, asked, overlapped>>

BridgesNext ==
  \/ \E q \in Requests :
       \/ \E by \in {"panel", "portta"} :
            \/ \E s \in Targets, ttl \in BOOLEAN : OpenAsked(q, by, s, ttl)
            \/ CloseAsked(q, by)
       \/ CollectAsked(q) \/ Create(q) \/ Start(q) \/ Settle(q) \/ RemoveListed(q)
  \/ \E s \in Targets : ServiceTurns(s)
  \/ \E b \in BridgeIds : BridgeEnds(b) \/ DeadlinePasses(b)

BridgesSpec == BridgesInit /\ [][BridgesNext]_bridgeVars

-----------------------------------------------------------------------------
(* Properties.                                                             *)

\* Requests that never overlap leave at most one running bridge to a service,
\* whichever of the panel and portta made it: both find what the other opened.
AloneOneRuns ==
  ~overlapped =>
    \A b, c \in Running : reaches[b] = reaches[c] => b = c

SaysOpened(q) == asked[q].answer # "opened" /\ asked'[q].answer = "opened"
OpensForReal(by) ==
  \A q \in Requests :
    SaysOpened(q) /\ asked'[q].by = by =>
      \E b \in asked'[q].list : bridge'[b] = "running"

\* portta says a bridge is open only while it runs, whatever anybody did to the
\* container between its two calls and its look at the result.
PorttaOpensForReal == [][OpensForReal("portta")]_bridgeVars

\* The panel does too, as long as requests come one after the other: "A bridge that
\* cannot reach its target should fail loudly, not look open"
\* (packages/server/src/services/access.ts).
PanelOpensForReal == [][~overlapped' => OpensForReal("panel")]_bridgeVars
=============================================================================
