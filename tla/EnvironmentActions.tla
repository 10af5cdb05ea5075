-------------------------- MODULE EnvironmentActions --------------------------
(***************************************************************************)
(* Starting, stopping, restarting and removing what exists: the panel's    *)
(* runProjectAction, runContainerAction and removeContainer                *)
(* (packages/server/src/services/actions.ts) and portta's projectAction    *)
(* (packages/cli/src/commands/projects.ts), over the dependency order of   *)
(* packages/core/src/project-order.ts.                                     *)
(*                                                                         *)
(* A request decides on a list of containers it read before and then calls *)
(* Docker once per container, while containers end, start and go for       *)
(* reasons of their own.  Containers are numbered as Docker lists them,    *)
(* services as their names sort.                                           *)
(***************************************************************************)
EXTENDS Naturals, FiniteSets, FiniteSetsExt, SequencesExt

CONSTANTS Containers,    \* a set of naturals: one environment
          Layouts,       \* the services the containers may be of
          Graphs,        \* the dependencies the services may declare
          MaxDisturbed   \* bound on what happens to containers meanwhile

ASSUME ContainersAssumption == Containers \subseteq Nat /\ IsFiniteSet(Containers)
ASSUME LayoutsAssumption == Layouts \subseteq [Containers -> Nat]
ASSUME GraphsAssumption == Graphs \subseteq SUBSET (Nat \X Nat)
ASSUME MaxDisturbedAssumption == MaxDisturbed \in Nat

VARIABLES service,    \* com.docker.compose.service of each container
          dependsOn,  \* <<s, t>>: the label of s names t
          kind,       \* a service, a `compose run`, or of Portta itself
          docker,     \* what each container does
          seen,       \* the snapshot, and what runOne made of it since
          request,    \* who asked for what, or nobody yet
          plan,       \* the steps that are left of it
          results,    \* what was answered per step
          disturbed,  \* how often something else changed a container
          before      \* what each did when the request was made (for the properties)

layout == <<service, dependsOn, kind>>
environmentVars == <<layout, docker, seen, request, plan, results, disturbed, before>>

ContainerStates == {"running", "exited", "gone"}
Verbs == {"start", "stop", "restart", "remove"}
Step == [verb : Verbs, container : Containers, force : BOOLEAN]
Result == [verb : Verbs, container : Containers, ok : BOOLEAN, skipped : BOOLEAN]
Nobody == [by |-> "nobody", action |-> "none"]

EnvironmentInit ==
  /\ service \in Layouts /\ dependsOn \in Graphs
  /\ kind \in [Containers -> {"service", "oneOff", "portta"}]
  /\ docker \in [Containers -> {"running", "exited"}]
  /\ seen = docker /\ before = docker
  /\ request = Nobody /\ plan = <<>> /\ results = <<>> /\ disturbed = 0

EnvironmentTypeOK ==
  /\ service \in Layouts /\ dependsOn \in Graphs
  /\ {docker, seen, before} \subseteq [Containers -> ContainerStates]
  /\ request.by \in {"nobody", "panel", "portta"}
  /\ plan \in Seq(Step) /\ results \in Seq(Result)
  /\ disturbed \in 0..MaxDisturbed

-----------------------------------------------------------------------------
(* orderProjectServices, on the containers in members.                     *)

Key(c) == service[c]
Keys(members) == {Key(c) : c \in members}

\* Mutant of Edges: a stop takes the order of a start.
EdgesOneWay(members, direction) ==
  {<<e[2], e[1]>> : e \in {e \in dependsOn : {e[1], e[2]} \subseteq Keys(members)}}

\* The edges point from what is acted on first: a dependency before its dependent
\* for a start, the other way round for a stop.  A service nobody runs is no node.
Edges(members, direction) ==
  {<<IF direction = "start" THEN e[2] ELSE e[1],
     IF direction = "start" THEN e[1] ELSE e[2]>> :
     e \in {e \in dependsOn : {e[1], e[2]} \subseteq Keys(members)}}

Ready(edges, keys, done) == {k \in keys \ done : \A e \in edges : e[2] = k => e[1] \in done}

\* Kahn's algorithm: of the services nothing holds back any more, the first by name.
Extended(edges, keys, sofar) ==
  LET next == Ready(edges, keys, ToSet(sofar))
  IN IF next = {} THEN sofar ELSE Append(sofar, Min(next))

OrderedKeys(edges, keys) ==
  LET ordered[n \in 0..Cardinality(keys)] ==
        IF n = 0 THEN <<>> ELSE Extended(edges, keys, ordered[n - 1])
  IN ordered[Cardinality(keys)]

\* One container speaks for its service: the first listed when nothing held the
\* service back (it was ready from the start), the last listed otherwise (byService).
Representative(edges, members, k) ==
  LET replicas == {c \in members : Key(c) = k}
  IN IF \E e \in edges : e[2] = k THEN Max(replicas) ELSE Min(replicas)

\* The containers of S sorted: each comes after as many as are before it by name.
Before(S, c) == {d \in S : Key(d) < Key(c) \/ (Key(d) = Key(c) /\ d < c)}
ByName(S) == [i \in 1..Cardinality(S) |-> CHOOSE c \in S : Cardinality(Before(S, c)) = i - 1]

\* Mutant of orderProjectServices: whoever is in or behind a cycle is forgotten.
orderProjectServicesNoCycle(members, direction) ==
  LET edges == Edges(members, direction)
      ordered == OrderedKeys(edges, Keys(members))
  IN [i \in DOMAIN ordered |-> Representative(edges, members, ordered[i])]

\* Whoever is in or behind a cycle follows, by name.
orderProjectServices(members, direction) ==
  LET edges == Edges(members, direction)
      ordered == OrderedKeys(edges, Keys(members))
      leftover == {c \in members : Key(c) \notin ToSet(ordered)}
  IN [i \in DOMAIN ordered |-> Representative(edges, members, ordered[i])] \o ByName(leftover)

-----------------------------------------------------------------------------
(* Requests.                                                               *)

Existing == {c \in Containers : docker[c] # "gone"}

\* Mutant of Members: the panel takes them too.
MembersOfAnyKind(by) == Existing

\* The panel leaves `compose run` containers out; portta takes whatever has the
\* project label.
Members(by) == {c \in Existing : by = "panel" => kind[c] # "oneOff"}

Steps(verb, containers) ==
  [i \in DOMAIN containers |-> [verb |-> verb, container |-> containers[i], force |-> FALSE]]

\* The calls of one request, in order.
Plan(members, action) ==
  LET stops == Steps("stop", orderProjectServices(members, "stop"))
      starts == Steps("start", orderProjectServices(members, "start"))
  IN CASE action = "stop" -> stops
       [] action = "start" -> starts
       [] action = "restart" -> stops \o starts

Accept(by, action, steps) ==
  /\ request' = [by |-> by, action |-> action]
  /\ plan' = steps
  /\ seen' = docker /\ before' = docker
  /\ UNCHANGED <<layout, docker, results, disturbed>>

\* Every container of the environment, unless one of them is Portta's own.
RunProjectAction(by, action) ==
  /\ request = Nobody
  /\ Members(by) # {}
  /\ \A c \in Members(by) : kind[c] # "portta"
  /\ Accept(by, action, Plan(Members(by), action))

\* One container from the panel: 409 when it is that already, as the snapshot says.
RunContainerAction(c, action) ==
  /\ request = Nobody /\ c \in Existing /\ kind[c] # "portta"
  /\ action = "start" => docker[c] # "running"
  /\ action = "stop" => docker[c] = "running"
  /\ Accept("panel", "one", <<[verb |-> action, container |-> c, force |-> FALSE]>>)

\* Mutant of RemoveContainer: Docker is always told to force it.
RemoveContainerAlways(c, force) ==
  /\ request = Nobody /\ c \in Existing /\ kind[c] # "portta"
  /\ docker[c] = "running" => force
  /\ Accept("panel", IF force THEN "force" ELSE "remove",
            <<[verb |-> "remove", container |-> c, force |-> TRUE]>>)

\* A removal of what runs has to be confirmed, and only then is Docker told to
\* force it.
RemoveContainer(c, force) ==
  /\ request = Nobody /\ c \in Existing /\ kind[c] # "portta"
  /\ docker[c] = "running" => force
  /\ Accept("panel", IF force THEN "force" ELSE "remove",
            <<[verb |-> "remove", container |-> c, force |-> docker[c] = "running"]>>)

-----------------------------------------------------------------------------
(* Docker.                                                                 *)

\* The call changes something.  The panel takes Docker's "already so" (304) for an
\* error, portta's docker command does not.
CanDo(step) ==
  LET state == docker[step.container]
  IN CASE state = "gone" -> FALSE
       [] step.verb = "start" -> state = "exited" \/ request.by = "portta"
       [] step.verb = "stop" -> state = "running" \/ request.by = "portta"
       [] step.verb = "restart" -> TRUE
       [] step.verb = "remove" -> state = "exited" \/ step.force

Becomes(verb) ==
  CASE verb \in {"start", "restart"} -> "running" [] verb = "stop" -> "exited" [] verb = "remove" -> "gone"

\* runOne: what is so already is skipped.
Skips(step) ==
  \/ step.verb = "start" /\ seen[step.container] = "running"
  \/ step.verb = "stop" /\ seen[step.container] # "running"

Answer(ok, skipped) ==
  results' = Append(results, [verb |-> Head(plan).verb, container |-> Head(plan).container,
                              ok |-> ok, skipped |-> skipped])

\* Mutant of Act: the state runOne reads is never written.
ActUnremembered ==
  /\ plan # <<>> /\ plan' = Tail(plan)
  /\ LET step == Head(plan) IN
     IF Skips(step) THEN Answer(TRUE, TRUE) /\ UNCHANGED <<docker, seen>>
     ELSE \/ /\ CanDo(step) /\ docker' = [docker EXCEPT ![step.container] = Becomes(step.verb)]
             /\ UNCHANGED seen /\ Answer(TRUE, FALSE)
          \/ Answer(FALSE, FALSE) /\ UNCHANGED <<docker, seen>>
  /\ UNCHANGED <<layout, request, disturbed, before>>

\* One step of the plan: a failure is remembered and does not stop the others.
Act ==
  /\ plan # <<>> /\ plan' = Tail(plan)
  /\ LET step == Head(plan) IN
     IF Skips(step) THEN Answer(TRUE, TRUE) /\ UNCHANGED <<docker, seen>>
     ELSE \/ /\ CanDo(step)
             /\ docker' = [docker EXCEPT ![step.container] = Becomes(step.verb)]
             /\ seen' = [seen EXCEPT ![step.container] = Becomes(step.verb)]
             /\ Answer(TRUE, FALSE)
          \/ Answer(FALSE, FALSE) /\ UNCHANGED <<docker, seen>>
  /\ UNCHANGED <<layout, request, disturbed, before>>

\* A container ends, is started or is removed by somebody else.
Disturb(c, state) ==
  /\ request # Nobody /\ plan # <<>> /\ disturbed < MaxDisturbed
  /\ docker[c] \notin {state, "gone"}
  /\ docker' = [docker EXCEPT ![c] = state]
  /\ disturbed' = disturbed + 1
  /\ UNCHANGED <<layout, seen, request, plan, results, before>>

EnvironmentNext ==
  \/ \E by \in {"panel", "portta"}, action \in {"start", "stop", "restart"} : RunProjectAction(by, action)
  \/ \E c \in Containers, action \in {"start", "stop", "restart"} : RunContainerAction(c, action)
  \/ \E c \in Containers, force \in BOOLEAN : RemoveContainer(c, force)
  \/ Act
  \/ \E c \in Containers, state \in ContainerStates : Disturb(c, state)

EnvironmentSpec == EnvironmentInit /\ [][EnvironmentNext]_environmentVars

-----------------------------------------------------------------------------
(* Properties.                                                             *)

OnEnvironment == request.action \in {"start", "stop", "restart"}
Done == request # Nobody /\ plan = <<>>
Asked(verb) == request.action \in {verb, "restart"}

\* No services of the environment wait for each other in a circle: of any, one needs
\* none of them.
Acyclic ==
  \A S \in SUBSET Keys(Containers) : S # {} => \E s \in S : \A t \in S : <<s, t>> \notin dependsOn

\* A cycle, a dependency that is not there or a step that fails never leaves a
\* service out: every one is answered for, with every verb the request stands for.
EveryServiceIsAnsweredFor ==
  OnEnvironment /\ Done =>
    \A k \in Keys({c \in Containers : before[c] # "gone" /\ (request.by = "panel" => kind[c] # "oneOff")}),
       verb \in {"start", "stop"} :
      Asked(verb) => \E i \in DOMAIN results : results[i].verb = verb /\ Key(results[i].container) = k

\* Without a cycle, what a service needs is started before it and stopped after it,
\* and in a restart nothing starts before everything was stopped.
DependenciesKeepTheirOrder ==
  OnEnvironment /\ Acyclic =>
    \A i, j \in DOMAIN results :
      LET a == results[i]  b == results[j] IN
      /\ a.verb = "start" /\ b.verb = "start" /\ <<Key(b.container), Key(a.container)>> \in dependsOn => i < j
      /\ a.verb = "stop" /\ b.verb = "stop" /\ <<Key(a.container), Key(b.container)>> \in dependsOn => i < j
      /\ a.verb = "stop" /\ b.verb = "start" => i < j

\* What is answered for with success is so, when nothing else touched it: a skip is
\* never taken on what an earlier step of the same request changed.
SuccessIsTrue ==
  Done /\ disturbed = 0 =>
    \A c \in {results[i].container : i \in DOMAIN results} :
      LET last == results[Max({i \in DOMAIN results : results[i].container = c})]
      IN last.ok => docker[c] = Becomes(last.verb)

\* The panel takes a running container away only when the removal said so, whatever
\* the container did since the snapshot the removal was judged on.
RemovalOfRunningIsConfirmed ==
  [][\A c \in Containers :
       docker[c] = "running" /\ docker'[c] = "gone" /\ UNCHANGED disturbed => request.action = "force"]_environmentVars

\* "Starting the environment must not rerun a finished `composer install`"
\* (packages/server/src/services/actions.ts): not the panel, unless it was asked for
\* that very container.  portta does rerun it.
PanelLeavesOneOffs ==
  OnEnvironment /\ request.by = "panel" /\ disturbed = 0 =>
    \A c \in Containers : kind[c] = "oneOff" /\ before[c] = "exited" => docker[c] = "exited"
=============================================================================
