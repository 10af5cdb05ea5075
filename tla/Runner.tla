------------------------------- MODULE Runner -------------------------------
(***************************************************************************)
(* The project runner: one prepared container through which the panel      *)
(* drives the Compose of a consumer project.                               *)
(*                                                                         *)
(* The panel inspects the container, writes the single request file and    *)
(* starts the container; each of these is an await apart, and two          *)
(* requests may be between them at once.  The container's script reads the *)
(* file field by field, one process per field, with no lock, and acts on   *)
(* what it read.  Node writes the file in two system calls (truncate, then *)
(* write), so the script may also find it empty.                           *)
(*                                                                         *)
(* A project stands for its name and for its directory.  Portta's own      *)
(* project is refused by the panel and by the script, and is not in        *)
(* Projects.                                                               *)
(***************************************************************************)
EXTENDS Naturals, FiniteSets

CONSTANTS
  Projects,   \* the Compose projects of the host, remembered by the panel
  Requests,   \* the requests the panel answers at the same time
  None,       \* no value
  MaxRuns     \* bound: how often the container starts

\* The verbs the panel sends; the closed set also has stop and restart.
Verbs == {"up", "build", "down", "down-volumes"}

\* What the file holds.  dir is sent with "up" alone: any other verb finds the
\* directory in the labels of a container.
Content == [verb : Verbs, project : Projects, dir : Projects \cup {None}]

ASSUME RunnerAssumption ==
  /\ None \notin Projects \cup Verbs \cup Content
  /\ MaxRuns \in Nat

VARIABLES
  request,    \* [Requests -> Request]: what the panel is doing for each
  file,       \* state/runner/request.json, or None while it is empty
  container,  \* the runner container: its state and how many times it started
  script,     \* what the running script has read so far
  live,       \* the directory each project's containers were made from, or None
  volumes,    \* the projects whose volumes exist
  snapshot,   \* the projects the panel's cached inventory shows running
  aliases,    \* the projects the generated alias file names
  named,      \* history: the projects whose name was typed to lose their volumes
  overlapped  \* history: two dispatches have been in flight at once

panel == <<request, file, aliases, named>>
host == <<live, volumes>>
vars == <<request, file, container, script, live, volumes, snapshot, aliases,
          named, overlapped>>

Removals == {"down", "down-volumes"}

Steps == {"idle", "asked", "seen", "writing", "start", "started"}
RunnerStates == {"idle", "running", "ok", "failed"}

Request ==
  [step : {"idle"}, verb : {None}, project : {None}, seen : {None}, run : 0 .. MaxRuns]
  \cup [step : Steps \ {"idle"}, verb : Verbs, project : Projects,
        seen : RunnerStates \cup {None}, run : 0 .. MaxRuns]

\* An answered request keeps the run its answer reported, 0 for an error.
Answered(run) == [step |-> "idle", verb |-> None, project |-> None, seen |-> None, run |-> run]

Readings == {"off", "verb", "project", "rest"}
Actings == {"act", "volumes"}
Script ==
  [step : Readings, verb : Verbs \cup {None}, project : Projects \cup {None},
   dir : Projects \cup {None}]
  \cup [step : Actings, verb : Verbs, project : Projects, dir : Projects \cup {None}]
Off == [step |-> "off", verb |-> None, project |-> None, dir |-> None]

-----------------------------------------------------------------------------
Init ==
  /\ request = [r \in Requests |-> Answered(0)]
  /\ file = None
  /\ container = [state |-> "idle", run |-> 0]
  /\ script = Off
  /\ live = [p \in Projects |-> p]
  /\ volumes = Projects
  /\ snapshot = Projects
  /\ aliases = Projects
  /\ named = {}
  /\ overlapped = FALSE

-----------------------------------------------------------------------------
(***************************************************************************)
(* The panel.  A section that writes the file keeps the thread: no other   *)
(* request moves until the write ends.                                     *)
(***************************************************************************)
ThreadFree == \A r \in Requests : request[r].step # "writing"

InDispatch(r) == request[r].step \in {"seen", "writing", "start"}

Advance(r, step) == request' = [request EXCEPT ![r].step = step]

\* The panel answers.
Answer(r) == request' = [request EXCEPT ![r] = Answered(request[r].run)]

Accept(r, verb, p) ==
  /\ ThreadFree
  /\ request[r].step = "idle"
  /\ request' = [request EXCEPT ![r] =
       [step |-> "asked", verb |-> verb, project |-> p, seen |-> None, run |-> 0]]
  /\ UNCHANGED <<file, container, script, host, snapshot, aliases>>

\* Mutant of Rebuild: a verb the closed set does not hold.
RebuildByAnotherName(r, p) ==
  /\ p \in snapshot
  /\ Accept(r, "rebuild", p)
  /\ UNCHANGED named

Rebuild(r, p) ==
  /\ p \in snapshot
  /\ Accept(r, "build", p)
  /\ UNCHANGED named

\* The body carries the name typed back and whether the volumes go as well.
Remove(r, p, typed, withVolumes) ==
  /\ typed = p
  /\ p \in snapshot
  /\ Accept(r, IF withVolumes THEN "down-volumes" ELSE "down", p)
  /\ named' = IF withVolumes THEN named \cup {typed} ELSE named

\* No container is left of it: the panel remembers where Compose ran.
StartRemembered(r, p) ==
  /\ p \notin snapshot
  /\ Accept(r, "up", p)
  /\ UNCHANGED named

\* The daemon answers the inspection.  Reading the logs of a failed run is one
\* more await between here and Resume.
Inspect(r) ==
  /\ ThreadFree
  /\ request[r].step = "asked"
  /\ request' = [request EXCEPT ![r].step = "seen", ![r].seen = container.state]
  /\ UNCHANGED <<file, container, script, host, snapshot, aliases, named>>

\* Mutant of Resume: the write does not wait for a free runner.
ResumeUnguarded(r) ==
  /\ ThreadFree
  /\ request[r].step = "seen"
  /\ Advance(r, "writing")
  /\ file' = None
  /\ UNCHANGED <<container, script, host, snapshot, aliases, named>>

\* The panel resumes with the state it was told: a running runner is refused,
\* anything else lets the write begin.
Resume(r) ==
  /\ ThreadFree
  /\ request[r].step = "seen"
  /\ IF request[r].seen = "running"
       THEN Answer(r) /\ UNCHANGED file
       ELSE Advance(r, "writing") /\ file' = None
  /\ UNCHANGED <<container, script, host, snapshot, aliases, named>>

writeRunnerRequest(r) ==
  /\ request[r].step = "writing"
  /\ file' = [verb |-> request[r].verb, project |-> request[r].project,
              dir |-> IF request[r].verb = "up" THEN request[r].project ELSE None]
  /\ Advance(r, "start")
  /\ UNCHANGED <<container, script, host, snapshot, aliases, named>>

\* Mutant of Start: 304 is taken for a start.
StartOrAlreadyStarted(r) ==
  /\ ThreadFree
  /\ request[r].step = "start"
  /\ container.run < MaxRuns
  /\ IF container.state = "running"
       THEN /\ request' = [request EXCEPT ![r].step = "started", ![r].run = container.run]
            /\ UNCHANGED <<container, script>>
       ELSE /\ container' = [state |-> "running", run |-> container.run + 1]
            /\ script' = [Off EXCEPT !.step = "verb"]
            /\ request' = [request EXCEPT ![r].step = "started",
                                          ![r].run = container.run + 1]
  /\ UNCHANGED <<file, host, snapshot, aliases, named>>

\* Docker starts a stopped container and answers 304 for one that runs, which
\* the client throws as an error.
Start(r) ==
  /\ ThreadFree
  /\ request[r].step = "start"
  /\ IF container.state = "running"
       THEN Answer(r) /\ UNCHANGED <<container, script>>
       ELSE /\ container.run < MaxRuns
            /\ container' = [state |-> "running", run |-> container.run + 1]
            /\ script' = [Off EXCEPT !.step = "verb"]
            /\ request' = [request EXCEPT ![r].step = "started",
                                          ![r].run = container.run + 1]
  /\ UNCHANGED <<file, host, snapshot, aliases, named>>

\* Whatever the run goes on to do, a removal drops what Portta holds for the
\* project as soon as the container has been started.
Finish(r) ==
  /\ ThreadFree
  /\ request[r].step = "started"
  /\ aliases' = IF request[r].verb \in Removals
                  THEN aliases \ {request[r].project}
                  ELSE aliases
  /\ Answer(r)
  /\ UNCHANGED <<file, container, script, host, snapshot, named>>

\* The cached inventory is read again.
Refresh ==
  /\ snapshot' = {p \in Projects : live[p] # None}
  /\ snapshot' # snapshot
  /\ UNCHANGED <<panel, container, script, host>>

-----------------------------------------------------------------------------
(***************************************************************************)
(* The script.  Every exit leaves the container stopped with its code.     *)
(***************************************************************************)
Exit(code) ==
  /\ container' = [container EXCEPT !.state = IF code = 0 THEN "ok" ELSE "failed"]
  /\ script' = Off

ReadVerb ==
  /\ script.step = "verb"
  /\ script' = [script EXCEPT !.step = "project",
                              !.verb = IF file = None THEN None ELSE file.verb]
  /\ UNCHANGED <<panel, container, host, snapshot>>

ReadProject ==
  /\ script.step = "project"
  /\ script' = [script EXCEPT !.step = "rest",
                              !.project = IF file = None THEN None ELSE file.project]
  /\ UNCHANGED <<panel, container, host, snapshot>>

\* The directory and the Compose files, then the closed set of verbs and the
\* shape of the name.
ReadRest ==
  /\ script.step = "rest"
  /\ LET dir == IF file = None THEN None ELSE file.dir IN
       IF None \in {script.verb, script.project}
         THEN Exit(1)
         ELSE /\ script' = [script EXCEPT !.step = "act", !.dir = dir]
              /\ UNCHANGED container
  /\ UNCHANGED <<panel, host, snapshot>>

\* With a container its labels say where Compose ran; without one only an "up"
\* that names a directory goes on.
WorkingDir ==
  IF live[script.project] # None THEN live[script.project] ELSE script.dir

Runnable ==
  \/ live[script.project] # None
  \/ script.verb = "up" /\ script.dir # None

Die ==
  /\ script.step = "act"
  /\ ~ Runnable
  /\ Exit(1)
  /\ UNCHANGED <<panel, host, snapshot>>

\* compose up, or the build that comes before one and may fail on its own.
ComposeUp ==
  /\ script.step = "act"
  /\ script.verb \in {"up", "build"}
  /\ Runnable
  /\ \/ /\ live' = [live EXCEPT ![script.project] = WorkingDir]
        /\ volumes' = volumes \cup {script.project}
        /\ Exit(0)
     \/ /\ Exit(1)
        /\ UNCHANGED host
  /\ UNCHANGED <<panel, snapshot>>

\* compose down takes the containers first and, if asked, the volumes after.
ComposeDown ==
  /\ script.step = "act"
  /\ script.verb \in Removals
  /\ Runnable
  /\ \/ /\ live' = [live EXCEPT ![script.project] = None]
        /\ IF script.verb = "down-volumes"
             THEN script' = [script EXCEPT !.step = "volumes"] /\ UNCHANGED container
             ELSE Exit(0)
     \/ /\ Exit(1)
        /\ UNCHANGED live
  /\ UNCHANGED <<panel, volumes, snapshot>>

RemoveVolumes ==
  /\ script.step = "volumes"
  /\ \/ volumes' = volumes \ {script.project} /\ Exit(0)
     \/ Exit(1) /\ UNCHANGED volumes
  /\ UNCHANGED <<panel, live, snapshot>>

-----------------------------------------------------------------------------
Panel(r) ==
  \/ \E p \in Projects : Rebuild(r, p) \/ StartRemembered(r, p)
  \/ \E p, typed \in Projects, withVolumes \in BOOLEAN : Remove(r, p, typed, withVolumes)
  \/ Inspect(r)
  \/ Resume(r)
  \/ writeRunnerRequest(r)
  \/ Start(r)
  \/ Finish(r)

RunnerScript ==
  ReadVerb \/ ReadProject \/ ReadRest \/ Die \/ ComposeUp \/ ComposeDown \/ RemoveVolumes

\* The history of overlaps is written beside every step.
Watch ==
  overlapped' = (overlapped \/ \E q, r \in Requests : q # r /\ InDispatch(q)' /\ InDispatch(r)')

Next ==
  /\ \/ \E r \in Requests : Panel(r)
     \/ Refresh
     \/ RunnerScript
  /\ Watch

Spec == Init /\ [][Next]_vars

-----------------------------------------------------------------------------
TypeOK ==
  /\ request \in [Requests -> Request]
  /\ file \in Content \cup {None}
  /\ container \in [state : RunnerStates, run : 0 .. MaxRuns]
  /\ script \in Script
  /\ script.step = "off" <=> container.state # "running"
  /\ live \in [Projects -> Projects \cup {None}]
  /\ volumes \subseteq Projects
  /\ snapshot \subseteq Projects
  /\ aliases \subseteq Projects
  /\ named \subseteq Projects
  /\ overlapped \in BOOLEAN

\* A run of the container is reported as the result of one request: the second
\* of two dispatches that both found the runner free is answered with an error.
OneAnswerPerRun ==
  \A q, r \in Requests :
    /\ q # r
    /\ request[q].run = request[r].run
    => request[q].run = 0

\* Data is destroyed only for a project whose name was typed back for it.
VolumesGoOnlyByName == Projects \ volumes \subseteq named

\* Compose runs a project from the directory that project is known by.
RunsAtHome == \A p \in Projects : live[p] \in {p, None}

\* As long as no two dispatches were ever in flight together, the script acts
\* on one whole request: the runner's state, read before the file is written,
\* keeps a write away from a script that still reads.
AloneItDoesWhatWasAsked == ~ overlapped => (VolumesGoOnlyByName /\ RunsAtHome)
=============================================================================
